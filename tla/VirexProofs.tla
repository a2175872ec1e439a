------------------------------ MODULE VirexProofs ------------------------------
(***************************************************************************)
(* Proofs about the virtual machine and a session with it, for every size  *)
(* of a byte, of the stack and of the memory, for all programs, and for    *)
(* every set of files, images and limits: the machine's types, its stores, *)
(* its memory, and that to a program that names the registers it stores    *)
(* into it is the abstract stack machine; what a run starts from, and what *)
(* brings the menu back.                                                   *)
(***************************************************************************)
EXTENDS VirexSession, SequenceTheorems, TLAPS

(* Words: what a result wraps to is a word, and so are the small numbers.      *)
LEMMA WordFacts == /\ WordSize \in Nat /\ WordSize > 2 * REG_COUNT
                   /\ \A n \in Int : Wrap(n) \in Word
                   /\ \A n \in Word : Wrap(n) = n
                   /\ 0 \in Word /\ 1 \in Word
                   /\ \A w \in Word : Signed(w) \in Int
<1>1. WordSize \in Nat
  BY ByteAssumption DEF WordSize
<1>2. WordSize > 2 * REG_COUNT
  BY CapacityAssumption, <1>1 DEF REG_COUNT
<1>3. \A n \in Int : Wrap(n) \in Word
  BY <1>1, <1>2 DEF Wrap, Word, REG_COUNT
<1>4. \A n \in Word : Wrap(n) = n
  BY <1>1, <1>2 DEF Wrap, Word, REG_COUNT
<1>5. \A w \in Word : Signed(w) \in Int
  BY <1>1 DEF Signed, Word
<1> QED BY <1>1, <1>2, <1>3, <1>4, <1>5 DEF Word, REG_COUNT

(* The stack pointer, and the words of the stack: the machine's own while they *)
(* lie in the array, any beyond it.                                            *)
LEMMA StackTyped ==
  ASSUME TypeOK
  PROVE  /\ SP \in Nat /\ SP \in Word /\ NX \in Word
         /\ \A k \in Nat : k < SP => Words(k) \subseteq Word
         /\ \A k \in Nat : k < SP /\ SP <= STACK_CAPACITY + k =>
                          Top(k) \in Word /\ Words(k) = {Top(k)}
<1>1. SP \in Nat /\ SP \in Word /\ NX \in Word
  BY WordFacts DEF TypeOK, SP, NX, Word, RegID, REG_SP, REG_NX, REG_COUNT
<1>2. ASSUME NEW k \in Nat, k < SP, SP - 1 - k < STACK_CAPACITY PROVE Top(k) \in Word
  <2>1. SP - 1 - k \in StackAddr
    BY <1>1, <1>2, CapacityAssumption DEF StackAddr
  <2> QED BY <2>1 DEF TypeOK, Top
<1>3. \A k \in Nat : SP <= STACK_CAPACITY + k => SP - 1 - k < STACK_CAPACITY
  BY <1>1, CapacityAssumption
<1> QED BY <1>1, <1>2, <1>3 DEF Words

(* The instruction at NX and its operands.                                     *)
LEMMA InstTyped ==
  ASSUME TypeOK, Fetchable
  PROVE  /\ Inst \in Instruction
         /\ NX + 1 \in 1 .. Len(prog)
         /\ Operand \in Word
         /\ Operand2 \in Word
<1>1. prog \in Seq(Instruction)
  BY DEF TypeOK, Program
<1>2. NX + 1 \in 1 .. Len(prog)
  <2>1. NX \in Nat
    BY StackTyped, WordFacts DEF Word
  <2>2. Len(prog) \in Nat
    BY <1>1, LenProperties
  <2> QED BY <2>1, <2>2 DEF Fetchable
<1>3. Inst \in Instruction
  BY <1>1, <1>2, ElementOfSeq DEF Inst
<1>4. \A n \in Word : n % REG_COUNT \in RegID
  BY WordFacts DEF Word, REG_COUNT, RegID
<1>5. \A f \in BOOLEAN, n \in Word : Indirect(f, n) \in Word
  BY <1>4 DEF Indirect, TypeOK
<1> QED BY <1>2, <1>3, <1>5 DEF Operand, Operand2, Instruction

(* The number a register operand is cut to, and the words it may give.         *)
LEMMA RegNoTyped ==
  /\ \A w \in Word : RegNo(w) \in Word
  /\ \A w \in RegID : RegNo(w) = w
<1>1. RegIdSize \in Nat /\ RegIdSize > 0 /\ RegIdSize > REG_COUNT /\ RegIdSize <= WordSize
  BY CapacityAssumption DEF REG_COUNT
<1>2. \A w \in Word : w % RegIdSize \in Word
  BY <1>1, WordFacts DEF Word
<1>3. \A w \in RegID : w % RegIdSize = w
  BY <1>1 DEF RegID, REG_COUNT
<1> QED BY <1>2, <1>3 DEF RegNo

LEMMA RegWordsTyped ==
  ASSUME TypeOK, NEW n
  PROVE  RegWords(n) \subseteq Word /\ PushedReg(n) \subseteq Word
<1>1. RegWords(n) \subseteq Word
  BY DEF RegWords, TypeOK
<1>2. SP \in Word /\ Wrap(SP + 1) \in Word
  BY StackTyped, WordFacts
<1> QED BY <1>1, <1>2 DEF PushedReg

(* Around an instruction: the flag, the limit, the frames and the mode.        *)
DriveTyped == /\ halt' \in BOOLEAN /\ lim' \in Int /\ frames' \in 1 .. FrameCapacity
              /\ error' \in Errors /\ mode' \in Modes /\ prog' \in Program
LEMMA DriveKeepsTypes ==
  ASSUME TypeOK, NEW e \in Errors, NEW h \in BOOLEAN, Drive(e, h)
  PROVE  DriveTyped
<1>1. mode' \in Modes
  BY DEF Drive, Modes
<1>2. lim' \in Int /\ frames' \in 1 .. FrameCapacity
  BY CapacityAssumption DEF Drive, TypeOK
<1> QED BY <1>1, <1>2 DEF Drive, TypeOK, DriveTyped

(* What an instruction that passes may rely on: its checks.                    *)
LEMMA PassesFacts ==
  ASSUME TypeOK, NEW ops, Passes(ops)
  PROVE  /\ Fetchable /\ Inst.op \in ops
         /\ ~Overflows /\ ~Underflows /\ ~DividesByZero /\ ~LeavesItsArray
         /\ ~AccessesIllegalMemory
BY DEF Passes, InstError

(* What an executed instruction may rely on.                                   *)
LEMMA ExecutesFacts ==
  ASSUME TypeOK, NEW ops, Executes(ops)
  PROVE  /\ Fetchable /\ Inst.op \in ops /\ DriveTyped
         /\ ~Overflows /\ ~Underflows /\ ~DividesByZero /\ ~LeavesItsArray
         /\ ~AccessesIllegalMemory
<1>1. DriveTyped
  BY DriveKeepsTypes DEF Executes, Errors, TypeOK
<1>2. Passes(ops)
  BY DEF Executes
<1> QED BY <1>1, <1>2, PassesFacts

(* The same of an instruction that stores into a register by number.           *)
LEMMA StoresTyped ==
  ASSUME TypeOK, NEW w, Stores(w)
  PROVE  DriveTyped
<1>1. (IF StoredReg = REG_COUNT THEN w % 2 = 1 ELSE halt) \in BOOLEAN
  BY DEF TypeOK
<1>2. "ERR_OK" \in Errors
  BY DEF Errors
<1> QED BY <1>1, <1>2, DriveKeepsTypes DEF Stores

LEMMA StoredTyped ==
  ASSUME NEW r \in [RegID -> Word], NEW w \in Word
  PROVE  /\ Stored(r, w) \in [RegID -> Word]
         /\ StoredReg # REG_SP => Stored(r, w)[REG_SP] = r[REG_SP]
         /\ StoredReg # REG_NX => Stored(r, w)[REG_NX] = r[REG_NX]
BY DEF Stored

(* SP stays in the stack's array unless the instruction stores into it.        *)
StoresSp == Inst.op \in StoresByNumber /\ StoredReg = REG_SP
StackIsKept == SP <= STACK_CAPACITY /\ ~StoresSp

(* The machine's arrays, as the type invariant has them.                       *)
Keeps(r) == r \in [RegID -> Word] /\ (StackIsKept => r[REG_SP] <= STACK_CAPACITY)
Arrays(r, s, m) == /\ Keeps(r) /\ s \in [StackAddr -> Word]
                   /\ m \in [MemoryAddr -> Byte]
WellTyped == TypeOK' /\ (StackIsKept => SP' <= STACK_CAPACITY)
LEMMA TypesAreArraysAndDrive ==
  ASSUME DriveTyped, Arrays(reg', stack', memory')
  PROVE  WellTyped
BY DEF DriveTyped, Arrays, Keeps, WellTyped, TypeOK, SP

(* The changes of the register file every instruction ends with.               *)
LEMMA RegisterFiles ==
  ASSUME TypeOK, NEW r \in [RegID -> Word], r[REG_SP] = SP
  PROVE  /\ Advanced(r) \in [RegID -> Word] /\ Advanced(r)[REG_SP] = SP
         /\ \A n \in 0 .. 2 : n <= SP => /\ Popped(r, n) \in [RegID -> Word]
                                         /\ Popped(r, n)[REG_SP] = SP - n
         /\ \A d \in NamedReg, w \in Word : /\ [r EXCEPT ![d] = w] \in [RegID -> Word]
                                            /\ [r EXCEPT ![d] = w][REG_SP] = SP
         /\ \A w \in Word : /\ [r EXCEPT ![REG_NX] = w] \in [RegID -> Word]
                            /\ [r EXCEPT ![REG_NX] = w][REG_SP] = SP
<1>1. REG_NX \in RegID /\ REG_SP \in RegID /\ REG_NX # REG_SP
  BY DEF REG_NX, REG_SP, RegID, REG_COUNT
<1>2. r[REG_NX] \in Word /\ r[REG_NX] \in Nat /\ SP \in Nat /\ SP \in Word
  BY <1>1, WordFacts, StackTyped DEF Word, TypeOK, SP
<1>3. Advanced(r) \in [RegID -> Word] /\ Advanced(r)[REG_SP] = SP
  BY <1>1, <1>2, WordFacts DEF Advanced
<1>4. ASSUME NEW n \in 0 .. 2, n <= SP
      PROVE  Popped(r, n) \in [RegID -> Word] /\ Popped(r, n)[REG_SP] = SP - n
  <2>1. SP - n \in Word
    BY <1>2, <1>4, WordFacts DEF Word
  <2> QED BY <1>1, <2>1, WordFacts DEF Popped
<1>5. \A d \in NamedReg : d \in RegID /\ d # REG_SP
  BY DEF NamedReg
<1> QED BY <1>1, <1>3, <1>4, <1>5

LEMMA AdvancedTyped ==
  ASSUME NEW r \in [RegID -> Word]
  PROVE  Advanced(r) \in [RegID -> Word] /\ Advanced(r)[REG_SP] = r[REG_SP]
<1>1. REG_NX \in RegID /\ REG_SP \in RegID /\ REG_NX # REG_SP /\ r[REG_NX] \in Int
  BY WordFacts DEF REG_NX, REG_SP, RegID, REG_COUNT, Word
<1> QED BY <1>1, WordFacts DEF Advanced

LEMMA PoppedTyped ==
  ASSUME NEW r \in [RegID -> Word], NEW n \in 0 .. 2
  PROVE  Popped(r, n) \in [RegID -> Word]
<1>1. REG_SP \in RegID /\ r[REG_SP] \in Int
  BY WordFacts DEF REG_SP, RegID, REG_COUNT, Word
<1> QED BY <1>1, WordFacts DEF Popped

(* An instruction that changes registers only.                                 *)
LEMMA RegistersKeepTypes ==
  ASSUME TypeOK, DriveTyped, NEW r, Keeps(r), Registers(r)
  PROVE  WellTyped
<1>1. Arrays(reg', stack', memory')
  BY DEF Registers, Arrays, TypeOK
<1> QED BY <1>1, TypesAreArraysAndDrive

(* An instruction that pushes w, and leaves the rest of the registers as r.    *)
LEMMA PushingKeepsTypes ==
  ASSUME TypeOK, DriveTyped, SP < STACK_CAPACITY, NEW r \in [RegID -> Word], NEW w \in Word,
         Pushing(w, r)
  PROVE  WellTyped
<1>1. SP \in StackAddr /\ REG_SP \in RegID
  BY StackTyped, CapacityAssumption DEF StackAddr, REG_SP, RegID, REG_COUNT
<1>2. Wrap(SP + 1) = SP + 1 /\ SP + 1 \in Word /\ SP + 1 <= STACK_CAPACITY
  BY StackTyped, CapacityAssumption, WordFacts DEF Word
<1>3. /\ stack' = [stack EXCEPT ![SP] = w]
      /\ reg' = [r EXCEPT ![REG_SP] = SP + 1]
      /\ memory' = memory
  BY <1>2 DEF Pushing
<1>4. reg' \in [RegID -> Word] /\ reg'[REG_SP] <= STACK_CAPACITY
  BY <1>1, <1>2, <1>3
<1>5. stack' \in [StackAddr -> Word] /\ memory' \in [MemoryAddr -> Byte]
  BY <1>1, <1>3 DEF TypeOK
<1> QED BY <1>4, <1>5, TypesAreArraysAndDrive DEF Arrays, Keeps

(* An instruction that replaces the n top words by w.                          *)
LEMMA ReplacingKeepsTypes ==
  ASSUME TypeOK, DriveTyped, NEW n \in 1 .. 2, n <= SP, SP - n < STACK_CAPACITY,
         NEW w \in Word, Replacing(n, w)
  PROVE  WellTyped
<1>1. SP - n \in StackAddr /\ SP - (n - 1) <= STACK_CAPACITY
  BY StackTyped, CapacityAssumption DEF StackAddr
<1>2. reg \in [RegID -> Word] /\ reg[REG_SP] = SP
  BY DEF TypeOK, SP
<1>3. /\ Popped(reg, n - 1) \in [RegID -> Word]
      /\ Popped(reg, n - 1)[REG_SP] = SP - (n - 1)
  BY <1>2, RegisterFiles, StackTyped
<1>4. /\ Advanced(Popped(reg, n - 1)) \in [RegID -> Word]
      /\ Advanced(Popped(reg, n - 1))[REG_SP] = Popped(reg, n - 1)[REG_SP]
  BY <1>3, AdvancedTyped
<1>5. reg' \in [RegID -> Word] /\ reg'[REG_SP] <= STACK_CAPACITY
  BY <1>1, <1>3, <1>4 DEF Replacing
<1>6. stack' \in [StackAddr -> Word] /\ memory' \in [MemoryAddr -> Byte]
  BY <1>1 DEF TypeOK, Replacing
<1> QED BY <1>5, <1>6, TypesAreArraysAndDrive DEF Arrays, Keeps

(* How many words an instruction that passes finds on the stack, and where.    *)
LEMMA PassesNeeds ==
  ASSUME TypeOK, NEW ops, Passes(ops)
  PROVE  /\ Inst.op \in Reads \cup {"SPOPR", "SPOP", "JMPC", "NOTB", "RET", "NOT"} => SP >= 1
         /\ Inst.op \in BinaryOps \cup Writes => SP >= 2
         /\ Inst.op = "SWAP" => Operand < SP
         /\ Inst.op \in {"PUSHR", "CALL", "PUSH", "DUPS", "GETR"} => SP < STACK_CAPACITY
         /\ Inst.op \in Reads \cup {"NOTB", "NOT", "SWAP"} => SP <= STACK_CAPACITY
         /\ Inst.op \in BinaryOps => SP <= STACK_CAPACITY + 1
<1>1. ~Overflows /\ ~Underflows /\ ~LeavesItsArray /\ SP \in Nat /\ Operand \in Word
  BY PassesFacts, StackTyped, InstTyped
<1>2. Inst.op \in Reads \cup {"SPOPR", "SPOP", "JMPC", "NOTB", "RET", "NOT"} => Needs = 1
  BY DEF Needs, Reads, ReadsSigned, ReadsUnsigned, Writes, BinaryOps, IntCompare, FloatCompare,
         BitOps
<1>3. Inst.op \in BinaryOps \cup Writes => Needs = 2
  BY DEF Needs, Reads, ReadsSigned, ReadsUnsigned, Writes, BinaryOps, IntCompare, FloatCompare,
         BitOps
<1>4. /\ Inst.op \in Reads \cup {"SPOPR", "SPOP", "JMPC", "NOTB", "RET", "NOT"} => SP >= 1
      /\ Inst.op \in BinaryOps \cup Writes => SP >= 2
  BY <1>1, <1>2, <1>3 DEF Underflows
<1>5. Inst.op = "SWAP" => Operand < SP
  BY <1>1, WordFacts DEF Underflows, Word
<1>6. Inst.op \in {"PUSHR", "CALL", "PUSH", "DUPS", "GETR"} => SP < STACK_CAPACITY
  BY <1>1, CapacityAssumption DEF Overflows, LeavesItsArray
<1>7. /\ Inst.op \in Reads \cup {"NOTB", "NOT", "SWAP"} => SP <= STACK_CAPACITY
      /\ Inst.op \in BinaryOps => SP <= STACK_CAPACITY + 1
  BY <1>1, CapacityAssumption DEF LeavesItsArray
<1> QED BY <1>4, <1>5, <1>6, <1>7

LEMMA NeedsMet ==
  ASSUME TypeOK, NEW ops, Executes(ops)
  PROVE  /\ Inst.op \in Reads \cup {"SPOPR", "SPOP", "JMPC", "NOTB", "RET", "NOT"} => SP >= 1
         /\ Inst.op \in BinaryOps \cup Writes => SP >= 2
         /\ Inst.op = "SWAP" => Operand < SP
         /\ Inst.op \in {"PUSHR", "CALL", "PUSH", "DUPS", "GETR"} => SP < STACK_CAPACITY
         /\ Inst.op \in Reads \cup {"NOTB", "NOT", "SWAP"} => SP <= STACK_CAPACITY
         /\ Inst.op \in BinaryOps => SP <= STACK_CAPACITY + 1
<1>1. Passes(ops)
  BY DEF Executes
<1> QED BY <1>1, PassesNeeds
-----------------------------------------------------------------------------
(* What instructions compute are words and bytes.                              *)
LEMMA DivTyped == \A a \in Nat, d \in Nat \ {0} : a \div d \in Nat
  OBVIOUS

LEMMA IntResultTyped ==
  ASSUME NEW op \in IntArith, NEW x \in Word, NEW y \in Word,
         op \in {"DIVI", "MODI", "DIVU", "MODU"} => y # 0
  PROVE  IntResult(op, x, y) \in Word
<1>1. x \in Nat /\ y \in Nat /\ Signed(x) \in Int /\ Signed(y) \in Int
  BY WordFacts DEF Word
<1>2. /\ Wrap(x + y) \in Word /\ Wrap(x - y) \in Word
      /\ Wrap(x * y) \in Word
  BY <1>1, WordFacts
<1>3. ASSUME y # 0 PROVE Signed(y) # 0
  BY <1>1, <1>3, WordFacts DEF Signed, Word
<1>4. ASSUME y # 0 PROVE Quotient(Signed(x), Signed(y)) \in Int
  <2>1. Abs(Signed(x)) \in Nat /\ Abs(Signed(y)) \in Nat \ {0}
    BY <1>1, <1>3, <1>4 DEF Abs
  <2>2. Abs(Signed(x)) \div Abs(Signed(y)) \in Nat
    BY <2>1, DivTyped
  <2> QED BY <2>2 DEF Quotient
<1>5. ASSUME y # 0 PROVE Remainder(Signed(x), Signed(y)) \in Int
  <2>1. \A a, b, c \in Int : a - b * c \in Int
    OBVIOUS
  <2> QED BY <1>1, <1>4, <1>5, <2>1 DEF Remainder
<1>6. ASSUME y # 0 PROVE x \div y \in Int /\ x % y \in Int
  BY <1>1, <1>6, DivTyped
<1>7. ASSUME y # 0
      PROVE  /\ Wrap(Quotient(Signed(x), Signed(y))) \in Word
             /\ Wrap(Remainder(Signed(x), Signed(y))) \in Word
             /\ Wrap(x \div y) \in Word /\ Wrap(x % y) \in Word
  BY <1>4, <1>5, <1>6, <1>7, WordFacts
<1> QED BY <1>2, <1>7 DEF IntResult, IntArith

LEMMA BinaryResultsTyped ==
  ASSUME NEW op \in BinaryOps, NEW x, NEW y
  PROVE  BinaryResults(op, x, y) \subseteq Word
BY WordFacts DEF BinaryResults, BinaryOps, IntCompare, FloatCompare, BitOps

LEMMA ByteOfTyped ==
  ASSUME NEW w \in Word, NEW i \in 0 .. 7
  PROVE  ByteOf(w, i) \in Byte
<1>1. w \in Nat /\ ByteSize ^ i \in Nat \ {0} /\ ByteSize \in Nat \ {0}
  BY WordFacts, ByteAssumption DEF Word
<1>2. w \div ByteSize ^ i \in Nat
  BY <1>1, DivTyped
<1> HIDE DEF Byte
<1>3. \A n \in Nat : n % ByteSize \in Byte
  BY <1>1 DEF Byte
<1> QED BY <1>2, <1>3 DEF ByteOf

LEMMA SignExtendTyped ==
  ASSUME NEW w \in Word, NEW n \in {1, 2, 4, 8}
  PROVE  SignExtend(w, n) \in Word
<1>1. w \in Int /\ ByteSize ^ n \in Int
  BY WordFacts, ByteAssumption DEF Word
<1>2. w - ByteSize ^ n \in Int
  BY <1>1
<1> QED BY <1>2, WordFacts DEF SignExtend

LEMMA WidthValues == Width(Inst.op) \in {1, 2, 4, 8}
  BY DEF Width

LEMMA RegisterNumbers ==
  /\ {REG_L0, REG_L1, REG_L2, REG_L3, REG_QT, REG_RF} \subseteq NamedReg
  /\ REG_NX \in RegID /\ REG_SP \in RegID
BY DEF NamedReg, RegID, REG_COUNT, REG_L0, REG_L1, REG_L2, REG_L3, REG_QT, REG_RF, REG_NX, REG_SP
-----------------------------------------------------------------------------
(* The type invariant holds at first.                                          *)
LEMMA InitTyped == Init => TypeOK
<1> SUFFICES ASSUME Init PROVE TypeOK
  OBVIOUS
<1>1. reg \in [RegID -> Word] /\ stack \in [StackAddr -> Word] /\ SP = 0
  BY WordFacts, RegisterNumbers DEF Init, SP
<1>2. memory \in [MemoryAddr -> Byte]
  BY ByteAssumption DEF Init, Byte
<1>3. prog \in Program
  BY ProgramAssumption DEF Init
<1>4. halt \in BOOLEAN /\ error \in Errors /\ mode \in Modes
  BY DEF Init, Errors, Modes
<1>5. lim \in Int /\ frames \in 1 .. FrameCapacity
  BY <1>1, CapacityAssumption DEF Init, ExecLimit
<1> QED BY <1>1, <1>2, <1>3, <1>4, <1>5 DEF TypeOK

(* The addresses and the bytes of a WRITE.                                     *)
LEMMA AddressesTyped ==
  ASSUME TypeOK, NEW ops, Passes(ops), Inst.op \in Writes
  PROVE  \A a \in Addresses : a \in Nat /\ a + Width(Inst.op) <= MEMORY_CAPACITY
<1>1. CASE AddressIsOutside
  BY <1>1, CapacityAssumption DEF Addresses, MemoryAddr
<1>2. CASE ~AddressIsOutside
  <2>1. SP >= 2 /\ SP <= STACK_CAPACITY + 1
    BY <1>2, PassesNeeds, StackTyped, CapacityAssumption DEF AddressIsOutside
  <2>2. Inst.op \notin Reads
    BY DEF Reads, ReadsSigned, ReadsUnsigned, Writes
  <2>3. Address \in Nat
    BY <2>1, <2>2, StackTyped, WordFacts DEF Address, Word
  <2>4. ~(Address + Width(Inst.op) > MEMORY_CAPACITY)
    BY <1>2, PassesFacts DEF LeavesItsArray
  <2> QED BY <1>2, <2>3, <2>4, WidthValues, CapacityAssumption DEF Addresses
<1> QED BY <1>1, <1>2

(* The type invariant is inductive: each instruction keeps it, and keeps SP in *)
(* the stack's array if it does not store into it.                             *)
LEMMA StepWellTyped ==
  ASSUME TypeOK, Step
  PROVE  WellTyped
<1> USE StackTyped, RegisterNumbers
<1>0. reg \in [RegID -> Word] /\ reg[REG_SP] = SP /\ SP \in Nat /\ Keeps(reg)
  BY DEF TypeOK, SP, Keeps, StackIsKept
\* An instruction whose registers are r.
<1>q. ASSUME DriveTyped, NEW r, Registers(r), Keeps(r) PROVE WellTyped
  BY <1>q, RegistersKeepTypes
<1>r. ASSUME NEW ops, Executes(ops), NEW r, Registers(r), Keeps(r) PROVE WellTyped
  BY <1>r, ExecutesFacts, RegistersKeepTypes
\* The registers r, advanced, keep the invariant.
<1>a. ASSUME NEW r, Keeps(r) PROVE Keeps(Advanced(r))
  BY <1>a, AdvancedTyped DEF Keeps
\* A register other than SP set to a word.
<1>d. ASSUME NEW d \in NamedReg \cup {REG_NX}, NEW w \in Word
      PROVE  /\ [reg EXCEPT ![d] = w] \in [RegID -> Word]
             /\ [reg EXCEPT ![d] = w][REG_SP] = SP
  <2>1. d \in RegID /\ d # REG_SP
    BY DEF NamedReg, REG_NX, REG_SP
  <2> QED BY <1>0, <2>1
<1>s. ASSUME NEW d \in NamedReg \cup {REG_NX}, NEW w \in Word
      PROVE  Keeps([reg EXCEPT ![d] = w])
  BY <1>d DEF Keeps, StackIsKept
\* A word stored into a register by number.
<1>n. ASSUME NEW r \in [RegID -> Word], r[REG_SP] = SP, NEW w \in Word, Inst.op \in StoresByNumber
      PROVE  /\ Stored(r, w) \in [RegID -> Word]
             /\ StackIsKept => Stored(r, w)[REG_SP] = SP
             /\ Keeps(Stored(r, w))
  BY <1>n, StoredTyped DEF StackIsKept, StoresSp, Keeps
\* The top word taken off the stack.
<1>p. ASSUME NEW r \in [RegID -> Word], StackIsKept => r[REG_SP] = SP, SP >= 1
      PROVE  Keeps(Popped(r, 1))
  <2>1. 1 \in 0 .. 2 /\ 1 <= SP
    BY <1>p
  <2>2. Popped(r, 1) \in [RegID -> Word]
    BY <2>1, PoppedTyped
  <2>3. ASSUME StackIsKept PROVE Popped(r, 1)[REG_SP] <= STACK_CAPACITY
    <3>1. Popped(r, 1)[REG_SP] = SP - 1
      BY <1>p, <2>1, <2>3, RegisterFiles
    <3> QED BY <1>0, <2>3, <3>1, CapacityAssumption DEF StackIsKept
  <2> QED BY <2>2, <2>3 DEF Keeps
<1>1. CASE Donop
  BY <1>0, <1>1, <1>r, <1>a DEF Donop
<1>2. CASE Retvl \/ Shuts
  BY <1>0, <1>2, <1>r DEF Retvl, Shuts
<1>3. CASE Invok
  <2>1. PICK ptr \in IF VmCallI[Operand] = "alloc" THEN Word ELSE {reg[REG_RF]} :
          Registers(Advanced([reg EXCEPT ![REG_RF] = ptr]))
    BY <1>3 DEF Invok
  <2>2. ptr \in Word
    BY <1>0, <2>1 DEF NamedReg
  <2>3. Keeps([reg EXCEPT ![REG_RF] = ptr])
    BY <1>s, <2>2
  <2>4. Keeps(Advanced([reg EXCEPT ![REG_RF] = ptr]))
    BY <1>a, <2>3
  <2> QED BY <1>3, <1>r, <2>1, <2>4 DEF Invok
<1>4. CASE Pushr \/ Getr
  <2>1. PICK w \in PushedReg(RegNo(Operand)) : Pushing(w, Advanced(reg))
    BY <1>4 DEF Pushr, Getr
  <2>2. w \in Word
    BY <2>1, RegWordsTyped
  <2>3. PICK ops : Executes(ops) /\ ops \subseteq {"PUSHR", "GETR"}
    BY <1>4 DEF Pushr, Getr
  <2> QED BY <1>0, <2>1, <2>2, <2>3, ExecutesFacts, NeedsMet, AdvancedTyped, PushingKeepsTypes
<1>5. CASE Push
  BY <1>0, <1>5, ExecutesFacts, InstTyped, NeedsMet, AdvancedTyped, PushingKeepsTypes DEF Push
<1>6. CASE Call
  <2>1. Wrap(NX + 1) \in Word /\ Operand \in Word
    BY <1>6, ExecutesFacts, InstTyped, WordFacts DEF Call, Word
  <2>2. [reg EXCEPT ![REG_NX] = Operand] \in [RegID -> Word]
    BY <1>0, <2>1
  <2> QED BY <1>6, <2>1, <2>2, ExecutesFacts, NeedsMet, PushingKeepsTypes DEF Call
<1>7. CASE Spopr
  <2>1. PICK w \in Words(0) : Stores(w) /\ Registers(Advanced(Popped(Stored(reg, w), 1)))
    BY <1>7 DEF Spopr
  <2>2. SP >= 1 /\ Inst.op \in StoresByNumber
    BY <1>7, PassesNeeds, PassesFacts DEF Spopr, StoresByNumber
  <2>3. w \in Word /\ DriveTyped
    BY <2>1, <2>2, StoresTyped
  <2>4. Keeps(Popped(Stored(reg, w), 1))
    BY <1>0, <1>n, <1>p, <2>2, <2>3
  <2> QED BY <1>a, <1>q, <2>1, <2>3, <2>4
<1>8. CASE Spop \/ Ret
  <2>1. PICK ops : Executes(ops) /\ ops \subseteq {"SPOP", "RET"}
    BY <1>8 DEF Spop, Ret
  <2>2. SP >= 1
    BY <2>1, NeedsMet, ExecutesFacts
  <2>3. PICK d \in NamedReg \cup {REG_NX}, w \in Words(0) :
          \/ Registers(Advanced(Popped([reg EXCEPT ![d] = w], 1)))
          \/ Registers(Popped([reg EXCEPT ![d] = w], 1))
    BY <1>8 DEF Spop, Ret
  <2>4. w \in Word
    BY <2>2
  <2>5. Keeps(Popped([reg EXCEPT ![d] = w], 1))
    BY <1>d, <1>p, <2>2, <2>4
  <2> QED BY <1>a, <1>r, <2>1, <2>3, <2>5
<1>9. CASE Setr
  <2>1. Operand \in Word /\ Inst.op \in StoresByNumber /\ DriveTyped
    BY <1>9, PassesFacts, InstTyped, StoresTyped DEF Setr, StoresByNumber
  <2>2. Keeps(Advanced(Stored(reg, Operand)))
    BY <1>0, <1>a, <1>n, <2>1
  <2> QED BY <1>9, <1>q, <2>1, <2>2 DEF Setr
<1>10. CASE Copy
  <2>1. PICK w \in RegWords(RegNo(Operand2)) : Stores(w) /\ Registers(Advanced(Stored(reg, w)))
    BY <1>10 DEF Copy
  <2>2. w \in Word /\ Inst.op \in StoresByNumber /\ DriveTyped
    BY <1>10, <2>1, PassesFacts, RegWordsTyped, StoresTyped DEF Copy, StoresByNumber
  <2>3. Keeps(Advanced(Stored(reg, w)))
    BY <1>0, <1>a, <1>n, <2>2
  <2> QED BY <1>q, <2>1, <2>2, <2>3
<1>11. CASE Jmpu
  BY <1>11, <1>r, <1>s, ExecutesFacts, InstTyped DEF Jmpu
<1>12. CASE Jmpc
  <2>1. Operand \in Word /\ SP >= 1 /\ Executes({"JMPC"})
    BY <1>12, ExecutesFacts, InstTyped, NeedsMet DEF Jmpc
  <2>2. Wrap(NX + 1) \in Word /\ Advanced(reg) = [reg EXCEPT ![REG_NX] = Wrap(NX + 1)]
    BY <1>0, WordFacts DEF Advanced, NX, Word
  <2>3. PICK n \in {Operand, Wrap(NX + 1)} : Registers(Popped([reg EXCEPT ![REG_NX] = n], 1))
    BY <1>12, <2>2 DEF Jmpc
  <2>4. Keeps(Popped([reg EXCEPT ![REG_NX] = n], 1))
    BY <1>d, <1>p, <2>1, <2>2, <2>3
  <2> QED BY <1>r, <2>1, <2>3, <2>4
<1>13. CASE Loop
  <2>1. Operand \in Word /\ Inst.op \in StoresByNumber
    BY <1>13, PassesFacts, InstTyped DEF Loop, StoresByNumber
  <2>2. PICK c \in RegWords(StoredReg), r \in {[reg EXCEPT ![REG_NX] = Operand], Advanced(reg)} :
          LET n == Wrap((IF StoredReg \in RegID THEN r[StoredReg] ELSE c) - 1)
          IN  Stores(n) /\ Registers(Stored(r, n))
    BY <1>13 DEF Loop
  <2>3. r \in [RegID -> Word] /\ r[REG_SP] = SP
    BY <1>0, <1>d, <2>1, <2>2, AdvancedTyped
  <2> DEFINE n == Wrap((IF StoredReg \in RegID THEN r[StoredReg] ELSE c) - 1)
  <2>4. n \in Word
    BY <2>2, <2>3, RegWordsTyped, WordFacts DEF Word
  <2>5. Stores(n) /\ Registers(Stored(r, n))
    BY <2>2
  <2> HIDE DEF n
  <2>6. DriveTyped /\ Keeps(Stored(r, n))
    BY <1>n, <2>1, <2>3, <2>4, <2>5, StoresTyped
  <2> QED BY <1>q, <2>5, <2>6
<1>14. CASE Swap
  <2>1. /\ Executes({"SWAP"}) /\ Operand \in Nat /\ Operand < SP /\ SP <= STACK_CAPACITY
        /\ stack' = [stack EXCEPT ![SP - 1] = Top(Operand), ![SP - 1 - Operand] = Top(0)]
        /\ reg' = Advanced(reg) /\ memory' = memory
    <3>1. Executes({"SWAP"}) /\ Inst.op = "SWAP" /\ Fetchable
      BY <1>14, ExecutesFacts DEF Swap
    <3>2. Operand < SP /\ SP <= STACK_CAPACITY
      BY <3>1, NeedsMet
    <3>3. Operand \in Nat
      BY <3>1, InstTyped, WordFacts DEF Word
    <3> QED BY <1>14, <3>1, <3>2, <3>3 DEF Swap
  <2>2. Top(Operand) \in Word /\ Top(0) \in Word
    BY <1>0, <2>1, CapacityAssumption
  <2>3. stack' \in [StackAddr -> Word]
    BY <2>1, <2>2 DEF TypeOK
  <2>4. Keeps(reg')
    BY <1>0, <1>a, <2>1
  <2>5. memory' \in [MemoryAddr -> Byte]
    BY <2>1 DEF TypeOK
  <2> QED BY <2>1, <2>3, <2>4, <2>5, ExecutesFacts, TypesAreArraysAndDrive DEF Arrays
<1>15. CASE Dups
  <2>1. PICK w \in IF Operand < SP THEN {Top(Operand)} ELSE Word : Pushing(w, Advanced(reg))
    BY <1>15 DEF Dups
  <2>2. Executes({"DUPS"}) /\ Operand \in Nat
    BY <1>15, ExecutesFacts, InstTyped, WordFacts DEF Dups, Word
  <2>3. w \in Word
    BY <1>0, <2>1, <2>2, ExecutesFacts, NeedsMet, CapacityAssumption
  <2> QED BY <1>0, <2>1, <2>2, <2>3, ExecutesFacts, NeedsMet, AdvancedTyped, PushingKeepsTypes
<1>16. CASE Arith
  <2>1. /\ Executes(IntArith) /\ Inst.op \in IntArith /\ Operand \in Word
        /\ Inst.op \in {"DIVI", "MODI", "DIVU", "MODU"} => Operand # 0
    BY <1>16, ExecutesFacts, InstTyped DEF Arith, DividesByZero
  <2>2. Accumulator(Inst.op) \in NamedReg /\ Accumulator(Inst.op) \in RegID
    BY DEF Accumulator, NamedReg
  <2>3. IntResult(Inst.op, reg[Accumulator(Inst.op)], Operand) \in Word
    BY <1>0, <2>1, <2>2, IntResultTyped
  <2>4. Registers(Advanced([reg EXCEPT ![Accumulator(Inst.op)] =
                                IntResult(Inst.op, reg[Accumulator(Inst.op)], Operand)]))
    BY <1>16 DEF Arith
  <2> QED BY <1>a, <1>r, <1>s, <2>1, <2>2, <2>3, <2>4
<1>17. CASE ArithF
  <2>1. PICK w \in Word : Registers(Advanced([reg EXCEPT ![REG_L1] = w]))
    BY <1>17 DEF ArithF
  <2>2. Keeps(Advanced([reg EXCEPT ![REG_L1] = w]))
    BY <1>a, <1>s
  <2> QED BY <1>17, <1>r, <2>1, <2>2 DEF ArithF
<1>18. CASE Cast
  <2>1. PICK d \in {REG_L1, REG_L2, REG_L3}, w \in Word :
          Registers(Advanced([reg EXCEPT ![d] = w]))
    BY <1>18, ExecutesFacts DEF Cast, Casts
  <2>2. Keeps(Advanced([reg EXCEPT ![d] = w]))
    BY <1>a, <1>s
  <2> QED BY <1>18, <1>r, <2>1, <2>2 DEF Cast
<1>19. CASE Binary
  <2>1. PICK top \in Words(0) : \E w \in BinaryResults(Inst.op, Top(1), top) : Replacing(2, w)
    BY <1>19 DEF Binary
  <2>a. PICK w \in BinaryResults(Inst.op, Top(1), top) : Replacing(2, w)
    BY <2>1
  <2>2. /\ Executes(BinaryOps) /\ Inst.op \in BinaryOps /\ 2 <= SP
        /\ SP - 2 < STACK_CAPACITY
    BY <1>0, <1>19, ExecutesFacts, NeedsMet, CapacityAssumption DEF Binary
  <2>3. w \in Word
    BY <2>a, <2>2, BinaryResultsTyped
  <2>4. 2 \in 1 .. 2
    OBVIOUS
  <2> QED BY <2>a, <2>2, <2>3, <2>4, ExecutesFacts, ReplacingKeepsTypes
<1>20. CASE Notb \/ Not \/ ReadU \/ ReadI
  <2>1. PICK ops : Executes(ops) /\ ops \subseteq Reads \cup {"NOTB", "NOT"}
    BY <1>20 DEF Notb, Not, ReadU, ReadI, Reads
  <2>2. DriveTyped /\ 1 <= SP /\ SP <= STACK_CAPACITY
    BY <1>0, <2>1, ExecutesFacts, NeedsMet
  <2>a. Top(0) \in Word /\ SP - 1 < STACK_CAPACITY
    BY <1>0, <2>2, CapacityAssumption
  <2>3. WordSize - 1 - Top(0) \in Word
    BY <2>a, WordFacts DEF Word
  <2>4. PICK w \in Word : Replacing(1, w)
    <3>1. CASE Notb \/ Not
      BY <2>3, <3>1, WordFacts DEF Notb, Not
    <3>2. CASE ReadU
      BY <3>2 DEF ReadU, ReadResults
    <3>3. CASE ReadI
      BY <3>3, SignExtendTyped, WidthValues DEF ReadI, ReadResults
    <3> QED BY <1>20, <3>1, <3>2, <3>3
  <2>5. 1 \in 1 .. 2
    OBVIOUS
  <2> QED BY <2>2, <2>a, <2>4, <2>5, ReplacingKeepsTypes
<1>21. CASE Write
  <2>1. Executes(Writes) /\ Inst.op \in Writes /\ Passes(Writes) /\ DriveTyped /\ 2 <= SP
    BY <1>21, ExecutesFacts, NeedsMet DEF Write, Executes
  <2>2. PICK to \in Addresses, w \in Words(0) :
          memory' = [a \in MemoryAddr |->
                       IF a \in to .. to + Width(Inst.op) - 1
                       THEN ByteOf(w, a - to) ELSE memory[a]]
    BY <1>21 DEF Write
  <2>3. to \in Nat /\ w \in Word
    BY <1>0, <2>1, <2>2, AddressesTyped
  <2>4. \A a \in MemoryAddr : a \in to .. to + Width(Inst.op) - 1 => a - to \in 0 .. 7
    BY <2>3, WidthValues DEF MemoryAddr
  <2>5. memory' \in [MemoryAddr -> Byte]
    BY <2>2, <2>3, <2>4, ByteOfTyped DEF TypeOK
  <2>6. 2 \in 0 .. 2
    OBVIOUS
  <2>7. Popped(reg, 2) \in [RegID -> Word] /\ Popped(reg, 2)[REG_SP] = SP - 2
    BY <1>0, <2>1, <2>6, RegisterFiles
  <2>8. SP <= STACK_CAPACITY => SP - 2 <= STACK_CAPACITY
    BY <1>0, CapacityAssumption
  <2>9. Keeps(reg')
    BY <1>21, <2>7, <2>8, AdvancedTyped DEF Write, Keeps, StackIsKept
  <2>10. stack' \in [StackAddr -> Word]
    BY <1>21 DEF Write, TypeOK
  <2> QED BY <2>1, <2>5, <2>9, <2>10, TypesAreArraysAndDrive DEF Arrays
<1>22. CASE Fail
  <2>1. DriveTyped
    BY <1>22, DriveKeepsTypes DEF Fail, InstError, Errors, TypeOK
  <2>2. Registers(reg)
    BY <1>22 DEF Fail, Registers
  <2> QED BY <1>0, <1>q, <2>1, <2>2
<1>23. CASE Killed \/ Wild
  BY <1>23 DEF Killed, Wild, WellTyped, StackIsKept, TypeOK, Modes, SP
<1> QED BY <1>1, <1>2, <1>3, <1>4, <1>5, <1>6, <1>7, <1>8, <1>9, <1>10, <1>11, <1>12, <1>13,
           <1>14, <1>15, <1>16, <1>17, <1>18, <1>19, <1>20, <1>21, <1>22, <1>23 DEF Step

LEMMA StepTyped == TypeOK /\ [Step]_vars => TypeOK'
<1>1. ASSUME TypeOK, UNCHANGED vars PROVE TypeOK'
  BY <1>1 DEF vars, TypeOK
<1> QED BY <1>1, StepWellTyped DEF WellTyped

(* The machine keeps its types, whatever the program stores where: registers   *)
(* and slots hold words, memory bytes.                                         *)
THEOREM VirexTypes == Spec => []TypeOK
BY InitTyped, StepTyped, PTL DEF Spec

(* A step is an instruction around which executeProgram drives the machine, a  *)
(* store by number, an error, or the end of the process.                       *)
LEMMA StepIsDriven ==
  ASSUME Step
  PROVE  \/ \E ops : Executes(ops)
         \/ \E ops, w : ops \subseteq StoresByNumber /\ Passes(ops) /\ Stores(w)
         \/ Fail \/ Killed \/ Wild
<1>1. CASE Fail \/ Killed \/ Wild
  BY <1>1
<1>2. CASE Spopr \/ Setr \/ Copy \/ Loop
  <2>1. \E ops : ops \subseteq StoresByNumber /\ Passes(ops)
    BY <1>2 DEF Spopr, Setr, Copy, Loop, StoresByNumber
  <2>2. \E w : Stores(w)
    BY <1>2 DEF Spopr, Setr, Copy, Loop
  <2> QED BY <2>1, <2>2
<1>3. CASE \/ Donop \/ Retvl \/ Invok \/ Pushr \/ Getr \/ Push \/ Call \/ Spop \/ Ret
           \/ Shuts \/ Jmpu \/ Jmpc \/ Swap \/ Dups \/ Arith \/ ArithF
           \/ Cast \/ Binary \/ Notb \/ Not \/ ReadU \/ ReadI \/ Write
  BY <1>3 DEF Donop, Retvl, Invok, Pushr, Getr, Push, Call, Spop, Ret, Shuts,
     Jmpu, Jmpc, Swap, Dups, Arith, ArithF, Cast, Binary, Notb, Not, ReadU, ReadI,
     Write
<1> QED BY <1>1, <1>2, <1>3 DEF Step

(* So the machine's flags, limit, frames and mode after it are Drive's.        *)
LEMMA StepDrives ==
  ASSUME Step
  PROVE  (\E e, h : Drive(e, h)) \/ Killed \/ Wild
BY StepIsDriven DEF Executes, Stores, Fail

(* SP leaves the stack's array only in a program that stores into it by number.*)
StackInv == SP <= STACK_CAPACITY \/ SetsSp(prog)

LEMMA StoresSpIsSeen ==
  ASSUME TypeOK, Fetchable, StoresSp
  PROVE  SetsSp(prog)
<1>1. /\ NX + 1 \in 1 .. Len(prog) /\ Inst \in Instruction
      /\ Inst.operand \in Word /\ Inst.operand2 \in Word
  BY InstTyped DEF Instruction
<1>2. \A f, n : RegNo(Indirect(f, n)) = REG_SP => MayNameSp(f, n)
  BY DEF Indirect, MayNameSp
<1>3. RegNo(REG_SP) = REG_SP
  BY RegNoTyped, RegisterNumbers
<1>4. MaySetSp(Inst)
  BY <1>2, <1>3 DEF StoresSp, StoresByNumber, StoredReg, MaySetSp, Operand, Operand2
<1> QED BY <1>1, <1>4 DEF SetsSp, Inst

LEMMA StackInvInductive ==
  /\ Init => StackInv
  /\ TypeOK /\ StackInv /\ [Step]_vars => StackInv'
<1>1. Init => StackInv
  BY CapacityAssumption, RegisterNumbers DEF Init, StackInv, SP
<1>2. ASSUME TypeOK, StackInv, Step PROVE StackInv'
  <2>1. prog' = prog
    BY <1>2, StepDrives DEF Drive, Killed, Wild
  <2>2. CASE SetsSp(prog)
    BY <2>1, <2>2 DEF StackInv
  <2>3. CASE ~SetsSp(prog)
    <3>1. SP <= STACK_CAPACITY
      BY <1>2, <2>3 DEF StackInv
    <3>2. CASE Fetchable
      BY <1>2, <2>3, <3>1, <3>2, StoresSpIsSeen, StepWellTyped DEF StackIsKept, WellTyped, StackInv
    <3>3. CASE ~Fetchable
      <4>1. \A ops : ~Passes(ops)
        BY <3>3 DEF Passes, InstError
      <4>2. Fail \/ Killed \/ Wild
        BY <1>2, <4>1, StepIsDriven DEF Executes
      <4> QED BY <3>1, <4>2 DEF Fail, Killed, Wild, StackInv, SP
    <3> QED BY <3>2, <3>3
  <2> QED BY <2>2, <2>3
<1>3. ASSUME StackInv, UNCHANGED vars PROVE StackInv'
  BY <1>3 DEF StackInv, vars, SP
<1> QED BY <1>1, <1>2, <1>3

(* The stores no check stops: the machine is wild only after one of them.      *)
Unchecked == \/ Inst.op = "GETR" /\ SP = STACK_CAPACITY
             \/ Inst.op \in StoresByNumber /\ StoredReg > REG_COUNT
             \/ SP > STACK_CAPACITY /\ SetsSp(prog)
LEMMA WildIsUnchecked ==
  ASSUME TypeOK, StackInv, Step, mode' = "wild"
  PROVE  Wild /\ Fetchable /\ Unchecked
<1>1. Wild
  BY StepDrives DEF Drive, Killed
<1>2. Fetchable /\ ~Underflows /\ ~AccessesIllegalMemory /\ LeavesItsArray
  BY <1>1 DEF Wild, InstError
<1>3. SP \in Nat
  BY StackTyped
<1>4. ASSUME Inst.op \in Writes, ~AddressIsOutside
      PROVE  ~(Address + Width(Inst.op) > MEMORY_CAPACITY)
  <2>1. ~(Address >= MEMORY_CAPACITY - (Width(Inst.op) - 1))
    BY <1>2, <1>4 DEF AccessesIllegalMemory
  <2>2. Needs = 2 /\ Inst.op \notin Reads
    BY <1>4 DEF Needs, Reads, ReadsSigned, ReadsUnsigned, Writes, BinaryOps, IntCompare,
           FloatCompare, BitOps
  <2>3. SP >= 2 /\ SP <= STACK_CAPACITY + 1
    BY <1>2, <1>3, <1>4, <2>2, CapacityAssumption DEF Underflows, AddressIsOutside
  <2>4. Address \in Nat
    BY <2>2, <2>3, StackTyped, WordFacts DEF Address, Word
  <2> QED BY <2>1, <2>4, WidthValues, CapacityAssumption
<1>5. \/ Inst.op = "GETR" /\ SP = STACK_CAPACITY
      \/ Inst.op \in StoresByNumber /\ StoredReg > REG_COUNT
      \/ SP > STACK_CAPACITY
  BY <1>2, <1>3, <1>4, CapacityAssumption DEF LeavesItsArray
<1>6. SP > STACK_CAPACITY => SetsSp(prog)
  BY <1>3, CapacityAssumption DEF StackInv
<1> QED BY <1>1, <1>2, <1>5, <1>6 DEF Unchecked

(* The stores that can leave their array are those the property lists.         *)
THEOREM VirexOutOfBoundsStores == Spec => OutOfBoundsStores
<1>1. TypeOK /\ StackInv /\ [Step]_vars => [mode' = "wild" => Unchecked]_vars
  BY WildIsUnchecked
<1>2. Spec => [](TypeOK /\ StackInv)
  BY InitTyped, StepTyped, StackInvInductive, PTL DEF Spec
<1>3. Spec => [][mode' = "wild" => Unchecked]_vars
  BY <1>1, <1>2, PTL DEF Spec
<1> QED BY <1>3 DEF OutOfBoundsStores, Unchecked
-----------------------------------------------------------------------------
(* The limit never ends a run, and a machine that runs has not met SHUTS.      *)
MachineInv == /\ TypeOK
              /\ lim < 0
              /\ mode = "running" => ~halt

LEMMA MachineInvInductive ==
  /\ Init => MachineInv
  /\ MachineInv /\ [Step]_vars => MachineInv'
<1>1. Init => MachineInv
  BY InitTyped DEF Init, MachineInv, ExecLimit
<1>2. ASSUME MachineInv, Step PROVE MachineInv'
  <2>1. TypeOK'
    BY <1>2, StepTyped DEF MachineInv
  <2>2. \A e, h : Drive(e, h) => lim' < 0 /\ (mode' = "running" => ~halt')
    BY <1>2 DEF MachineInv, TypeOK, Drive
  <2>3. CASE \E e, h : Drive(e, h)
    BY <2>1, <2>2, <2>3 DEF MachineInv
  <2>4. CASE Killed \/ Wild
    BY <1>2, <2>1, <2>4 DEF Killed, Wild, MachineInv
  <2> QED BY <1>2, <2>3, <2>4, StepDrives
<1>3. ASSUME MachineInv, UNCHANGED vars PROVE MachineInv'
  BY <1>3, StepTyped DEF MachineInv, vars
<1> QED BY <1>1, <1>2, <1>3
-----------------------------------------------------------------------------
(* Division with remainder has one answer.                                     *)
LEMMA DivisionIsUnique ==
  ASSUME NEW v \in Nat, NEW d \in Nat \ {0}, NEW q \in Nat, NEW r \in Nat,
         r < d, v = d * q + r
  PROVE  q = v \div d /\ r = v % d
<1> DEFINE Q == v \div d
           R == v % d
<1>1. Q \in Nat /\ R \in Nat /\ R < d /\ v = d * Q + R
  OBVIOUS
<1>2. \A a, b \in Nat : a >= b + 1 => d * a >= d * b + d
  <2>1. \A a, b \in Nat : a >= b + 1 => d * (a - b - 1) >= 0
    OBVIOUS
  <2> QED BY <2>1
<1> HIDE DEF Q, R
<1>3. Q = q
  BY <1>1, <1>2
<1>4. R = r
  BY <1>1, <1>3
<1> QED BY <1>3, <1>4 DEF Q, R

(* The number the n low bytes of w make, and one byte more.                    *)
Low(w, n) == w % ByteSize ^ n

LEMMA LowGrows ==
  ASSUME NEW w \in Word, NEW n \in 0 .. 7
  PROVE  /\ Low(w, n) \in Nat /\ Low(w, n) < ByteSize ^ n
         /\ ByteOf(w, n) \in Nat
         /\ Low(w, n + 1) = ByteSize ^ n * ByteOf(w, n) + Low(w, n)
<1>1. PICK p \in Nat \ {0} : p = ByteSize ^ n
  BY ByteAssumption
<1>2. PICK b \in Nat \ {0} : b = ByteSize
  BY ByteAssumption
<1>3. ByteSize ^ (n + 1) = p * b /\ p * b \in Nat \ {0}
  <2>1. \A i, j \in Nat \ {0} : i * j \in Nat \ {0}
    OBVIOUS
  <2> QED BY <1>1, <1>2, <2>1, ByteAssumption
<1>4. PICK v \in Nat : v = w
  BY WordFacts DEF Word
<1> DEFINE q == v \div p
           r == v % p
           d == q % b
           h == q \div b
<1>5. q \in Nat /\ r \in Nat /\ r < p /\ v = p * q + r
  OBVIOUS
<1>6. h \in Nat /\ d \in Nat /\ d < b /\ q = b * h + d
  <2> HIDE DEF q
  <2> QED BY <1>5
<1>7. ByteOf(w, n) = d /\ Low(w, n) = r /\ Low(w, n + 1) = v % (p * b)
  BY <1>1, <1>2, <1>3, <1>4 DEF ByteOf, Low
<1> HIDE DEF q, r, d, h
<1>8. v = (p * b) * h + (p * d + r)
  <2>1. p * (b * h + d) = (p * b) * h + p * d
    BY <1>6
  <2> QED BY <1>5, <1>6, <2>1
<1>9. p * d + r \in Nat /\ p * d + r < p * b
  <2>1. p * (b - d - 1) >= 0
    <3>1. \A i, j \in Nat : i * j >= 0
      OBVIOUS
    <3>2. b - d - 1 \in Nat
      BY <1>6
    <3> QED BY <3>1, <3>2
  <2>2. p * (b - d - 1) = p * b - p * d - p
    BY <1>6
  <2>3. p * d \in Nat /\ p * b \in Nat
    BY <1>6
  <2> QED BY <1>5, <2>1, <2>2, <2>3
<1>10. p * d + r = v % (p * b)
  BY ONLY <1>3, <1>6, <1>8, <1>9, DivisionIsUnique
<1> QED BY <1>1, <1>5, <1>6, <1>7, <1>10

(* Two words have the same n low bytes when those make the same number.        *)
Agree(v, w, n) == \A i \in 0 .. n - 1 : ByteOf(v, i) = ByteOf(w, i)
BytesAreTheNumber(v, w, n) == Agree(v, w, n) <=> Low(v, n) = Low(w, n)

LEMMA OneByteMore ==
  ASSUME NEW v \in Word, NEW w \in Word, NEW n \in 0 .. 7, BytesAreTheNumber(v, w, n)
  PROVE  BytesAreTheNumber(v, w, n + 1)
<1>1. Agree(v, w, n + 1) <=> Agree(v, w, n) /\ ByteOf(v, n) = ByteOf(w, n)
  BY DEF Agree
<1>2. ASSUME Low(v, n + 1) = Low(w, n + 1)
      PROVE  Low(v, n) = Low(w, n) /\ ByteOf(v, n) = ByteOf(w, n)
  <2>1. PICK p \in Nat \ {0} : p = ByteSize ^ n
    BY ByteAssumption
  <2>2. PICK m \in Nat : /\ m = p * ByteOf(v, n) + Low(v, n)
                         /\ m = p * ByteOf(w, n) + Low(w, n)
    <3>1. \A i, j, k \in Nat : i * j + k \in Nat
      OBVIOUS
    <3>2. p * ByteOf(v, n) + Low(v, n) \in Nat
      BY <2>1, <3>1, LowGrows
    <3> QED BY <1>2, <2>1, <3>2, LowGrows
  <2>3. /\ Low(v, n) \in Nat /\ Low(v, n) < p /\ ByteOf(v, n) \in Nat
        /\ Low(w, n) \in Nat /\ Low(w, n) < p /\ ByteOf(w, n) \in Nat
    BY <2>1, LowGrows
  <2>4. ByteOf(v, n) = m \div p /\ Low(v, n) = m % p
    BY ONLY <2>2, <2>3, DivisionIsUnique
  <2>5. ByteOf(w, n) = m \div p /\ Low(w, n) = m % p
    BY ONLY <2>2, <2>3, DivisionIsUnique
  <2> QED BY ONLY <2>4, <2>5
<1>3. ASSUME Low(v, n) = Low(w, n), ByteOf(v, n) = ByteOf(w, n)
      PROVE  Low(v, n + 1) = Low(w, n + 1)
  BY <1>3, LowGrows
<1> QED BY <1>1, <1>2, <1>3 DEF BytesAreTheNumber

LEMMA BytesMakeTheNumber ==
  ASSUME NEW v \in Word, NEW w \in Word, NEW n \in {1, 2, 4, 8}
  PROVE  Agree(v, w, n) <=> Low(v, n) = Low(w, n)
<1> DEFINE T(i) == BytesAreTheNumber(v, w, i)
<1>1. T(0)
  <2>1. \A u \in Word : Low(u, 0) = 0
    BY WordFacts, ByteAssumption DEF Low, Word
  <2> QED BY <2>1 DEF BytesAreTheNumber, Agree
<1>2. \A i \in 0 .. 7 : T(i) => T(i + 1)
  BY OneByteMore
<1> HIDE DEF T
<1>3. T(1) /\ T(2)
  BY <1>1, <1>2
<1>4. T(3) /\ T(4)
  BY <1>2, <1>3
<1>5. T(5) /\ T(6)
  BY <1>2, <1>4
<1>6. T(7) /\ T(8)
  BY <1>2, <1>5
<1> QED BY <1>3, <1>4, <1>6 DEF T, BytesAreTheNumber

(* The words below B^n with the n low bytes of v are one: v's remainder.       *)
LEMMA OneWordReads ==
  ASSUME NEW v \in Word, NEW n \in {1, 2, 4, 8}
  PROVE  {w \in Word : w < ByteSize ^ n /\ Agree(w, v, n)} = {v % ByteSize ^ n}
<1>1. PICK p \in Nat \ {0} : p = ByteSize ^ n
  BY ByteAssumption
<1>2. v \in Nat /\ v % p \in Nat /\ v % p < p /\ v % p <= v
  <2>1. v \in Nat
    BY WordFacts DEF Word
  <2> QED BY <2>1
<1>3. v % p \in Word
  BY <1>2, WordFacts DEF Word
<1>4. \A w \in Word : w < p => Low(w, n) = w
  BY <1>1, WordFacts DEF Low, Word
<1>5. Low(v, n) = v % p
  BY <1>1 DEF Low
<1>6. ASSUME NEW w \in Word, w < p PROVE Agree(w, v, n) <=> w = v % p
  BY <1>4, <1>5, <1>6, BytesMakeTheNumber
<1> QED BY <1>1, <1>2, <1>3, <1>6

(* A write's bytes are in the memory, and are its word's low bytes.            *)
LEMMA WriteFacts ==
  ASSUME TypeOK, Write
  PROVE  /\ mode = "running" /\ InstError = "ERR_OK" /\ Inst.op \in Writes
         /\ \E to \in Addresses, w \in Words(0) :
              /\ to \in Nat /\ to + Width(Inst.op) <= MEMORY_CAPACITY /\ w \in Word
              /\ \A b \in MemoryAddr :
                   memory'[b] = IF b \in to .. to + Width(Inst.op) - 1
                                THEN ByteOf(w, b - to) ELSE memory[b]
<1>1. Executes(Writes) /\ Passes(Writes) /\ Inst.op \in Writes /\ 0 < SP
  BY StackTyped, ExecutesFacts, NeedsMet DEF Write, Executes
<1>2. PICK to \in Addresses, w \in Words(0) :
        memory' = [a \in MemoryAddr |->
                     IF a \in to .. to + Width(Inst.op) - 1
                     THEN ByteOf(w, a - to) ELSE memory[a]]
  BY DEF Write
<1>3. to \in Nat /\ to + Width(Inst.op) <= MEMORY_CAPACITY
  BY <1>1, <1>2, AddressesTyped
<1>4. w \in Word
  BY <1>1, <1>2, StackTyped
<1> QED BY <1>1, <1>2, <1>3, <1>4 DEF Passes

(* Such a write is read back, and touches no other byte.                       *)
WritesAndReadsBack ==
  /\ mode = "running" /\ InstError = "ERR_OK" /\ Inst.op \in Writes
  /\ \E a \in Addresses, n \in {1, 2, 4, 8}, v \in Words(0) :
       /\ n = Width(Inst.op)
       /\ ReadResults(a, n)' = {v % ByteSize ^ n}
       /\ \A b \in MemoryAddr \ (a .. a + n - 1) : memory'[b] = memory[b]

LEMMA WriteIsReadBack == TypeOK /\ Write => WritesAndReadsBack
<1> SUFFICES ASSUME TypeOK, Write PROVE WritesAndReadsBack
  OBVIOUS
<1>1. PICK n \in {1, 2, 4, 8} : n = Width(Inst.op)
  BY WidthValues
<1>2. PICK a \in Addresses, v \in Words(0) :
        /\ a \in Nat /\ a + n <= MEMORY_CAPACITY /\ v \in Word
        /\ \A b \in MemoryAddr :
             memory'[b] = IF b \in a .. a + n - 1 THEN ByteOf(v, b - a) ELSE memory[b]
  BY <1>1, WriteFacts
<1>3. v \in Word
  BY <1>2
<1>5. ASSUME NEW i \in 0 .. n - 1
      PROVE  a + i < MEMORY_CAPACITY /\ memory'[a + i] = ByteOf(v, i)
  <2>1. a + i \in MemoryAddr /\ a + i \in a .. a + n - 1 /\ (a + i) - a = i
        /\ a + i < MEMORY_CAPACITY
    BY <1>2, CapacityAssumption DEF MemoryAddr
  <2> QED BY <1>2, <2>1
<1>6. ReadResults(a, n)' = {w \in Word : w < ByteSize ^ n /\ Agree(w, v, n)}
  BY <1>5 DEF ReadResults, Agree
<1>7. ReadResults(a, n)' = {v % ByteSize ^ n}
  BY <1>3, <1>6, OneWordReads
<1>8. \A b \in MemoryAddr \ (a .. a + n - 1) : memory'[b] = memory[b]
  BY <1>2
<1>9. mode = "running" /\ InstError = "ERR_OK" /\ Inst.op \in Writes
  BY WriteFacts
<1> QED BY <1>1, <1>2, <1>7, <1>8, <1>9 DEF WritesAndReadsBack

(* The other instructions leave the memory alone.                              *)
LEMMA OnlyWriteWrites == Step => Write \/ UNCHANGED memory
BY DEF Step, Donop, Retvl, Invok, Pushr, Getr, Push, Call, Spopr, Spop, Ret, Shuts, Setr,
   Copy, Jmpu, Jmpc, Loop, Swap, Dups, Arith, ArithF, Cast, Binary, Notb, Not, ReadU, ReadI,
   Fail, Killed, Wild, Registers, Pushing, Replacing

(* Memory is random access memory: a WRITE is read back, the other bytes stay, *)
(* and no other instruction changes any.                                       *)
THEOREM VirexMemory == Spec => MemoryIsRandomAccess
<1>1. ASSUME TypeOK, Step PROVE WritesAndReadsBack \/ UNCHANGED memory
  BY <1>1, WriteIsReadBack, OnlyWriteWrites
<1>2. TypeOK /\ [Step]_vars => [WritesAndReadsBack \/ UNCHANGED memory]_vars
  BY <1>1
<1>3. Spec => [][WritesAndReadsBack \/ UNCHANGED memory]_vars
  BY <1>2, VirexTypes, PTL DEF Spec
<1> QED BY <1>3, PTL DEF MemoryIsRandomAccess, WritesAndReadsBack
-----------------------------------------------------------------------------
(***************************************************************************)
(* The machine implements the abstract stack machine.                      *)
(***************************************************************************)
(* The operand stack as a function of the slots and their number.              *)
Slots(s, n) == [i \in 1 .. n |-> s[i - 1]]

LEMMA SlotsAreSequences ==
  ASSUME NEW s \in [StackAddr -> Word], NEW n \in 0 .. STACK_CAPACITY
  PROVE  /\ Slots(s, n) \in Seq(Word) /\ Len(Slots(s, n)) = n
         /\ \A i \in 1 .. n : Slots(s, n)[i] = s[i - 1] /\ s[i - 1] \in Word
<1>1. n \in Nat /\ \A i \in 1 .. n : i - 1 \in StackAddr
  BY CapacityAssumption DEF StackAddr
<1>2. Slots(s, n) \in [1 .. n -> Word]
  BY <1>1 DEF Slots
<1>3. Slots(s, n) \in Seq(Word) /\ Len(Slots(s, n)) = n
  BY <1>1, <1>2, SeqDef, LenProperties
<1> QED BY <1>1, <1>3 DEF Slots

(* Words taken off the end: fewer slots.                                       *)
LEMMA SlotsBelow ==
  ASSUME NEW s \in [StackAddr -> Word], NEW n \in 0 .. STACK_CAPACITY, NEW m \in 0 .. n
  PROVE  Slots(s, m) = SubSeq(Slots(s, n), 1, m)
<1> DEFINE below == SubSeq(Slots(s, n), 1, m)
<1>1. m \in 0 .. STACK_CAPACITY /\ m \in Nat /\ n \in Nat
  BY CapacityAssumption
<1>2. \A i \in 1 .. m : Slots(s, n)[i] = s[i - 1] /\ Slots(s, n)[i] \in Word
  BY <1>1, SlotsAreSequences
<1>3. below \in Seq(Word) /\ Len(below) = m /\ \A i \in 1 .. m : below[i] = s[i - 1]
  <2>1. /\ below \in Seq(Word) /\ Len(below) = IF 1 <= m THEN m - 1 + 1 ELSE 0
        /\ \A i \in 1 .. m - 1 + 1 : below[i] = Slots(s, n)[1 + i - 1]
    BY <1>1, <1>2, SubSeqProperties
  <2> QED BY <1>1, <1>2, <2>1
<1>4. Slots(s, m) \in Seq(Word) /\ Len(Slots(s, m)) = m /\ \A i \in 1 .. m : Slots(s, m)[i] = s[i - 1]
  BY <1>1, SlotsAreSequences
<1> HIDE DEF below
<1>5. Slots(s, m) = below
  BY <1>3, <1>4, SeqEqual
<1> QED BY <1>5 DEF below

(* A word stored in slot m, which becomes the top.                             *)
LEMMA SlotsStored ==
  ASSUME NEW s \in [StackAddr -> Word], NEW n \in 0 .. STACK_CAPACITY, NEW m \in 0 .. n,
         m < STACK_CAPACITY, NEW w \in Word
  PROVE  Slots([s EXCEPT ![m] = w], m + 1) = Append(SubSeq(Slots(s, n), 1, m), w)
<1> DEFINE t == [s EXCEPT ![m] = w]
           below == Slots(s, m)
<1>1. /\ m \in 0 .. STACK_CAPACITY /\ m + 1 \in 0 .. STACK_CAPACITY /\ m \in Nat
      /\ m \in StackAddr
  BY CapacityAssumption DEF StackAddr
<1>2. t \in [StackAddr -> Word] /\ t[m] = w /\ \A i \in StackAddr \ {m} : t[i] = s[i]
  BY <1>1
<1>3. below \in Seq(Word) /\ Len(below) = m /\ \A i \in 1 .. m : below[i] = s[i - 1]
  BY <1>1, SlotsAreSequences
<1> HIDE DEF t, below
<1>4. /\ Slots(t, m + 1) \in Seq(Word) /\ Len(Slots(t, m + 1)) = m + 1
      /\ \A i \in 1 .. m + 1 : Slots(t, m + 1)[i] = t[i - 1]
  BY <1>1, <1>2, SlotsAreSequences
<1>5. /\ Append(below, w) \in Seq(Word) /\ Len(Append(below, w)) = m + 1
      /\ \A i \in 1 .. m : Append(below, w)[i] = below[i]
      /\ Append(below, w)[m + 1] = w
  BY <1>3, AppendProperties
<1>6. ASSUME NEW i \in 1 .. m + 1 PROVE Slots(t, m + 1)[i] = Append(below, w)[i]
  <2>0. i \in 1 .. m \/ i = m + 1
    BY <1>1
  <2>1. CASE i \in 1 .. m
    <3>1. i - 1 \in StackAddr \ {m}
      BY <1>1, <2>1, CapacityAssumption DEF StackAddr
    <3> QED BY <1>2, <1>3, <1>4, <1>5, <2>1, <3>1
  <2>2. CASE i = m + 1
    <3>1. Slots(t, m + 1)[m + 1] = t[m]
      BY <1>1, <1>4
    <3> QED BY <1>2, <1>5, <2>2, <3>1
  <2> QED BY <2>0, <2>1, <2>2
<1>7. Slots(t, m + 1) = Append(below, w)
  BY <1>4, <1>5, <1>6, SeqEqual
<1> QED BY <1>7, SlotsBelow DEF t, below

(* Two slots exchanged.                                                        *)
Exchanged(f, i, j) == [f EXCEPT ![i] = f[j], ![j] = f[i]]

LEMMA SlotsSwapped ==
  ASSUME NEW s \in [StackAddr -> Word], NEW n \in 0 .. STACK_CAPACITY,
         NEW i \in 0 .. n - 1, NEW j \in 0 .. n - 1
  PROVE  Slots(Exchanged(s, i, j), n) = Exchanged(Slots(s, n), i + 1, j + 1)
<1> DEFINE ops == Slots(s, n)
           s1 == [s EXCEPT ![i] = s[j]]
           s2 == [s1 EXCEPT ![j] = s[i]]
           o1 == [ops EXCEPT ![i + 1] = s[j]]
           o2 == [o1 EXCEPT ![j + 1] = s[i]]
<1>1. /\ i \in StackAddr /\ j \in StackAddr /\ n \in Nat /\ i \in Nat /\ j \in Nat
      /\ i + 1 \in 1 .. n /\ j + 1 \in 1 .. n
  BY CapacityAssumption DEF StackAddr
<1>2. \A k \in 1 .. n : k - 1 \in StackAddr /\ k - 1 \in Int
  BY <1>1, CapacityAssumption DEF StackAddr
<1>3. ops \in [1 .. n -> Word] /\ \A k \in 1 .. n : ops[k] = s[k - 1]
  BY <1>2 DEF Slots
<1>4. ops[i + 1] = s[i] /\ ops[j + 1] = s[j]
  BY <1>1, <1>3
<1> HIDE DEF ops
<1>5. s1 \in [StackAddr -> Word] /\ \A k \in StackAddr : s1[k] = IF k = i THEN s[j] ELSE s[k]
  BY <1>1
<1>6. o1 \in [1 .. n -> Word] /\ \A k \in 1 .. n : o1[k] = IF k = i + 1 THEN s[j] ELSE ops[k]
  BY <1>1, <1>3
<1> HIDE DEF s1, o1
<1>7. s2 \in [StackAddr -> Word] /\ \A k \in StackAddr : s2[k] = IF k = j THEN s[i] ELSE s1[k]
  BY <1>1, <1>5
<1>8. o2 \in [1 .. n -> Word] /\ \A k \in 1 .. n : o2[k] = IF k = j + 1 THEN s[i] ELSE o1[k]
  BY <1>1, <1>6
<1> HIDE DEF s2, o2
<1>9. \A k \in 1 .. n : o2[k] = s2[k - 1]
  BY <1>1, <1>2, <1>3, <1>5, <1>6, <1>7, <1>8
<1>10. Slots(s2, n) = [k \in 1 .. n |-> o2[k]]
  BY <1>9 DEF Slots
<1>11. Slots(s2, n) = o2
  BY <1>8, <1>10
<1>12. o2 = Exchanged(ops, i + 1, j + 1)
  BY <1>4 DEF o1, o2, Exchanged
<1>13. s2 = Exchanged(s, i, j)
  BY DEF s1, s2, Exchanged
<1> QED BY <1>11, <1>12, <1>13 DEF ops
-----------------------------------------------------------------------------
(* The states of a program that names the registers it stores into: SP points  *)
(* into the stack's array, and a store by number is one into a named register. *)
Tame == SP <= STACK_CAPACITY /\ prog \in NamedProgram

LEMMA TameStores ==
  ASSUME TypeOK, Tame, Fetchable, Inst.op \in StoresByNumber
  PROVE  StoredReg \in NamedReg /\ StoredReg \in RegID /\ StoredReg # REG_COUNT
<1>1. NamesRegisters(Inst)
  BY InstTyped DEF Tame, NamedProgram, Inst
<1>2. /\ Inst.op \in {"SPOPR", "COPY"} => Inst.operand \in NamedReg
      /\ Inst.op \in {"SETR", "LOOP"} => Inst.operand2 \in NamedReg
  BY <1>1 DEF NamesRegisters
<1>3. \A f, n : n \in NamedReg => Indirect(f, n) = n /\ RegNo(n) = n /\ n \in RegID /\ n # REG_COUNT
  BY RegNoTyped DEF Indirect, NamedReg, RegID, REG_COUNT
<1> QED BY <1>2, <1>3 DEF StoredReg, StoresByNumber, Operand, Operand2

LEMMA TameExecutes ==
  ASSUME TypeOK, Tame, NEW ops, ops \subseteq StoresByNumber, Passes(ops), NEW w, Stores(w)
  PROVE  /\ Executes(ops) /\ StoredReg \in NamedReg
         /\ \A r : Stored(r, w) = [r EXCEPT ![StoredReg] = w]
<1>1. Fetchable /\ Inst.op \in StoresByNumber
  BY PassesFacts
<1>2. StoredReg \in NamedReg /\ StoredReg \in RegID /\ StoredReg # REG_COUNT
  BY <1>1, TameStores
<1>3. halt = (halt \/ Inst.op = "SHUTS")
  BY <1>1 DEF StoresByNumber, TypeOK
<1>4. Drive("ERR_OK", halt)
  BY <1>2 DEF Stores
<1>5. Drive("ERR_OK", halt \/ Inst.op = "SHUTS")
  BY <1>3, <1>4, Zenon
<1> QED BY <1>2, <1>5 DEF Executes, Stored

(* They stay so: StackInv leaves SP in the array, as no instruction sets it.   *)
LEMMA NothingSetsSp ==
  ASSUME TypeOK, prog \in NamedProgram
  PROVE  ~SetsSp(prog)
<1>1. ASSUME NEW k \in 1 .. Len(prog), MaySetSp(prog[k]) PROVE FALSE
  <2>1. NamesRegisters(prog[k])
    BY DEF NamedProgram
  <2>2. ASSUME NEW f \in BOOLEAN, NEW n \in NamedReg PROVE ~MayNameSp(f, n)
    BY RegNoTyped DEF MayNameSp, NamedReg, RegID, REG_COUNT, REG_SP
  <2>3. prog[k] \in Instruction
    BY ElementOfSeq DEF TypeOK, Program
  <2> QED BY <1>1, <2>1, <2>2, <2>3 DEF NamesRegisters, MaySetSp, Instruction
<1> QED BY <1>1 DEF SetsSp

LEMMA NamedProgramsAreTame ==
  ASSUME TypeOK, StackInv, prog \in NamedProgram
  PROVE  Tame
BY NothingSetsSp DEF StackInv, Tame

(* The operand stack of a state.                                               *)
LEMMA OperandStackTyped ==
  ASSUME TypeOK, Tame
  PROVE  /\ OperandStack = Slots(stack, SP) /\ OperandStack \in Seq(Word)
         /\ Len(OperandStack) = SP /\ SP \in Nat /\ SP \in 0 .. STACK_CAPACITY
         /\ \A k \in Nat : k < SP => OperandStack[SP - k] = Top(k)
<1>1. SP \in Nat /\ SP \in 0 .. STACK_CAPACITY /\ stack \in [StackAddr -> Word]
  BY StackTyped, CapacityAssumption DEF TypeOK, Tame
<1>2. OperandStack = Slots(stack, SP)
  BY DEF OperandStack, Slots, Depth, Tame
<1>3. /\ Slots(stack, SP) \in Seq(Word) /\ Len(Slots(stack, SP)) = SP
      /\ \A i \in 1 .. SP : Slots(stack, SP)[i] = stack[i - 1]
  BY <1>1, SlotsAreSequences
<1>4. ASSUME NEW k \in Nat, k < SP PROVE OperandStack[SP - k] = Top(k)
  <2>1. SP - k \in 1 .. SP /\ SP - k - 1 = SP - 1 - k
    BY <1>1, <1>4
  <2> QED BY <1>2, <1>3, <2>1 DEF Top
<1> QED BY <1>1, <1>2, <1>3, <1>4

(* The stack after the instructions that push, take or replace words.          *)
LEMMA PushingAppends ==
  ASSUME TypeOK, Tame, SP < STACK_CAPACITY, NEW w \in Word, NEW r \in [RegID -> Word], Pushing(w, r)
  PROVE  OperandStack' = Append(OperandStack, w) /\ NX' = r[REG_NX]
<1>1. SP + 1 \in Word /\ Wrap(SP + 1) = SP + 1 /\ SP \in Nat
  BY StackTyped, CapacityAssumption, WordFacts DEF Word
<1>2. REG_NX \in RegID /\ REG_SP \in RegID /\ REG_NX # REG_SP
  BY RegisterNumbers DEF REG_NX, REG_SP
<1>3. NX' = r[REG_NX] /\ SP' = SP + 1 /\ stack' = [stack EXCEPT ![SP] = w]
  BY <1>1, <1>2 DEF Pushing, NX, SP
<1>4. OperandStack' = Slots([stack EXCEPT ![SP] = w], SP + 1)
  BY <1>1, <1>3, CapacityAssumption DEF OperandStack, Slots, Depth
<1>5. SP \in 0 .. SP /\ SP \in 0 .. STACK_CAPACITY /\ stack \in [StackAddr -> Word]
  BY <1>1, OperandStackTyped DEF TypeOK
<1>6. OperandStack' = Append(SubSeq(OperandStack, 1, SP), w)
  BY <1>4, <1>5, OperandStackTyped, SlotsStored
<1>7. SubSeq(OperandStack, 1, SP) = OperandStack
  BY <1>5, OperandStackTyped, SlotsBelow
<1> QED BY <1>3, <1>6, <1>7

LEMMA RegistersTakeWords ==
  ASSUME TypeOK, Tame, NEW r \in [RegID -> Word], NEW k \in 0 .. SP, r[REG_SP] = SP - k, Registers(r)
  PROVE  OperandStack' = SubSeq(OperandStack, 1, SP - k) /\ NX' = r[REG_NX]
<1>1. SP \in Nat /\ SP - k \in 0 .. SP /\ SP \in 0 .. STACK_CAPACITY
      /\ stack \in [StackAddr -> Word]
  BY OperandStackTyped DEF TypeOK
<1>2. NX' = r[REG_NX] /\ SP' = SP - k /\ stack' = stack
  BY DEF Registers, NX, SP
<1>3. OperandStack' = Slots(stack, SP - k)
  BY <1>1, <1>2, CapacityAssumption DEF OperandStack, Slots, Depth
<1> QED BY <1>1, <1>2, <1>3, OperandStackTyped, SlotsBelow

LEMMA RegistersKeepTheStack ==
  ASSUME TypeOK, Tame, NEW r \in [RegID -> Word], r[REG_SP] = SP, Registers(r)
  PROVE  OperandStack' = OperandStack /\ NX' = r[REG_NX]
BY DEF Registers, NX, SP, OperandStack, Depth

(* The next instruction: NX does not wrap inside a program.                    *)
LEMMA NextInstruction ==
  ASSUME TypeOK, Fetchable
  PROVE  /\ Wrap(NX + 1) = NX + 1 /\ NX + 1 \in Word
         /\ \A r \in [RegID -> Word] : r[REG_NX] = NX => Advanced(r)[REG_NX] = NX + 1
<1>0. NX \in Nat
  BY StackTyped, WordFacts DEF Word
<1>1. NX \in Nat /\ Len(prog) \in Nat /\ Len(prog) <= PROGRAM_CAPACITY
  <2>1. prog \in Seq(Instruction) /\ Len(prog) <= PROGRAM_CAPACITY
    BY DEF TypeOK, Program
  <2> QED BY <1>0, <2>1, LenProperties
<1>2. NX + 1 \in Word
  BY <1>1, WordFacts, CapacityAssumption DEF Fetchable, Word
<1>3. Wrap(NX + 1) = NX + 1
  BY <1>2, WordFacts
<1> QED BY <1>2, <1>3, RegisterNumbers DEF Advanced

LEMMA ReplacingReplaces ==
  ASSUME TypeOK, Tame, Fetchable, NEW n \in 1 .. 2, n <= SP, NEW w \in Word, Replacing(n, w)
  PROVE  OperandStack' = Append(SubSeq(OperandStack, 1, SP - n), w) /\ NX' = NX + 1
<1>0. /\ SP \in Nat /\ SP <= STACK_CAPACITY /\ STACK_CAPACITY \in Nat
      /\ stack \in [StackAddr -> Word] /\ reg \in [RegID -> Word] /\ reg[REG_SP] = SP
  BY OperandStackTyped, CapacityAssumption DEF TypeOK, SP
<1>1. /\ SP \in Nat /\ SP - n \in 0 .. SP /\ SP \in 0 .. STACK_CAPACITY
      /\ stack \in [StackAddr -> Word] /\ SP - n < STACK_CAPACITY /\ n - 1 \in 0 .. 2
      /\ n - 1 <= SP /\ reg \in [RegID -> Word] /\ reg[REG_SP] = SP
      /\ SP - (n - 1) = SP - n + 1
  <2>1. n \in Nat /\ n >= 1 /\ n <= 2 /\ n <= SP
    OBVIOUS
  <2> QED BY ONLY <1>0, <2>1
<1> DEFINE r == Popped(reg, n - 1)
<1>2. r \in [RegID -> Word] /\ r[REG_SP] = SP - (n - 1)
  BY <1>1, RegisterFiles
<1>3. r[REG_NX] = NX
  BY <1>1, RegisterNumbers DEF Popped, NX, REG_NX, REG_SP
<1> HIDE DEF r
<1>4. Advanced(r)[REG_SP] = SP - n + 1 /\ Advanced(r)[REG_NX] = NX + 1
  BY <1>1, <1>2, <1>3, AdvancedTyped, NextInstruction
<1>5. reg' = Advanced(r) /\ stack' = [stack EXCEPT ![SP - n] = w]
  BY DEF Replacing, r
<1>6. NX' = NX + 1 /\ SP' = SP - n + 1
  BY <1>4, <1>5 DEF NX, SP
<1>7. OperandStack' = Slots([stack EXCEPT ![SP - n] = w], SP - n + 1)
  BY <1>1, <1>5, <1>6, CapacityAssumption DEF OperandStack, Slots, Depth
<1> QED BY <1>1, <1>6, <1>7, OperandStackTyped, SlotsStored
-----------------------------------------------------------------------------
(* The two machines see the same instruction, and their checks agree on it.    *)
LEMMA SameOperand ==
  ASSUME TypeOK, Tame, Fetchable
  PROVE  SM!Inst = Inst /\ SM!Fetchable /\ Operand \in SM!Operands
<1>1. SM!Inst = Inst /\ SM!Fetchable
  BY DEF SM!Inst, SM!Fetchable, Inst, Fetchable
<1> QED BY <1>1, InstTyped DEF SM!Operands, Operand, Indirect

LEMMA WrappedDifference ==
  ASSUME NEW a \in Word, NEW b \in Word
  PROVE  Wrap(a - b) <= 0 <=> a = b
<1>1. a \in Int /\ b \in Int /\ WordSize \in Int /\ WordSize > 0
  BY WordFacts DEF Word, REG_COUNT
<1>2. CASE a >= b
  <2>1. a - b \in Word
    BY <1>1, <1>2 DEF Word
  <2> QED BY <1>1, <1>2, <2>1, WordFacts
<1>3. CASE a < b
  <2>1. \A x \in Int, n \in Nat \ {0} : -n < x /\ x < 0 => x % n = x + n
    OBVIOUS
  <2>2. a - b \in Int /\ -WordSize < a - b /\ a - b < 0 /\ WordSize \in Nat \ {0}
    BY <1>1, <1>3 DEF Word
  <2>3. Wrap(a - b) = a - b + WordSize
    BY <2>1, <2>2 DEF Wrap
  <2> QED BY <1>1, <1>3, <2>2, <2>3
<1> QED BY <1>1, <1>2, <1>3

LEMMA SameChecks ==
  ASSUME TypeOK, Tame, Fetchable
  PROVE  (SM!Overflow <=> Overflows) /\ (SM!Underflow(Operand) <=> Underflows)
<1>1. SM!Inst = Inst /\ SM!Depth = SP /\ SP \in Word /\ Operand \in Word
  BY SameOperand, OperandStackTyped, InstTyped, WordFacts, CapacityAssumption DEF SM!Depth, Word
<1>2. SM!Overflow <=> Overflows
  BY <1>1 DEF SM!Overflow, SM!Checked, Overflows
<1>3. /\ SM!Unary \cup SM!Pops = Reads \cup {"SPOPR", "SPOP", "JMPC", "NOTB", "RET", "NOT"}
      /\ SM!PopsTwo \cup SM!Binary = BinaryOps \cup Writes
  BY DEF SM!Unary, SM!Pops, SM!PopsTwo, SM!Binary, Reads, ReadsUnsigned, ReadsSigned,
         BinaryOps, Writes, IntCompare, FloatCompare, BitOps
<1>4. \/ SM!Demand(Operand) = Needs /\ Inst.op # "SWAP"
      \/ SM!Demand(Operand) = Operand + 1 /\ Inst.op = "SWAP" /\ Needs = 0
  <2>1. "SWAP" \notin SM!Unary \cup SM!Pops /\ "SWAP" \notin SM!PopsTwo \cup SM!Binary
    BY DEF SM!Unary, SM!Pops, SM!PopsTwo, SM!Binary
  <2> QED BY <1>1, <1>3, <2>1 DEF SM!Demand, Needs
<1>5. SP < Operand + 1 <=> Operand >= SP
  BY <1>1, WordFacts DEF Word
<1>6. Wrap(SP - Operand) <= 0 <=> Operand = SP
  BY <1>1, WrappedDifference
<1>7. ~(SP < 0)
  BY <1>1, WordFacts DEF Word
<1> QED BY <1>1, <1>2, <1>4, <1>5, <1>6, <1>7 DEF SM!Underflow, Underflows

(* What the abstract machine does with each kind of instruction.               *)
LEMMA AbstractSteps ==
  ASSUME TypeOK, Tame, Fetchable
  PROVE  LET ops == OperandStack
             Below(k) == SubSeq(OperandStack, 1, SP - k)
         IN /\ Inst.op \in IntArith \cup FloatArith \cup Casts \cup {"DONOP", "INVOK", "SETR", "COPY"}
                 => SM!NewStacks(Operand) = {ops} /\ SM!Successors(Operand) = {NX + 1}
            /\ Inst.op \in {"RETVL", "SHUTS"}
                 => SM!NewStacks(Operand) = {ops} /\ SM!Successors(Operand) = {NX}
            /\ Inst.op = "JMPU"
                 => SM!NewStacks(Operand) = {ops} /\ SM!Successors(Operand) = {Operand}
            /\ Inst.op = "LOOP"
                 => SM!NewStacks(Operand) = {ops} /\ SM!Successors(Operand) = {Operand, NX + 1}
            /\ Inst.op = "JMPC"
                 => SM!NewStacks(Operand) = {Below(1)} /\ SM!Successors(Operand) = {Operand, NX + 1}
            /\ Inst.op = "RET"
                 => SM!NewStacks(Operand) = {Below(1)} /\ SM!Successors(Operand) = {ops[SP]}
            /\ Inst.op \in {"SPOPR", "SPOP"}
                 => SM!NewStacks(Operand) = {Below(1)} /\ SM!Successors(Operand) = {NX + 1}
            /\ Inst.op \in Writes
                 => SM!NewStacks(Operand) = {Below(2)} /\ SM!Successors(Operand) = {NX + 1}
            /\ Inst.op \in Reads \cup {"NOTB", "NOT"}
                 => /\ SM!NewStacks(Operand) = {Append(Below(1), w) : w \in Word}
                    /\ SM!Successors(Operand) = {NX + 1}
            /\ Inst.op \in BinaryOps
                 => /\ SM!NewStacks(Operand) = {Append(Below(2), w) : w \in Word}
                    /\ SM!Successors(Operand) = {NX + 1}
            /\ Inst.op = "CALL"
                 => /\ SM!NewStacks(Operand) = {Append(ops, NX + 1)}
                    /\ SM!Successors(Operand) = {Operand}
            /\ Inst.op \in {"PUSHR", "PUSH", "GETR"}
                 => /\ SM!NewStacks(Operand) = {Append(ops, w) : w \in Word}
                    /\ SM!Successors(Operand) = {NX + 1}
            /\ Inst.op = "DUPS" /\ Operand # SP
                 => /\ SM!NewStacks(Operand) = IF Operand < SP THEN {Append(ops, ops[SP - Operand])}
                                               ELSE {Append(ops, w) : w \in Word}
                    /\ SM!Successors(Operand) = {NX + 1}
            /\ Inst.op = "SWAP"
                 => /\ SM!NewStacks(Operand) = {[ops EXCEPT ![SP] = ops[SP - Operand],
                                                            ![SP - Operand] = ops[SP]]}
                    /\ SM!Successors(Operand) = {NX + 1}
<1>1. SM!Inst = Inst /\ SM!Depth = SP /\ SP \in Int /\ Operand \in Int
  BY SameOperand, OperandStackTyped, InstTyped, WordFacts DEF SM!Depth, Word
<1> DEFINE ops == OperandStack
           Below(k) == SubSeq(OperandStack, 1, SP - k)
<1> USE DEF SM!NewStacks, SM!Successors, SM!Below, SM!Unary, SM!Pops, SM!PopsTwo, SM!Binary,
    Reads, ReadsUnsigned, ReadsSigned, BinaryOps, Writes, IntCompare, FloatCompare, BitOps,
    IntArith, FloatArith, Casts
<1>2. Inst.op \in IntArith \cup FloatArith \cup Casts \cup {"DONOP", "INVOK", "SETR", "COPY"}
         => SM!NewStacks(Operand) = {ops} /\ SM!Successors(Operand) = {NX + 1}
  BY <1>1
<1>3. Inst.op \in {"RETVL", "SHUTS"}
         => SM!NewStacks(Operand) = {ops} /\ SM!Successors(Operand) = {NX}
  BY <1>1
<1>4. Inst.op = "JMPU"
         => SM!NewStacks(Operand) = {ops} /\ SM!Successors(Operand) = {Operand}
  BY <1>1
<1>5. Inst.op = "LOOP"
         => SM!NewStacks(Operand) = {ops} /\ SM!Successors(Operand) = {Operand, NX + 1}
  BY <1>1
<1>6. Inst.op = "JMPC"
         => SM!NewStacks(Operand) = {Below(1)} /\ SM!Successors(Operand) = {Operand, NX + 1}
  BY <1>1
<1>7. Inst.op = "RET"
         => SM!NewStacks(Operand) = {Below(1)} /\ SM!Successors(Operand) = {ops[SP]}
  BY <1>1
<1>8. Inst.op \in {"SPOPR", "SPOP"}
         => SM!NewStacks(Operand) = {Below(1)} /\ SM!Successors(Operand) = {NX + 1}
  BY <1>1
<1>9. Inst.op \in Writes
         => SM!NewStacks(Operand) = {Below(2)} /\ SM!Successors(Operand) = {NX + 1}
  BY <1>1
<1>10. Inst.op \in Reads \cup {"NOTB", "NOT"}
         => /\ SM!NewStacks(Operand) = {Append(Below(1), w) : w \in Word}
            /\ SM!Successors(Operand) = {NX + 1}
  BY <1>1
<1>11. Inst.op \in BinaryOps
         => /\ SM!NewStacks(Operand) = {Append(Below(2), w) : w \in Word}
            /\ SM!Successors(Operand) = {NX + 1}
  BY <1>1
<1>12. Inst.op = "CALL"
         => /\ SM!NewStacks(Operand) = {Append(ops, NX + 1)}
            /\ SM!Successors(Operand) = {Operand}
  BY <1>1
<1>13. Inst.op \in {"PUSHR", "PUSH", "GETR"}
         => /\ SM!NewStacks(Operand) = {Append(ops, w) : w \in Word}
            /\ SM!Successors(Operand) = {NX + 1}
  BY <1>1
<1>14. Inst.op = "DUPS" /\ Operand # SP
         => /\ SM!NewStacks(Operand) = IF Operand < SP THEN {Append(ops, ops[SP - Operand])}
                                       ELSE {Append(ops, w) : w \in Word}
            /\ SM!Successors(Operand) = {NX + 1}
  BY <1>1
<1>15. Inst.op = "SWAP"
         => /\ SM!NewStacks(Operand) = {[ops EXCEPT ![SP] = ops[SP - Operand],
                                                    ![SP - Operand] = ops[SP]]}
            /\ SM!Successors(Operand) = {NX + 1}
  BY <1>1
<1> HIDE DEF SM!NewStacks, SM!Successors, SM!Below, SM!Unary, SM!Pops, SM!PopsTwo, SM!Binary,
    Reads, ReadsUnsigned, ReadsSigned, BinaryOps, Writes, IntCompare, FloatCompare, BitOps,
    IntArith, FloatArith, Casts
<1> QED BY <1>2, <1>3, <1>4, <1>5, <1>6, <1>7, <1>8, <1>9, <1>10, <1>11, <1>12, <1>13, <1>14, <1>15
-----------------------------------------------------------------------------
(* An executed instruction implements the abstract machine's step if its stack *)
(* and its next instruction are among those the abstract machine allows.       *)
LEMMA ExecutesImplements ==
  ASSUME MachineInv, Tame, TypeOK', Tame', NEW opcodes, Executes(opcodes),
         OperandStack' \in SM!NewStacks(Operand), NX' \in SM!Successors(Operand)
  PROVE  SM!Execute
<1>1. TypeOK /\ Fetchable /\ ~Overflows /\ ~Underflows
  BY ExecutesFacts DEF MachineInv
<1>2. /\ Operand \in SM!Operands /\ ~SM!Overflow /\ ~SM!Underflow(Operand)
      /\ SM!Fetchable /\ SM!Inst = Inst
  BY <1>1, SameOperand, SameChecks
<1>3. Len(OperandStack') <= STACK_CAPACITY
  <2>1. /\ stack' \in [StackAddr -> Word] /\ SP' \in 0 .. STACK_CAPACITY
        /\ OperandStack' = Slots(stack', SP')
    <3>1. reg' \in [RegID -> Word] /\ SP' <= STACK_CAPACITY /\ stack' \in [StackAddr -> Word]
      BY DEF TypeOK, Tame
    <3>2. SP' \in Nat
      BY <3>1, RegisterNumbers, WordFacts DEF SP, Word
    <3> QED BY <3>1, <3>2, CapacityAssumption DEF OperandStack, Slots, Depth
  <2> QED BY <2>1, SlotsAreSequences, CapacityAssumption
<1>4. /\ mode = "running" /\ error' = "ERR_OK" /\ prog' = prog
      /\ mode' \in IF Inst.op = "SHUTS" THEN {"returned"} ELSE {"running", "overrun"}
  BY DEF Executes, Passes, Drive, MachineInv, TypeOK
<1> QED BY <1>2, <1>3, <1>4 DEF SM!Execute

(* An error the machine answers with is one the abstract machine may report.   *)
LEMMA FailImplements ==
  ASSUME MachineInv, Tame, Fail
  PROVE  SM!Fail
<1>0. ~AddressIsOutside
  BY StackTyped, CapacityAssumption DEF AddressIsOutside, Tame, MachineInv
<1>1. /\ mode = "running" /\ mode' = "exited" /\ error' = InstError /\ InstError # "ERR_OK"
      /\ prog' = prog /\ NX' = NX /\ OperandStack' = OperandStack
  BY <1>0 DEF Fail, Drive, MachineInv, TypeOK, NX, SP, OperandStack, Depth
<1>2. SM!Stop(InstError)
  BY <1>1 DEF SM!Stop
<1>3. CASE ~Fetchable
  <2>1. ~SM!Fetchable
    BY <1>3 DEF SM!Fetchable, Fetchable
  <2> QED BY <1>1, <1>2, <1>3, <2>1 DEF SM!Fail, InstError
<1>4. CASE Fetchable
  <2>1. /\ SM!Fetchable /\ Operand \in SM!Operands
        /\ (SM!Overflow <=> Overflows) /\ (SM!Underflow(Operand) <=> Underflows)
    BY <1>4, SameOperand, SameChecks DEF MachineInv
  <2>2. CASE Overflows
    BY <1>1, <1>2, <1>4, <2>1, <2>2 DEF SM!Fail, InstError
  <2>3. CASE ~Overflows /\ Underflows
    BY <1>1, <1>2, <1>4, <2>1, <2>3 DEF SM!Fail, InstError
  <2>4. CASE ~Overflows /\ ~Underflows
    <3>1. error' \notin {"ERR_STACK_OVERFLOW", "ERR_STACK_UNDERFLOW"} \cup {"ERR_OK"}
      BY <1>1, <1>4, <2>4 DEF InstError
    <3>2. SM!Stop(error')
      BY <1>1, <1>2
    <3> QED BY <1>1, <2>1, <2>4, <3>1, <3>2 DEF SM!Fail
  <2> QED BY <2>2, <2>3, <2>4
<1> QED BY <1>3, <1>4

(* Where the machine dies, or leaves its arrays, the abstract machine may.     *)
LEMMA AbortImplements ==
  ASSUME MachineInv, StackInv, Tame, Step, Killed \/ Wild
  PROVE  SM!Abort
<1>1. /\ mode = "running" /\ prog' = prog /\ NX' = NX /\ OperandStack' = OperandStack
      /\ error' = error
  BY DEF Killed, Wild, NX, SP, OperandStack, Depth
<1>2. SM!Depth = SP /\ TypeOK
  BY OperandStackTyped DEF SM!Depth, MachineInv
<1>3. CASE Wild
  <2>1. mode' = "wild" /\ Fetchable /\ Unchecked
    BY <1>2, <1>3, WildIsUnchecked DEF Wild
  <2>2. ~(Inst.op \in StoresByNumber /\ StoredReg > REG_COUNT)
    BY <1>2, <2>1, TameStores DEF RegID, REG_COUNT
  <2>3. Inst.op = "GETR" /\ SP = STACK_CAPACITY
    BY <1>2, <2>1, <2>2, StackTyped, CapacityAssumption DEF Unchecked, Tame
  <2> QED BY <1>1, <1>2, <2>1, <2>3, SameOperand DEF SM!Abort
<1>4. CASE Killed
  <2> DEFINE Dies == {"DIVI", "MODI", "DUPS", "INVOK", "PUSHR", "GETR", "COPY"}
  <2>1. mode' = "killed" /\ MayDie
    BY <1>4 DEF Killed
  <2>2. ~(SP > STACK_CAPACITY)
    BY <1>2, StackTyped, CapacityAssumption DEF Tame
  <2>3. Fetchable => Inst.op \in Dies
    BY <2>1, <2>2 DEF MayDie, Traps, ReadsOutside
  <2>4. SM!Fetchable => SM!Inst.op \in Dies
    BY <1>2, <2>3, SameOperand DEF SM!Fetchable, Fetchable
  <2> QED BY <1>1, <2>1, <2>4 DEF SM!Abort
<1> QED BY <1>3, <1>4
-----------------------------------------------------------------------------
(* Every step of the machine is a step of the abstract machine.                *)
Allowed == OperandStack' \in SM!NewStacks(Operand) /\ NX' \in SM!Successors(Operand)

(* Register d set to w, and the next instruction taken.                        *)
LEMMA RegisterSet ==
  ASSUME TypeOK, Tame, Fetchable, NEW d \in NamedReg, NEW w \in Word
  PROVE  LET r == [reg EXCEPT ![d] = w]
         IN  /\ r \in [RegID -> Word] /\ r[REG_SP] = SP /\ r[REG_NX] = NX
             /\ Advanced(r) \in [RegID -> Word] /\ Advanced(r)[REG_SP] = SP
             /\ Advanced(r)[REG_NX] = NX + 1
<1> DEFINE r == [reg EXCEPT ![d] = w]
<1>1. reg \in [RegID -> Word] /\ d \in RegID /\ d # REG_SP /\ d # REG_NX
  BY DEF TypeOK, NamedReg
<1>2. r \in [RegID -> Word] /\ r[REG_SP] = SP /\ r[REG_NX] = NX
  BY <1>1, RegisterNumbers DEF SP, NX
<1> HIDE DEF r
<1>3. /\ Advanced(r) \in [RegID -> Word] /\ Advanced(r)[REG_SP] = SP
      /\ Advanced(r)[REG_NX] = NX + 1
  BY <1>2, AdvancedTyped, NextInstruction
<1> QED BY <1>2, <1>3 DEF r

(* The same after the top k words have been taken off the stack.               *)
LEMMA StackPopped ==
  ASSUME TypeOK, Tame, NEW r \in [RegID -> Word], r[REG_SP] = SP, NEW k \in 0 .. 2, k <= SP
  PROVE  /\ Popped(r, k) \in [RegID -> Word] /\ Popped(r, k)[REG_SP] = SP - k
         /\ Popped(r, k)[REG_NX] = r[REG_NX]
<1>1. Popped(r, k) \in [RegID -> Word] /\ Popped(r, k)[REG_SP] = SP - k
  BY RegisterFiles
<1>2. Popped(r, k)[REG_NX] = r[REG_NX]
  BY RegisterNumbers DEF Popped, REG_NX, REG_SP
<1> QED BY <1>1, <1>2

LEMMA PlainAllowed ==
  ASSUME TypeOK, Tame, Donop \/ Invok \/ Setr \/ Copy \/ Arith \/ ArithF \/ Cast
  PROVE  (\E opcodes : Executes(opcodes)) /\ Allowed
<1> DEFINE Plain == IntArith \cup FloatArith \cup Casts \cup {"DONOP", "INVOK", "SETR", "COPY"}
<1>1. PICK opcodes : Executes(opcodes) /\ opcodes \subseteq Plain
  <2>1. CASE Setr \/ Copy
    <3>1. PICK w, ops : Stores(w) /\ Passes(ops) /\ ops \subseteq {"SETR", "COPY"}
      BY <2>1 DEF Setr, Copy
    <3> QED BY <3>1, TameExecutes DEF StoresByNumber
  <2>2. CASE Donop \/ Invok \/ Arith \/ ArithF \/ Cast
    BY <2>2 DEF Donop, Invok, Arith, ArithF, Cast
  <2> QED BY <2>1, <2>2
<1>2. Fetchable /\ Inst.op \in Plain /\ reg \in [RegID -> Word] /\ reg[REG_SP] = SP
      /\ reg[REG_NX] = NX /\ Operand \in Word
  BY <1>1, ExecutesFacts, InstTyped DEF TypeOK, SP, NX
<1>3. SM!NewStacks(Operand) = {OperandStack} /\ SM!Successors(Operand) = {NX + 1}
  BY <1>2, AbstractSteps
<1>4. PICK r \in [RegID -> Word] : r[REG_SP] = SP /\ r[REG_NX] = NX + 1 /\ Registers(r)
  <2>a. ASSUME NEW d \in NamedReg, NEW w \in Word, Registers(Advanced([reg EXCEPT ![d] = w]))
        PROVE  \E r \in [RegID -> Word] : r[REG_SP] = SP /\ r[REG_NX] = NX + 1 /\ Registers(r)
    BY <1>2, <2>a, RegisterSet
  <2>1. CASE Donop
    BY <1>2, <2>1, AdvancedTyped, NextInstruction DEF Donop
  <2>2. CASE Invok
    <3>1. PICK ptr \in IF VmCallI[Operand] = "alloc" THEN Word ELSE {reg[REG_RF]} :
            Registers(Advanced([reg EXCEPT ![REG_RF] = ptr]))
      BY <2>2 DEF Invok
    <3>2. ptr \in Word
      BY <1>2, <3>1, RegisterNumbers DEF NamedReg
    <3> QED BY <2>a, <3>1, <3>2, RegisterNumbers
  <2>3. CASE Setr
    <3>1. Stores(Operand) /\ Registers(Advanced(Stored(reg, Operand))) /\ Passes({"SETR"})
      BY <2>3 DEF Setr
    <3>2. StoredReg \in NamedReg /\ Stored(reg, Operand) = [reg EXCEPT ![StoredReg] = Operand]
      BY <3>1, TameExecutes DEF StoresByNumber
    <3> QED BY <1>2, <2>a, <3>1, <3>2
  <2>4. CASE Copy
    <3>1. PICK w \in RegWords(RegNo(Operand2)) : Stores(w) /\ Registers(Advanced(Stored(reg, w)))
      BY <2>4 DEF Copy
    <3>2. w \in Word /\ Passes({"COPY"})
      BY <2>4, <3>1, RegWordsTyped DEF Copy
    <3>3. StoredReg \in NamedReg /\ Stored(reg, w) = [reg EXCEPT ![StoredReg] = w]
      BY <3>1, <3>2, TameExecutes DEF StoresByNumber
    <3> QED BY <2>a, <3>1, <3>2, <3>3
  <2>5. CASE Arith
    <3>1. /\ Inst.op \in IntArith
          /\ Inst.op \in {"DIVI", "MODI", "DIVU", "MODU"} => Operand # 0
      BY <2>5, ExecutesFacts DEF Arith, DividesByZero
    <3>2. Accumulator(Inst.op) \in NamedReg /\ Accumulator(Inst.op) \in RegID
      BY RegisterNumbers DEF Accumulator, NamedReg
    <3>3. IntResult(Inst.op, reg[Accumulator(Inst.op)], Operand) \in Word
      BY <1>2, <3>1, <3>2, IntResultTyped
    <3>4. Registers(Advanced([reg EXCEPT ![Accumulator(Inst.op)] =
                                  IntResult(Inst.op, reg[Accumulator(Inst.op)], Operand)]))
      BY <2>5 DEF Arith
    <3> QED BY <2>a, <3>2, <3>3, <3>4
  <2>6. CASE ArithF
    BY <2>6, <2>a, RegisterNumbers DEF ArithF
  <2>7. CASE Cast
    <3>1. PICK d \in {REG_L1, REG_L2, REG_L3}, w \in Word :
            Registers(Advanced([reg EXCEPT ![d] = w]))
      BY <2>7, ExecutesFacts DEF Cast, Casts
    <3> QED BY <2>a, <3>1, RegisterNumbers
  <2> QED BY <2>1, <2>2, <2>3, <2>4, <2>5, <2>6, <2>7
<1>5. OperandStack' = OperandStack /\ NX' = NX + 1
  BY <1>4, RegistersKeepTheStack
<1> QED BY <1>1, <1>3, <1>5 DEF Allowed

LEMMA JumpsAllowed ==
  ASSUME TypeOK, Tame, Retvl \/ Shuts \/ Jmpu \/ Loop
  PROVE  (\E opcodes : Executes(opcodes)) /\ Allowed
<1>1. /\ \E opcodes : Executes(opcodes)
      /\ Fetchable /\ Inst.op \in {"RETVL", "SHUTS", "JMPU", "LOOP"}
  <2>1. CASE Retvl \/ Shuts \/ Jmpu
    BY <2>1, ExecutesFacts DEF Retvl, Shuts, Jmpu
  <2>2. CASE Loop
    <3>1. PICK w : Stores(w) /\ Passes({"LOOP"})
      BY <2>2 DEF Loop
    <3> QED BY <3>1, TameExecutes, ExecutesFacts DEF StoresByNumber
  <2> QED BY <2>1, <2>2
<1>2. /\ reg \in [RegID -> Word] /\ reg[REG_SP] = SP /\ reg[REG_NX] = NX
      /\ Operand \in Word /\ REG_SP # REG_NX
  BY <1>1, InstTyped DEF TypeOK, SP, NX, REG_SP, REG_NX
<1> DEFINE Target(n) == [reg EXCEPT ![REG_NX] = n]
<1>3. \A n \in Word : /\ Target(n) \in [RegID -> Word] /\ Target(n)[REG_SP] = SP
                      /\ Target(n)[REG_NX] = n
  BY <1>2, RegisterNumbers
<1>4. CASE Retvl \/ Shuts
  <2>1. OperandStack' = OperandStack /\ NX' = NX
    BY <1>2, <1>4, RegistersKeepTheStack DEF Retvl, Shuts
  <2>2. SM!NewStacks(Operand) = {OperandStack} /\ SM!Successors(Operand) = {NX}
    BY <1>1, <1>4, AbstractSteps DEF Retvl, Shuts, Executes, Passes
  <2> QED BY <1>1, <2>1, <2>2 DEF Allowed
<1>5. CASE Jmpu
  <2>1. OperandStack' = OperandStack /\ NX' = Operand
    BY <1>2, <1>3, <1>5, RegistersKeepTheStack DEF Jmpu
  <2>2. SM!NewStacks(Operand) = {OperandStack} /\ SM!Successors(Operand) = {Operand}
    BY <1>1, <1>5, AbstractSteps DEF Jmpu, Executes, Passes
  <2> QED BY <1>1, <2>1, <2>2 DEF Allowed
<1>6. CASE Loop
  <2>1. PICK c \in RegWords(StoredReg), r \in {Target(Operand), Advanced(reg)} :
          LET n == Wrap((IF StoredReg \in RegID THEN r[StoredReg] ELSE c) - 1)
          IN  Stores(n) /\ Registers(Stored(r, n))
    BY <1>6 DEF Loop
  <2>2. /\ r \in [RegID -> Word] /\ r[REG_SP] = SP
        /\ r[REG_NX] \in {Operand, NX + 1}
    BY <1>1, <1>2, <1>3, <2>1, AdvancedTyped, NextInstruction
  <2> HIDE DEF Target
  <2> DEFINE n == Wrap((IF StoredReg \in RegID THEN r[StoredReg] ELSE c) - 1)
  <2>3. n \in Word
    BY <2>1, <2>2, RegWordsTyped, WordFacts DEF Word
  <2>4. Stores(n) /\ Registers(Stored(r, n))
    BY <2>1
  <2> HIDE DEF n
  <2>5a. StoredReg \in NamedReg /\ Stored(r, n) = [r EXCEPT ![StoredReg] = n]
    BY <1>6, <2>4, TameExecutes DEF Loop, StoresByNumber
  <2> DEFINE q == [r EXCEPT ![StoredReg] = n]
  <2>5. q \in [RegID -> Word] /\ q[REG_SP] = SP /\ q[REG_NX] = r[REG_NX] /\ Registers(q)
    BY <2>2, <2>3, <2>4, <2>5a, RegisterNumbers DEF NamedReg
  <2> HIDE DEF q
  <2>6. OperandStack' = OperandStack /\ NX' = r[REG_NX]
    BY <2>5, RegistersKeepTheStack
  <2>7. SM!NewStacks(Operand) = {OperandStack} /\ SM!Successors(Operand) = {Operand, NX + 1}
    BY <1>1, <1>6, AbstractSteps DEF Loop, Passes
  <2> QED BY <1>1, <2>2, <2>6, <2>7 DEF Allowed
<1> QED BY <1>4, <1>5, <1>6

LEMMA PopsAllowed ==
  ASSUME TypeOK, Tame, Spopr \/ Spop \/ Ret \/ Jmpc
  PROVE  (\E opcodes : Executes(opcodes)) /\ Allowed
<1>1. /\ \E opcodes : Executes(opcodes)
      /\ Fetchable /\ Inst.op \in {"SPOPR", "SPOP", "RET", "JMPC"} /\ SP >= 1
  <2>1. CASE Spop \/ Ret \/ Jmpc
    BY <2>1, ExecutesFacts, NeedsMet DEF Spop, Ret, Jmpc
  <2>2. CASE Spopr
    <3>1. PICK w : Stores(w) /\ Passes({"SPOPR"})
      BY <2>2 DEF Spopr
    <3> QED BY <3>1, TameExecutes, ExecutesFacts, NeedsMet DEF StoresByNumber
  <2> QED BY <2>1, <2>2
<1>2. /\ reg \in [RegID -> Word] /\ reg[REG_SP] = SP /\ reg[REG_NX] = NX /\ SP \in Nat
      /\ Operand \in Word /\ REG_SP # REG_NX /\ Top(0) \in Word /\ NX + 1 \in Word
      /\ 1 \in 0 .. 2 /\ 1 <= SP /\ 1 \in 0 .. SP /\ Top(0) = OperandStack[SP]
      /\ Words(0) = {Top(0)}
  <2>1. /\ reg \in [RegID -> Word] /\ reg[REG_SP] = SP /\ reg[REG_NX] = NX
        /\ Operand \in Word /\ REG_SP # REG_NX /\ NX + 1 \in Word
    BY <1>1, InstTyped, NextInstruction DEF TypeOK, SP, NX, REG_SP, REG_NX
  <2>2. SP \in Nat /\ 0 \in Nat /\ 0 < SP /\ SP <= STACK_CAPACITY + 0
    BY <1>1, StackTyped, CapacityAssumption DEF Tame
  <2>3. Top(0) \in Word /\ Words(0) = {Top(0)}
    BY <2>2, StackTyped
  <2>4. OperandStack[SP - 0] = Top(0) /\ SP - 0 = SP
    BY <2>2, OperandStackTyped
  <2>5. 1 \in 0 .. 2 /\ 1 <= SP /\ 1 \in 0 .. SP
    BY <1>1, <2>2
  <2> QED BY <2>1, <2>2, <2>3, <2>4, <2>5
<1> DEFINE Target(n) == [reg EXCEPT ![REG_NX] = n]
\* The registers r, and the stack less its top.
<1>r. ASSUME NEW r \in [RegID -> Word], r[REG_SP] = SP - 1, Registers(r)
      PROVE  OperandStack' = SubSeq(OperandStack, 1, SP - 1) /\ NX' = r[REG_NX]
  BY <1>2, <1>r, RegistersTakeWords
\* NX set to n, and the top taken.
<1>t. ASSUME NEW n \in Word, Registers(Popped(Target(n), 1))
      PROVE  OperandStack' = SubSeq(OperandStack, 1, SP - 1) /\ NX' = n
  <2>1. Target(n) \in [RegID -> Word] /\ Target(n)[REG_SP] = SP /\ Target(n)[REG_NX] = n
    BY <1>2, RegisterNumbers
  <2> HIDE DEF Target
  <2>2. /\ Popped(Target(n), 1) \in [RegID -> Word] /\ Popped(Target(n), 1)[REG_SP] = SP - 1
        /\ Popped(Target(n), 1)[REG_NX] = n
    BY <1>2, <2>1, StackPopped
  <2> QED BY <1>r, <1>t, <2>2
\* A register set to the top, which is taken.
<1>s. ASSUME NEW d \in NamedReg, Registers(Advanced(Popped([reg EXCEPT ![d] = Top(0)], 1)))
      PROVE  OperandStack' = SubSeq(OperandStack, 1, SP - 1) /\ NX' = NX + 1
  <2> DEFINE r == [reg EXCEPT ![d] = Top(0)]
  <2>1. r \in [RegID -> Word] /\ r[REG_SP] = SP /\ r[REG_NX] = NX
    BY <1>1, <1>2, RegisterSet
  <2> HIDE DEF r
  <2>2. /\ Popped(r, 1) \in [RegID -> Word] /\ Popped(r, 1)[REG_SP] = SP - 1
        /\ Popped(r, 1)[REG_NX] = NX
    BY <1>2, <2>1, StackPopped
  <2>3. /\ Advanced(Popped(r, 1)) \in [RegID -> Word] /\ Advanced(Popped(r, 1))[REG_SP] = SP - 1
        /\ Advanced(Popped(r, 1))[REG_NX] = NX + 1
    BY <1>1, <2>2, AdvancedTyped, NextInstruction
  <2>4. Registers(Advanced(Popped(r, 1)))
    BY <1>s DEF r
  <2> QED BY <1>r, <2>3, <2>4
<1>3. CASE Spopr \/ Spop
  <2>1. PICK d \in NamedReg : Registers(Advanced(Popped([reg EXCEPT ![d] = Top(0)], 1)))
    <3>1. CASE Spop
      BY <1>2, <3>1, RegisterNumbers DEF Spop
    <3>2. CASE Spopr
      <4>1. /\ Passes({"SPOPR"}) /\ Stores(Top(0))
            /\ Registers(Advanced(Popped(Stored(reg, Top(0)), 1)))
        BY <1>2, <3>2 DEF Spopr
      <4> QED BY <4>1, TameExecutes DEF StoresByNumber
    <3> QED BY <1>3, <3>1, <3>2
  <2>2. OperandStack' = SubSeq(OperandStack, 1, SP - 1) /\ NX' = NX + 1
    BY <1>s, <2>1
  <2>3. /\ SM!NewStacks(Operand) = {SubSeq(OperandStack, 1, SP - 1)}
        /\ SM!Successors(Operand) = {NX + 1}
    BY <1>1, <1>3, AbstractSteps DEF Spopr, Spop, Executes, Passes
  <2> QED BY <1>1, <2>2, <2>3 DEF Allowed
<1>4. CASE Ret
  <2>1. OperandStack' = SubSeq(OperandStack, 1, SP - 1) /\ NX' = Top(0)
    BY <1>2, <1>4, <1>t DEF Ret
  <2>2. /\ SM!NewStacks(Operand) = {SubSeq(OperandStack, 1, SP - 1)}
        /\ SM!Successors(Operand) = {OperandStack[SP]}
    BY <1>1, <1>4, AbstractSteps DEF Ret, Executes, Passes
  <2> QED BY <1>1, <1>2, <2>1, <2>2 DEF Allowed
<1>5. CASE Jmpc
  <2>1. Advanced(reg) = Target(NX + 1)
    BY <1>1, <1>2, NextInstruction DEF Advanced
  <2>2. Registers(Popped(Target(Operand), 1)) \/ Registers(Popped(Target(NX + 1), 1))
    BY <1>2, <1>5, <2>1 DEF Jmpc
  <2>3. OperandStack' = SubSeq(OperandStack, 1, SP - 1) /\ NX' \in {Operand, NX + 1}
    BY <1>2, <1>t, <2>2
  <2>4. /\ SM!NewStacks(Operand) = {SubSeq(OperandStack, 1, SP - 1)}
        /\ SM!Successors(Operand) = {Operand, NX + 1}
    BY <1>1, <1>5, AbstractSteps DEF Jmpc, Executes, Passes
  <2> QED BY <1>1, <2>3, <2>4 DEF Allowed
<1> QED BY <1>3, <1>4, <1>5

LEMMA PushesAllowed ==
  ASSUME TypeOK, Tame, Pushr \/ Getr \/ Push \/ Call \/ Dups
  PROVE  (\E opcodes : Executes(opcodes)) /\ Allowed
<1>1. PICK opcodes : Executes(opcodes) /\ opcodes \subseteq {"PUSHR", "GETR", "PUSH", "CALL", "DUPS"}
  BY DEF Pushr, Getr, Push, Call, Dups
<1>2. Fetchable /\ SP < STACK_CAPACITY /\ ~Underflows
  BY <1>1, ExecutesFacts, NeedsMet
<1>3. /\ reg \in [RegID -> Word] /\ reg[REG_NX] = NX /\ Operand \in Word /\ Operand \in Nat
      /\ SP \in Nat /\ SP \in Word
  <2>1. reg \in [RegID -> Word] /\ reg[REG_NX] = NX
    BY DEF TypeOK, NX
  <2>2. Operand \in Word /\ SP \in Nat /\ SP \in Word
    BY <1>2, InstTyped, StackTyped
  <2>3. \A w \in Word : w \in Nat
    BY WordFacts DEF Word
  <2> QED BY <2>1, <2>2, <2>3
<1>4. Advanced(reg) \in [RegID -> Word] /\ Advanced(reg)[REG_NX] = NX + 1
  BY <1>2, <1>3, AdvancedTyped, NextInstruction
<1>5. CASE Pushr \/ Getr \/ Push
  <2>1. PICK w \in Word : Pushing(w, Advanced(reg))
    <3>1. CASE Push
      BY <1>3, <3>1 DEF Push
    <3>2. CASE Pushr \/ Getr
      BY <3>2, RegWordsTyped DEF Pushr, Getr
    <3> QED BY <1>5, <3>1, <3>2
  <2>2. OperandStack' = Append(OperandStack, w) /\ NX' = NX + 1
    BY <1>2, <1>4, <2>1, PushingAppends
  <2>3. /\ SM!NewStacks(Operand) = {Append(OperandStack, v) : v \in Word}
        /\ SM!Successors(Operand) = {NX + 1}
    BY <1>2, <1>5, AbstractSteps DEF Pushr, Getr, Push, Executes, Passes
  <2> QED BY <1>1, <2>2, <2>3 DEF Allowed
<1>6. CASE Call
  <2>1. Pushing(NX + 1, [reg EXCEPT ![REG_NX] = Operand]) /\ NX + 1 \in Word
    BY <1>2, <1>6, NextInstruction DEF Call
  <2>2. /\ [reg EXCEPT ![REG_NX] = Operand] \in [RegID -> Word]
        /\ [reg EXCEPT ![REG_NX] = Operand][REG_NX] = Operand
    BY <1>3, RegisterNumbers
  <2>3. OperandStack' = Append(OperandStack, NX + 1) /\ NX' = Operand
    BY <1>2, <2>1, <2>2, PushingAppends
  <2>4. /\ SM!NewStacks(Operand) = {Append(OperandStack, NX + 1)}
        /\ SM!Successors(Operand) = {Operand}
    BY <1>2, <1>6, AbstractSteps DEF Call, Executes, Passes
  <2> QED BY <1>1, <2>3, <2>4 DEF Allowed
<1>7. CASE Dups
  <2>1. PICK w \in IF Operand < SP THEN {Top(Operand)} ELSE Word : Pushing(w, Advanced(reg))
    BY <1>7 DEF Dups
  <2>2. w \in Word /\ (Operand < SP => w = OperandStack[SP - Operand])
    BY <1>2, <1>3, <2>1, StackTyped, OperandStackTyped, CapacityAssumption
  <2>3. OperandStack' = Append(OperandStack, w) /\ NX' = NX + 1
    BY <1>2, <1>4, <2>1, <2>2, PushingAppends
  <2>4. Inst.op = "DUPS" /\ Operand # SP
    BY <1>2, <1>3, <1>7, WrappedDifference DEF Dups, Executes, Passes, Underflows
  <2>5. /\ SM!NewStacks(Operand) = IF Operand < SP
                                   THEN {Append(OperandStack, OperandStack[SP - Operand])}
                                   ELSE {Append(OperandStack, v) : v \in Word}
        /\ SM!Successors(Operand) = {NX + 1}
    BY <1>2, <2>4, AbstractSteps
  <2> QED BY <1>1, <2>2, <2>3, <2>5 DEF Allowed
<1> QED BY <1>5, <1>6, <1>7

LEMMA SwapAllowed ==
  ASSUME TypeOK, Tame, Swap
  PROVE  (\E opcodes : Executes(opcodes)) /\ Allowed
<1>1. /\ Executes({"SWAP"}) /\ Fetchable /\ Inst.op = "SWAP" /\ Operand < SP
      /\ stack' = [stack EXCEPT ![SP - 1] = Top(Operand), ![SP - 1 - Operand] = Top(0)]
      /\ reg' = Advanced(reg)
  BY ExecutesFacts, NeedsMet DEF Swap
<1>2. /\ SP \in Nat /\ Operand \in Nat /\ SP \in 0 .. STACK_CAPACITY
      /\ stack \in [StackAddr -> Word] /\ reg \in [RegID -> Word] /\ reg[REG_NX] = NX
      /\ reg[REG_SP] = SP /\ OperandStack = Slots(stack, SP)
  <2>1. SP \in Nat /\ SP \in 0 .. STACK_CAPACITY /\ OperandStack = Slots(stack, SP)
    BY OperandStackTyped
  <2>2. Operand \in Nat
    BY <1>1, InstTyped, WordFacts DEF Word
  <2> QED BY <2>1, <2>2 DEF TypeOK, SP, NX
<1> DEFINE i == SP - 1
           j == SP - 1 - Operand
<1>3. i \in 0 .. SP - 1 /\ j \in 0 .. SP - 1 /\ i + 1 = SP /\ j + 1 = SP - Operand
  BY <1>1, <1>2
<1>4. Top(Operand) = stack[j] /\ Top(0) = stack[i]
  BY <1>2 DEF Top
<1>5. stack' = Exchanged(stack, i, j)
  BY <1>1, <1>4 DEF Exchanged
<1>6. NX' = NX + 1 /\ SP' = SP
  BY <1>1, <1>2, AdvancedTyped, NextInstruction DEF NX, SP
<1> HIDE DEF i, j
<1>7. OperandStack' = Slots(Exchanged(stack, i, j), SP)
  BY <1>2, <1>5, <1>6 DEF OperandStack, Slots, Depth
<1>8. OperandStack' = Exchanged(OperandStack, i + 1, j + 1)
  BY <1>2, <1>3, <1>7, SlotsSwapped
<1>9. /\ SM!NewStacks(Operand) = {Exchanged(OperandStack, SP, SP - Operand)}
      /\ SM!Successors(Operand) = {NX + 1}
  BY <1>1, AbstractSteps DEF Exchanged
<1> QED BY <1>1, <1>3, <1>6, <1>8, <1>9 DEF Allowed

LEMMA ReplacementsAllowed ==
  ASSUME TypeOK, Tame, Binary \/ Notb \/ Not \/ ReadU \/ ReadI
  PROVE  (\E opcodes : Executes(opcodes)) /\ Allowed
<1>1. CASE Binary
  <2>1. Executes(BinaryOps) /\ Fetchable /\ Inst.op \in BinaryOps /\ 2 <= SP /\ 2 \in 1 .. 2
    BY <1>1, ExecutesFacts, NeedsMet DEF Binary
  <2>a. PICK top \in Words(0) : \E w \in BinaryResults(Inst.op, Top(1), top) : Replacing(2, w)
    BY <1>1 DEF Binary
  <2>2. PICK w \in BinaryResults(Inst.op, Top(1), top) : Replacing(2, w)
    BY <2>a
  <2>3. w \in Word
    BY <2>1, <2>2, BinaryResultsTyped
  <2>4. OperandStack' = Append(SubSeq(OperandStack, 1, SP - 2), w) /\ NX' = NX + 1
    BY <2>1, <2>2, <2>3, ReplacingReplaces
  <2>5. /\ SM!NewStacks(Operand) = {Append(SubSeq(OperandStack, 1, SP - 2), v) : v \in Word}
        /\ SM!Successors(Operand) = {NX + 1}
    BY <2>1, AbstractSteps
  <2> QED BY <2>1, <2>3, <2>4, <2>5 DEF Allowed
<1>2. CASE Notb \/ Not \/ ReadU \/ ReadI
  <2>1. PICK opcodes : Executes(opcodes) /\ opcodes \subseteq Reads \cup {"NOTB", "NOT"}
    BY <1>2 DEF Notb, Not, ReadU, ReadI, Reads
  <2>2. /\ Fetchable /\ Inst.op \in Reads \cup {"NOTB", "NOT"} /\ 1 <= SP /\ 1 \in 1 .. 2
        /\ Top(0) \in Word
    BY <2>1, ExecutesFacts, NeedsMet, StackTyped, CapacityAssumption
  <2>3. PICK w \in Word : Replacing(1, w)
    <3>1. CASE Notb \/ Not
      <4>1. WordSize - 1 - Top(0) \in Word
        BY <2>2, WordFacts DEF Word
      <4> QED BY <3>1, <4>1, WordFacts DEF Notb, Not
    <3>2. CASE ReadU
      BY <3>2 DEF ReadU, ReadResults
    <3>3. CASE ReadI
      BY <3>3, SignExtendTyped, WidthValues DEF ReadI, ReadResults
    <3> QED BY <1>2, <3>1, <3>2, <3>3
  <2>4. OperandStack' = Append(SubSeq(OperandStack, 1, SP - 1), w) /\ NX' = NX + 1
    BY <2>2, <2>3, ReplacingReplaces
  <2>5. /\ SM!NewStacks(Operand) = {Append(SubSeq(OperandStack, 1, SP - 1), v) : v \in Word}
        /\ SM!Successors(Operand) = {NX + 1}
    BY <2>2, AbstractSteps
  <2> QED BY <2>1, <2>4, <2>5 DEF Allowed
<1> QED BY <1>1, <1>2

LEMMA WriteAllowed ==
  ASSUME TypeOK, Tame, Write
  PROVE  (\E opcodes : Executes(opcodes)) /\ Allowed
<1>1. /\ Executes(Writes) /\ Fetchable /\ Inst.op \in Writes /\ 2 <= SP
      /\ reg' = Advanced(Popped(reg, 2)) /\ stack' = stack
  BY ExecutesFacts, NeedsMet DEF Write
<1>2. /\ reg \in [RegID -> Word] /\ reg[REG_NX] = NX /\ reg[REG_SP] = SP
      /\ SP \in Nat /\ SP - 2 \in 0 .. SP /\ 2 \in 0 .. 2 /\ SP \in 0 .. STACK_CAPACITY
      /\ stack \in [StackAddr -> Word]
  BY <1>1, OperandStackTyped DEF TypeOK, NX, SP
<1>3. /\ Popped(reg, 2) \in [RegID -> Word] /\ Popped(reg, 2)[REG_SP] = SP - 2
      /\ Popped(reg, 2)[REG_NX] = NX
  BY <1>1, <1>2, StackPopped
<1>4. NX' = NX + 1 /\ SP' = SP - 2
  BY <1>1, <1>3, AdvancedTyped, NextInstruction DEF NX, SP
<1>5. OperandStack' = Slots(stack, SP - 2)
  BY <1>1, <1>2, <1>4, CapacityAssumption DEF OperandStack, Slots, Depth
<1>6. OperandStack' = SubSeq(OperandStack, 1, SP - 2)
  BY <1>2, <1>5, OperandStackTyped, SlotsBelow
<1>7. /\ SM!NewStacks(Operand) = {SubSeq(OperandStack, 1, SP - 2)}
      /\ SM!Successors(Operand) = {NX + 1}
  BY <1>1, AbstractSteps
<1> QED BY <1>1, <1>4, <1>6, <1>7 DEF Allowed
-----------------------------------------------------------------------------
(* The two kinds of step the abstract specification is made of.                *)
LEMMA InitImplements == Init => SM!Init
<1> SUFFICES ASSUME Init PROVE SM!Init
  OBVIOUS
<1>1. TypeOK /\ NX = 0 /\ SP = 0
  BY InitTyped, RegisterNumbers DEF Init, NX, SP
<1>2. OperandStack = Slots(stack, 0)
  BY <1>1, CapacityAssumption DEF OperandStack, Slots, Depth
<1>3. 0 \in 0 .. STACK_CAPACITY /\ stack \in [StackAddr -> Word]
  BY <1>1, CapacityAssumption DEF TypeOK
<1>4. OperandStack = <<>>
  BY <1>2, <1>3, SlotsAreSequences, EmptySeq
<1> QED BY <1>1, <1>4, ProgramAssumption DEF Init, SM!Init

LEMMA StepImplements ==
  MachineInv /\ StackInv /\ MachineInv' /\ StackInv' /\ [Step]_vars
    => [SM!Next \/ prog \notin NamedProgram]_<<prog, NX, OperandStack, error, mode>>
<1>1. ASSUME MachineInv, StackInv, MachineInv', StackInv', Step, prog \in NamedProgram PROVE SM!Next
  <2>0. TypeOK /\ TypeOK' /\ prog' = prog
    BY <1>1, StepDrives DEF MachineInv, Drive, Killed, Wild
  <2>1. Tame /\ Tame'
    <3>1. Tame
      BY <1>1, <2>0, NamedProgramsAreTame
    <3>2. ~SetsSp(prog)
      BY <1>1, <2>0, NothingSetsSp
    <3> QED BY <1>1, <2>0, <3>1, <3>2, StackTyped, CapacityAssumption DEF Tame, StackInv
  <2>2. CASE (\E opcodes : Executes(opcodes)) /\ Allowed
    BY <1>1, <2>0, <2>1, <2>2, ExecutesImplements DEF SM!Next, Allowed
  <2>3. CASE Fail
    BY <1>1, <2>1, <2>3, FailImplements DEF SM!Next
  <2>4. CASE Killed \/ Wild
    BY <1>1, <2>1, <2>4, AbortImplements DEF SM!Next
  <2> QED BY <1>1, <2>0, <2>1, <2>2, <2>3, <2>4, PlainAllowed, JumpsAllowed, PopsAllowed,
             PushesAllowed, SwapAllowed, ReplacementsAllowed, WriteAllowed DEF Step
<1>2. ASSUME UNCHANGED vars PROVE UNCHANGED <<prog, NX, OperandStack, error, mode>>
  <2>1. reg' = reg /\ stack' = stack /\ prog' = prog /\ error' = error /\ mode' = mode
    BY <1>2 DEF vars
  <2> QED BY <2>1 DEF NX, SP, OperandStack, Depth
<1> QED BY <1>1, <1>2

(* To a program that names the registers it stores into the machine is the     *)
(* stack machine: at every step the words it takes, the words it leaves, where *)
(* it goes next and the stack error it answers are the abstract machine's, and *)
(* nothing above SP ever comes back.                                           *)
THEOREM VirexImplementsStackMachine == Spec => ImplementsStackMachine
<1>1. Spec => [](MachineInv /\ StackInv)
  <2>1. MachineInv => TypeOK
    BY DEF MachineInv
  <2> QED BY <2>1, MachineInvInductive, StackInvInductive, PTL DEF Spec
<1>2. Spec => [][SM!Next \/ prog \notin NamedProgram]_<<prog, NX, OperandStack, error, mode>>
  BY <1>1, StepImplements, PTL DEF Spec
<1> QED BY <1>2, InitImplements DEF ImplementsStackMachine, Spec
-----------------------------------------------------------------------------
(* The session.                                                                *)

(* What a run may rely on between runs: META_HALT is down on the menu.         *)
SessionInv == /\ SessionTypeOK
              /\ MachineInv
              /\ at # "exec" => ~halt
              /\ RunsStartFromWholeImages
-----------------------------------------------------------------------------
(* Files.                                                                      *)
LEMMA UnitsTyped == \A i \in Images : Units(i) \in Nat \ {0} /\ Len(i.insts) \in Nat
<1> SUFFICES ASSUME NEW i \in Images PROVE Units(i) \in Nat \ {0} /\ Len(i.insts) \in Nat
  OBVIOUS
<1>1. i.insts \in Seq(Instruction) /\ i.data \in Seq(Byte)
  BY ImageAssumption, ProgramAssumption DEF Program
<1>2. Len(i.insts) \in Nat /\ Len(i.data) \in Nat
  BY <1>1, LenProperties
<1>3. \A m, n \in Nat : 1 + m + n \in Nat \ {0}
  OBVIOUS
<1> QED BY <1>2, <1>3 DEF Units

LEMMA FilesTyped ==
  /\ Absent \in File /\ Text \in File
  /\ \A i \in Images : \A n \in 0 .. Units(i) : Executable(i, n) \in File
BY DEF File

(* A file that passes the loader's checks is one of the images, all of it.     *)
LEMMA LoadableIsWhole ==
  ASSUME NEW f \in File, Loadable(f)
  PROVE  f.image \in Images /\ f.units = Units(f.image)
<1>1. f # Absent /\ f # Text
  BY DEF Loadable, Absent, Text
<1>2. PICK i \in Images : \E n \in 0 .. Units(i) : f = Executable(i, n)
  BY <1>1 DEF File
<1> QED BY <1>2 DEF Executable, Loadable

(* Whatever a command does to the disk, it leaves files there.                 *)
LEMMA CommandsLeaveFiles ==
  ASSUME disk \in [Path -> File], NEW c \in Commands \cup {NoCommand}
  PROVE  \A d \in Succeeds(c) \cup Fails(c) : d \in [Path -> File]
<1>1. \A p \in Path, f \in File : Put(p, f) \in [Path -> File]
  BY DEF Put
<1>2. CASE c.kind = "assemble"
  <2>1. c.out \in Path
    BY <1>2 DEF Commands, NoCommand
  <2>2. ASSUME NEW i \in Images, NEW n \in 0 .. Units(i)
        PROVE  Put(c.out, Executable(i, n)) \in [Path -> File]
    BY <1>1, <2>1, FilesTyped
  <2>3. \A i \in Images : Units(i) \in 0 .. Units(i) /\ 0 .. Units(i) - 1 \subseteq 0 .. Units(i)
    <3>1. \A n \in Nat : n \in 0 .. n /\ 0 .. n - 1 \subseteq 0 .. n
      OBVIOUS
    <3> QED BY <3>1, UnitsTyped
  <2>4. /\ Succeeds(c) = {Put(c.out, Executable(i, Units(i))) : i \in Images}
        /\ Fails(c) = {disk} \cup UNION {{Put(c.out, Executable(i, n)) : n \in 0 .. Units(i) - 1}
                                           : i \in Images}
    BY <1>2 DEF Succeeds, Fails
  <2> QED BY <2>2, <2>3, <2>4
<1>3. CASE c.kind = "disassemble"
  <2>1. c.out \in Path
    BY <1>3 DEF Commands, NoCommand
  <2>2. Succeeds(c) \subseteq {Put(c.out, Text)} /\ Fails(c) = {Put(c.out, Text)}
    BY <1>3 DEF Succeeds, Fails
  <2> QED BY <1>1, <2>1, <2>2, FilesTyped
<1>4. CASE c.kind \notin {"assemble", "disassemble"}
  BY <1>4 DEF Succeeds, Fails
<1> QED BY <1>2, <1>3, <1>4
-----------------------------------------------------------------------------
(* The machine of a new process, and of one that has ended.                    *)
NewMachine == /\ TypeOK /\ lim < 0 /\ ~halt /\ mode = "returned"

LEMMA EmptyProgram == <<>> \in Program
<1>1. <<>> \in Seq(Instruction) /\ Len(<<>>) = 0
  BY EmptySeq
<1> QED BY <1>1, CapacityAssumption DEF Program

LEMMA ZeroedTyped == Zeroed => NewMachine'
<1> SUFFICES ASSUME Zeroed PROVE NewMachine'
  OBVIOUS
<1>1. /\ reg' \in [RegID -> Word] /\ stack' \in [StackAddr -> Word]
      /\ memory' \in [MemoryAddr -> Byte]
  BY WordFacts, RegisterNumbers, ByteAssumption DEF Zeroed, Byte
<1>2. /\ prog' \in Program /\ lim' \in Int /\ lim' < 0 /\ frames' \in 1 .. FrameCapacity
      /\ error' \in Errors /\ mode' \in Modes /\ mode' = "returned" /\ ~halt' /\ halt' \in BOOLEAN
  <2>1. 1 \in 1 .. FrameCapacity /\ -1 \in Int /\ -1 < 0
    BY CapacityAssumption
  <2> QED BY <2>1, EmptyProgram DEF Zeroed, ExecLimit, Errors, Modes
<1> QED BY <1>1, <1>2, CapacityAssumption DEF NewMachine, TypeOK

LEMMA EndsKeepsInv ==
  ASSUME disk' \in [Path -> File], Ends
  PROVE  SessionInv'
<1>1. NewMachine' /\ at' = "shell" /\ cmd' = NoCommand /\ limit' = -1
  BY ZeroedTyped DEF Ends
<1> QED BY <1>1 DEF NewMachine, SessionInv, SessionTypeOK, MachineInv, RunsStartFromWholeImages

LEMMA SInitInv == SInit => SessionInv
<1> SUFFICES ASSUME SInit PROVE SessionInv
  OBVIOUS
<1>1. /\ reg \in [RegID -> Word] /\ stack \in [StackAddr -> Word]
      /\ memory \in [MemoryAddr -> Byte]
  BY WordFacts, RegisterNumbers, ByteAssumption DEF SInit, Byte
<1>2. /\ prog \in Program /\ lim \in Int /\ lim < 0 /\ frames \in 1 .. FrameCapacity
      /\ error \in Errors /\ mode \in Modes /\ mode = "returned" /\ ~halt /\ halt \in BOOLEAN
  <2>1. 1 \in 1 .. FrameCapacity /\ -1 \in Int /\ -1 < 0
    BY CapacityAssumption
  <2> QED BY <2>1, EmptyProgram DEF SInit, ExecLimit, Errors, Modes
<1>3. TypeOK
  BY <1>1, <1>2, CapacityAssumption DEF TypeOK
<1>4. disk \in [Path -> File] /\ at = "shell" /\ cmd = NoCommand /\ limit = -1
  BY FilesTyped DEF SInit
<1> QED BY <1>2, <1>3, <1>4 DEF SessionInv, SessionTypeOK, MachineInv, RunsStartFromWholeImages
-----------------------------------------------------------------------------
(* A run starts: the loader leaves a machine whose program, entry point and    *)
(* data are those of one image.                                                *)
LEMMA ExecKeepsInv ==
  ASSUME SessionInv, at = "menu", disk' \in [Path -> File], NEW p \in Path, Exec(disk', p),
         at' = "exec" => cmd' \in Commands \cup {NoCommand}
  PROVE  SessionInv'
<1>1. CASE Ends
  BY <1>1, EndsKeepsInv
<1>2. CASE ~Ends
  <2> DEFINE f == disk'[p]
             i == f.image
  <2>1. /\ Loadable(f) /\ prog' = i.insts /\ reg' = [reg EXCEPT ![REG_NX] = i.entry]
        /\ memory' = [a \in MemoryAddr |-> IF a < Len(i.data) THEN i.data[a + 1] ELSE memory[a]]
        /\ lim' = -1 /\ frames' = 1 /\ mode' = "running" /\ at' = "exec"
        /\ stack' = stack /\ halt' = halt /\ error' = error /\ limit' = limit
    BY <1>2 DEF Exec, ExecLimit
  <2>2. i \in Images /\ f.units = Units(i)
    BY <2>1, LoadableIsWhole
  <2>3. /\ i.insts \in Program /\ i.entry \in Word /\ i.data \in Seq(Byte)
        /\ Len(i.data) <= MEMORY_CAPACITY /\ Len(i.data) \in Nat
        /\ \A k \in 1 .. Len(i.data) : i.data[k] \in Byte
    BY <2>2, ImageAssumption, ProgramAssumption, LenProperties
  <2> HIDE DEF f, i
  <2>4. TypeOK /\ ~halt /\ limit \in Int
    BY DEF SessionInv, SessionTypeOK
  <2>5. reg' \in [RegID -> Word] /\ NX' = i.entry
    BY <2>1, <2>3, <2>4, RegisterNumbers DEF TypeOK, NX
  <2>6. memory' \in [MemoryAddr -> Byte] /\ \A k \in 1 .. Len(i.data) : memory'[k - 1] = i.data[k]
    <3>1. \A a \in MemoryAddr : a < Len(i.data) => a + 1 \in 1 .. Len(i.data)
      BY <2>3, CapacityAssumption DEF MemoryAddr
    <3>2. memory' \in [MemoryAddr -> Byte]
      BY <2>1, <2>3, <2>4, <3>1 DEF TypeOK
    <3>3. \A k \in 1 .. Len(i.data) : k - 1 \in MemoryAddr /\ k - 1 < Len(i.data) /\ k - 1 + 1 = k
      BY <2>3, CapacityAssumption DEF MemoryAddr
    <3> QED BY <2>1, <3>2, <3>3
  <2>7. TypeOK'
    <3>1. stack' \in [StackAddr -> Word] /\ halt' \in BOOLEAN /\ error' \in Errors
      BY <2>1, <2>4, <2>5 DEF TypeOK
    <3>2. /\ prog' \in Program /\ lim' \in Int /\ frames' \in 1 .. FrameCapacity
          /\ mode' \in Modes
      BY <2>1, <2>3, CapacityAssumption DEF Modes
    <3> QED BY <2>5, <2>6, <3>1, <3>2 DEF TypeOK
  <2>8. RunsStartFromWholeImages'
    <3>1. Loadable(disk'[p]) /\ disk'[p].units = Units(disk'[p].image)
      BY <2>1, <2>2 DEF f, i
    <3>2. /\ prog' = disk'[p].image.insts /\ NX' = disk'[p].image.entry
          /\ \A k \in 1 .. Len(disk'[p].image.data) : memory'[k - 1] = disk'[p].image.data[k]
      BY <2>1, <2>5, <2>6 DEF f, i
    <3> QED BY <3>1, <3>2 DEF RunsStartFromWholeImages
  <2> QED BY <2>1, <2>4, <2>7, <2>8 DEF SessionInv, SessionTypeOK, MachineInv
<1> QED BY <1>1, <1>2

(* On the menu the machine stays as it is.                                     *)
LEMMA MenuKeepsInv ==
  ASSUME SessionInv, at # "exec", UNCHANGED vars, at' = "menu", disk' \in [Path -> File],
         cmd' \in Commands \cup {NoCommand}, limit' \in Int
  PROVE  SessionInv'
<1>1. UNCHANGED <<reg, stack, memory, prog, halt, lim, frames, error, mode>>
  BY DEF vars
<1>2. TypeOK' /\ MachineInv' /\ ~halt'
  BY <1>1 DEF SessionInv, SessionTypeOK, MachineInv, TypeOK
<1> QED BY <1>2 DEF SessionInv, SessionTypeOK, RunsStartFromWholeImages

LEMMA SystemKeepsInv ==
  ASSUME SessionInv, at = "menu", NEW c \in Commands \cup {NoCommand}, System(c)
  PROVE  SessionInv'
<1>1. disk' \in [Path -> File]
  BY CommandsLeaveFiles DEF System, SessionInv, SessionTypeOK
<1>2. Ends \/ (at' = "menu" /\ cmd' = c /\ UNCHANGED <<vars, limit>>)
  BY DEF System
<1> QED BY <1>1, <1>2, EndsKeepsInv, MenuKeepsInv DEF SessionInv, SessionTypeOK

LEMMA SystemThenExecKeepsInv ==
  ASSUME SessionInv, at = "menu", NEW c \in Commands, NEW p \in Path, SystemThenExec(c, p)
  PROVE  SessionInv'
<1>1. disk' \in [Path -> File]
  BY CommandsLeaveFiles DEF SystemThenExec, SessionInv, SessionTypeOK
<1>2. Ends \/ (Exec(disk', p) /\ (at' = "exec" => cmd' = c))
  BY DEF SystemThenExec
<1> QED BY <1>1, <1>2, EndsKeepsInv, ExecKeepsInv

(* The first instruction's frame is never a later one's.                       *)
LEMMA RunningTakesFrames ==
  ASSUME TypeOK, Step, mode' = "running"
  PROVE  frames' # 1
<1>1. \A e, h : Drive(e, h) => frames' # 1
  BY DEF Drive, TypeOK
<1> QED BY <1>1, StepDrives DEF Killed, Wild

LEMMA RunStepKeepsInv ==
  ASSUME SessionInv, RunStep
  PROVE  SessionInv'
<1>1. /\ TypeOK /\ MachineInv /\ Step /\ at = "exec" /\ at' = at /\ disk' = disk /\ cmd' = cmd
      /\ limit' = limit
  BY DEF RunStep, session, SessionInv, SessionTypeOK
<1>2. TypeOK' /\ MachineInv'
  BY <1>1, MachineInvInductive DEF MachineInv
<1>3. RunsStartFromWholeImages'
  BY <1>1, RunningTakesFrames DEF RunsStartFromWholeImages
<1> QED BY <1>1, <1>2, <1>3 DEF SessionInv, SessionTypeOK

LEMMA BackToMenuKeepsInv ==
  ASSUME SessionInv, BackToMenu
  PROVE  SessionInv'
<1>1. /\ reg' = [reg EXCEPT ![REG_NX] = 0] /\ halt' = FALSE /\ at' = "menu"
      /\ UNCHANGED <<stack, memory, prog, lim, frames, error, mode, disk, cmd, limit>>
      /\ mode = "returned"
  BY DEF BackToMenu
<1>2. TypeOK /\ lim < 0
  BY DEF SessionInv, MachineInv
<1>3. reg' \in [RegID -> Word]
  BY <1>1, <1>2, WordFacts, RegisterNumbers DEF TypeOK
<1>4. TypeOK'
  BY <1>1, <1>2, <1>3 DEF TypeOK
<1> QED BY <1>1, <1>2, <1>4 DEF SessionInv, SessionTypeOK, MachineInv,
                                RunsStartFromWholeImages
-----------------------------------------------------------------------------
(* Each action of the session keeps the invariant.                             *)
LEMMA SNextInv == SessionInv /\ [SNext]_svars => SessionInv'
<1> SUFFICES ASSUME SessionInv, [SNext]_svars PROVE SessionInv'
  OBVIOUS
<1>0. /\ disk \in [Path -> File] /\ cmd \in Commands \cup {NoCommand} /\ limit \in Int
      /\ Commands \subseteq Commands \cup {NoCommand}
  BY DEF SessionInv, SessionTypeOK
<1>1. CASE StartVm
  <2>1. limit' \in Int
    BY <1>1, LimitAssumption DEF StartVm
  <2> QED BY <1>0, <1>1, <2>1, MenuKeepsInv DEF StartVm
<1>2. CASE ExecSm
  <2>1. PICK p \in Path : Exec(disk, p) /\ (at' = "exec" => UNCHANGED cmd)
    BY <1>2 DEF ExecSm
  <2>2. at = "menu" /\ disk' = disk /\ Exec(disk', p)
    BY <1>2, <2>1 DEF ExecSm
  <2> QED BY <1>0, <2>1, <2>2, ExecKeepsInv
<1>3. CASE AssembleSasm \/ DisassembleSm
  BY <1>0, <1>3, SystemKeepsInv DEF AssembleSasm, DisassembleSm
<1>4. CASE AssembleExecSasm
  <2>1. PICK c \in Commands : c.kind = "assemble" /\ SystemThenExec(c, c.out)
    BY <1>4 DEF AssembleExecSasm
  <2>2. c.out \in Path
    BY <2>1 DEF Commands
  <2> QED BY <1>4, <2>1, <2>2, SystemThenExecKeepsInv DEF AssembleExecSasm
<1>5. CASE CustomCmd
  <2>1. at = "menu"
    BY <1>5 DEF CustomCmd
  <2>2. CASE System(cmd)
    BY <1>0, <2>1, <2>2, SystemKeepsInv
  <2>3. CASE \E c \in Commands : System(c)
    BY <1>0, <2>1, <2>3, SystemKeepsInv
  <2>4. CASE \E c \in Commands, p \in Path : SystemThenExec(c, p)
    BY <2>1, <2>4, SystemThenExecKeepsInv
  <2> QED BY <1>5, <2>2, <2>3, <2>4 DEF CustomCmd
<1>6. CASE ExitVm \/ RunDies
  BY <1>0, <1>6, EndsKeepsInv DEF ExitVm, RunDies
<1>7. CASE RunStep
  BY <1>7, RunStepKeepsInv
<1>8. CASE BackToMenu
  BY <1>8, BackToMenuKeepsInv
<1>9. CASE UNCHANGED svars
  <2>1. UNCHANGED <<reg, stack, memory, prog, halt, lim, frames, error, mode, at, disk, cmd, limit>>
    BY <1>9 DEF svars
  <2>2. TypeOK' /\ MachineInv'
    BY <2>1 DEF SessionInv, MachineInv, TypeOK
  <2>3. RunsStartFromWholeImages'
    BY <2>1 DEF SessionInv, RunsStartFromWholeImages, NX
  <2> QED BY <2>1, <2>2, <2>3 DEF SessionInv, SessionTypeOK
<1> QED BY <1>1, <1>2, <1>3, <1>4, <1>5, <1>6, <1>7, <1>8, <1>9 DEF SNext

(* The machine and the session around it keep their types.                     *)
THEOREM SessionTypes == SSpec => []SessionTypeOK
<1>1. SessionInv => SessionTypeOK
  BY DEF SessionInv
<1> QED BY <1>1, SInitInv, SNextInv, PTL DEF SSpec

(* However assemblies fail and disassemblies overwrite, a run starts with the  *)
(* program, the entry point and the data of one image.                         *)
THEOREM RunsStartWhole == SSpec => []RunsStartFromWholeImages
<1>1. SessionInv => RunsStartFromWholeImages
  BY DEF SessionInv
<1> QED BY <1>1, SInitInv, SNextInv, PTL DEF SSpec

(* What makes executeProgram return in a run: SHUTS, or a store behind the     *)
(* last register.                                                              *)
ReturnsWell == /\ error' = "ERR_OK"
               /\ Fetchable
               /\ Inst.op = "SHUTS" \/ (Inst.op \in StoresByNumber /\ StoredReg = REG_COUNT)

LEMMA ReturnOfARun ==
  ASSUME MachineInv, mode = "running", Step, mode' = "returned"
  PROVE  ReturnsWell
<1>1. ~halt /\ lim # 0 /\ TypeOK
  BY DEF MachineInv
<1>2. \A e, h : Drive(e, h) => h /\ error' = e
  BY <1>1 DEF Drive
<1>3. ~Fail /\ ~Killed /\ ~Wild
  BY <1>1, <1>2 DEF Fail, Killed, Wild
<1>4. ASSUME NEW ops, Executes(ops) PROVE ReturnsWell
  <2>1. Drive("ERR_OK", halt \/ Inst.op = "SHUTS") /\ Fetchable
    BY <1>1, <1>4, ExecutesFacts DEF Executes
  <2>2. (halt \/ Inst.op = "SHUTS") /\ error' = "ERR_OK"
    BY <1>2, <2>1, Zenon
  <2> QED BY <1>1, <2>1, <2>2 DEF ReturnsWell
<1>5. ASSUME NEW ops, NEW w, ops \subseteq StoresByNumber, Passes(ops), Stores(w)
      PROVE  ReturnsWell
  <2>1. Fetchable /\ Inst.op \in StoresByNumber
    BY <1>1, <1>5, PassesFacts
  <2>2. Drive("ERR_OK", IF StoredReg = REG_COUNT THEN w % 2 = 1 ELSE halt)
    BY <1>5 DEF Stores
  <2> DEFINE h == IF StoredReg = REG_COUNT THEN w % 2 = 1 ELSE halt
  <2>3. Drive("ERR_OK", h)
    BY <2>2
  <2>4. StoredReg # REG_COUNT => (h <=> halt)
    OBVIOUS
  <2> HIDE DEF h
  <2>5. h /\ error' = "ERR_OK"
    BY <1>2, <2>3, Zenon
  <2>6. StoredReg = REG_COUNT
    BY <1>1, <2>4, <2>5
  <2> QED BY <2>1, <2>5, <2>6 DEF ReturnsWell
<1> QED BY <1>3, <1>4, <1>5, StepIsDriven

(* A run ends in the menu without an error, through its own SHUTS or its own   *)
(* store into the flags, and nothing else.                                     *)
THEOREM ShutsReturns == SSpec => OnlyShutsReturns
<1>1. ASSUME SessionInv, [SNext]_svars
      PROVE  [at = "exec" /\ mode = "running" /\ mode' = "returned" => ReturnsWell]_svars
  <2> SUFFICES ASSUME SNext, at = "exec", mode = "running", mode' = "returned"
               PROVE  ReturnsWell
    BY <1>1
  <2>1. RunStep
    BY DEF SNext, StartVm, ExecSm, AssembleSasm, AssembleExecSasm, DisassembleSm, CustomCmd,
           ExitVm, BackToMenu, RunDies
  <2> QED BY <1>1, <2>1, ReturnOfARun DEF RunStep, SessionInv
<1>2. SSpec => []SessionInv
  BY SInitInv, SNextInv, PTL DEF SSpec
<1>3. SSpec => [][at = "exec" /\ mode = "running" /\ mode' = "returned" => ReturnsWell]_svars
  BY <1>1, <1>2, PTL DEF SSpec
<1> QED BY <1>3 DEF OnlyShutsReturns, ReturnsWell
================================================================================
