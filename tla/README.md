# TLA+ models of Virex

Virex is a virtual machine with an operand stack (`VM/`), an assembler for it
(SASM, `SASM/`), the beginning of a compiler for a small language (Orin, `O/`)
and a library of strings, regions and hash tables (`libs/`). This directory
holds TLA+ models of the parts in which something can go wrong over several
steps, what TLC checks of them on small instances, and what TLAPS proves of
them for every value of their constants.

All source paths are relative to the repository. Every definition that models
code is listed in `PROJECT.json` under `map` with the lines it stands for.

## 1. The system

| Component | State | Operations | Talks to |
|---|---|---|---|
| **Virex VM** `VM/src/virex.c`, `virex_vmcalls.c` | 19 registers (NX and SP are two of them), 1024 stack words, 65536 bytes of memory, the program, the flag META_HALT | `executeProgram` drives `executeInst`; VM calls `alloc`, `dealloc`, `write`, prints | the session, through the machine it is given and the flag |
| **Session** `VM/main.c`, `VM/src/virex_assembler.c`, `SASM/sasm.c` | the one static machine, the command buffer, the limit; the files | menu choices, loader, assembler and disassembler run as child processes | the VM by calls, the assembler through files and exit codes |
| **SASM assembler** `SASM/src/sasm_assembler.c`, `sasm_binding.c`, `sasm_expressions.c` | scopes with bindings, noted operands, instructions, data memory, string lengths, entry point | two passes over each chain of statements, includes, evaluation of operands and constants | the parser's tree in, an image out |
| **SASM text** `sasm_tokenizer.c`, `sasm_lexer.c`, `sasm_parser.c`, `univ_strings.c` | what is left of a file, one cached line and one cached token, the blocks being read | splitting, tokens and expressions; lines to statements, nested `%scope` bodies | the assembler, which calls it for every file |
| **Region allocator** `libs/src/univ_malloc.c` | a chain of partitions, the one allocated from last | allocate, expand, `clearGarbage` | everything in SASM |
| **Hash table** `libs/src/univ_hashmap.c` | slots with chains of nodes, a count | insert with resize, retrieve, delete, destroy | Orin's lexer and symbol table |
| **Orin front end** `occ.c`, `O_lexer.c`, `O_parser.c`, `O_symbol_table.c` | the text and a place in it, the tokens and their room, a place in them, a tree of symbol tables | one branch of the lexer for each class of tokens; one parsing function for each construct, declarations and uses in nested scopes | the hash table |
| **Orin middle** `O_inter_codegen.c`, `O_inter_code_optimizer.c` | a list of three-address instructions, counters of temporaries and labels | generation, then eight passes: folding, propagation, dead code, ... | the front end's tree in; nothing reads the list yet |
| **Terminal interface, strings, files, messages, drawing** | windows, none, none | pure I/O and stateless helpers | everybody |

Nothing runs in parallel: there are no threads, and child processes are waited
for. What is hard is elsewhere:

* **state that outlives its step** - the machine is zeroed once, when the process
  starts, and run after run finds what the last left; main's command buffer keeps
  the last command; partitions are reused in an order that depends on sizes;
* **deferral** - labels are placed in the second pass over a chain, operands are
  evaluated after everything is walked, constants when an operand first wants
  them, and evaluating may store strings and reserve memory;
* **failure half-way** - an executable is written in three parts into its final
  place, and the loader overwrites the machine part by part;
* **limits and numbers** - many fixed arrays, each with a check of its own or
  none; unsigned differences; bounds that differ by the width of an access;
  recursion where C's stack is the only bound.

What makes each part correct: to a program that names its registers the machine is a
stack machine; its stores stay in its arrays but for a few that nothing checks; runs
come to an end when they should; a run starts from
one whole image; an image means what its source says; blocks belong to one
client each and keep their bytes; a hash table is a dictionary that frees what
it owns once; three-address code does what the program does, before and after
the optimizer.

## 2. Modules

```
StackMachine <==(refinement)== VirexVM <--EXTENDS-- VirexSession <-- MCVirexSession
                                  ^                  ^--- VirexProofs
                                  +--- MCVirexVM
SasmAssembler <-- SasmMeaning <-- MCSasm
                       ^--- SasmAssemblerProofs --> Induction
SasmTokens <-- SasmParser <-- SasmTextMeaning <-- MCSasmText
                    ^--- SasmParserProofs --> Induction
Region    <-- MCRegion,    RegionProofs --> Induction
Dictionary <==(refinement)== HashTable <-- MCHashTable
                                 ^--- HashTableProofs --> Induction
OrinTokens <-- OrinLexer, OrinParser <-- OrinFront <-- OrinFrontMeaning <-- MCOrinFront
                                              ^--- OrinFrontProofs --> Induction
OrinTac <-- OrinMeaning <-- MCOrin
                 ^--- OrinProofs --> Induction
```

**VirexVM** is the machine. One action per group of cases of `executeInst` that
have the same shape (`Push`, `Jump`, `Call`, `Write`, ...), each with the checks
of the code in their order: the fetch's bound, then the instruction's own.
`Drive` is the rest of `executeProgram`: the limit and META_HALT are looked at
before the error, and otherwise the procedure calls itself, which takes a frame
of the C stack (`frames`, bounded by `FrameCapacity`): the build is `gcc -O3`,
and the addresses of its locals are taken, so that the call stays a call. `mode`
says how a run has ended: returned, exited with an error, out of C stack,
killed by a signal, or "wild", after a store outside its array, from where the
model claims nothing. A word is eight bytes of `ByteSize` values, so word and
byte arithmetic, two's complement and little-endian memory keep their shape for
any byte size. Doubles, the bit operators and pointers are abstracted to "some
word". A program is any sequence of instructions: the parser takes every expression
for an operand that should name a register, the assembler stores its value
(`sasm_assembler.c:181,193`) and the machine indexes with it, none of them checking
(`virex.c:288,294,304,309,322-327`). So `StoredReg` may be NX, SP, the flags behind the
last register (`Stores`), or a number past them, which is "wild"; `RegWords` and
`Words` are what may be read where the array has ended. `RegIdSize` is the width of the
enumeration that `getReg` cuts a number to, while SETR indexes with all of it.

**StackMachine** is the promise: a bounded stack of words and a next
instruction. For each opcode it says how many words are asked for, how many are
taken, which are left and where the machine goes. `OperandStack` in VirexVM maps
the slots below SP to it. It is promised to programs that store only into registers
they name, other than NX and SP (`NamedProgram`). Nothing enforces that, so it is the
premise of `ImplementsStackMachine` and `CountedLoopsEnd` and no assumption.

**VirexSession** extends the machine with main's menu, the files, the loader and
the child processes. An assembly leaves any prefix of an executable when it
fails, a command that fails ends the VM too, and only a run goes on by itself.

**SasmAssembler** is the assembler from the parser's tree to the image. `calls`
is the recursion of `translateSasmStatementChain` and `translateSasmFile`;
`eval` that of `evaluateExpression`, `evaluateBinding` and `resolveFuncall`; each
step of either is an action. Scopes are numbered in the order they are made.
Integer, float and character literals are one kind. The end of an assembly is
told apart: an error message (`failed`), an assertion about an array's room
(`aborted`), an assertion about the assembler's own doing (`broken`), no C stack
for another include (`overrun`), the unchecked store into `stringLens` (`wild`).
**SasmMeaning** reads off the source what the image should be: `Layout` puts a
file's statements in order by recursion over the tree, `Means` says what an
expression may come to, a constant in the scope of any operand inside its own;
neither runs the assembler.

**SasmTokens** is what the assembler's text goes through without a state of its
own: `trim` and `splitStrByChar`, the tokenizer, numbers and registers, and the
expression parser as a recursive function of what is parsed and where. A text is
a sequence of glyphs; a word of which only the length matters is one glyph with
a `Size`. **SasmParser** is the state: `FetchLine` is one round of the loop that
fills the cached line, then there is one action per kind of line, with its
reading, pushing and moving on. `blocks` are the calls of
`getCodeBlockFromLines`, which a `%scope` nests. Its statements have the shape
that SasmAssembler takes.
**SasmTextMeaning** says what a text means in another way: `Readings` cuts a
text everywhere it could be cut and collects what it may be read as, without
tokens or a place to go on from.

**Region** is the allocator. Partitions are numbered as they are created,
`chain` is the linked list, `live` the blocks handed out since everything was
last taken back, `written` the bytes with a client's content; a zeroing takes
them away. `AllocExpand` covers the recursive call after an expansion. Sizes are
`size_t`, whose sums are taken modulo `SizeT`; `Heap` is the most malloc has for
one partition. `AllocTooLarge` is what a size beyond that leads to, always the
end of the process: malloc's null pointer or nearly all of memory is zeroed.

**HashTable** has the table's fields with the `hashFunc` it was given, and for
each key and value object how often it has been freed. `Resized` relinks nodes
as `resizeHashTable` does, slot by slot and each to the front. **Dictionary**
is what its users rely on. Both keep the last `call` with its key and value, so that
the two are compared call by call: which key an answer is for, and that an insert
that was asked for is done.

**OrinTokens**, **OrinLexer**, **OrinParser** and **OrinFront** are the front of
the Orin compiler. The lexer has one action for each branch of its loop; the
skipping of comments belongs to the action of the token behind it, because that
is where the code looks for neither a blank nor another comment. The list of
tokens has its room (`numberOfTokens`), which grows as in the code by a count
that includes newlines. The parser's call stack is `goals`, what is still to be
done: a token to be matched, a function to be called with its scope, a tree to
be put together. `scopes` is the tree of symbol tables, numbered as they are
made, each the names that HashTable's dictionary would hold.
A token's value is its bare text (`Joined`): the string "x", the character 'x' and
the name x have one value and differ in their types. Stores into the lexer's fixed
buffers without room, the prefix that `printParseTree` spells in front of a node of an
accepted program (`PrefixRoom`, 256 bytes, four for each level), and values never set
lead to either outcome: nothing is noticed, or the process is "wild".
**OrinFrontMeaning** holds what the front end is compared with: the texts of
given tokens, the grammar of `orin_grammar.txt` as sets of phrases, and the trees of
programs.

**OrinTac** is the middle of the Orin compiler. `Generated` is the code of a parse
tree, with the counters of temporaries and labels handed through it; each pass
of `optimizeCode` is an operator from code to code and an action. Operands are
pairs of a letter and a number in place of strings, so that a user's variable
may have a temporary's name; a freed string is an operand of its own, and the
pass that compares one with a name ends "wild". Leaves are names, numerals and
literals of other types, all of which the code has as their text alone. Folding goes
through `atoi` and `computeOperation`, which work on a long and an int of the widths
`LongMax` and `IntMax`; dividing the least int by -1 may stop the compiler
("trapped").
**OrinMeaning** runs programs and code on an input, side by side: `SourceStep`
takes the first of the statements still to be executed, `CodeStep` the
instruction whose number is `next`. To the program a literal is its text (`Text` gives
each a value), to the code it is whatever the text names. Since nothing executes three-address code yet, its meaning
is the one the comments of the two files give it: an assignment takes its first
operand, a jump to what is no label does nothing. A program is followed for `Fuel`
steps, its code for a round of steps for each of them, as many as one may take.

**Induction** is no part of the system: the induction principles and the facts
about the community modules' `FlattenSeq` that the proofs share. The **...Proofs**
modules hold the theorems of section 4.

**MC...** modules and the `.cfg` files are the instances.

## 3. What TLC checks

| Run | Question | Bounds, and why they are enough |
|---|---|---|
| `vm` | Types; the machine implements StackMachine for programs that name their registers; memory is a random access memory; which stores leave an array; a counted loop ends | A prologue, an instruction and a probe. The prologues leave 0 to 3 words (empty to full) with values at the sign bit, beyond memory and in it; the instruction is every opcode with the operands that matter; the probe reads what was left, goes back or needs room. Bytes of two values keep a word at 256 values with all eight bytes; memory of 10 has room for one wide access and a second that misses. Pairs in which a loop surrounds an instruction with an arbitrary answer are left out. Stores by number go into SP, with every kind of instruction behind them, into NX, the flags and past them, and through a number that `RegIdSize` (64) cuts. |
| `vm_stack_errors` (finding) | Do all instructions report the stack errors that `univ_errors.h` lists? | as above |
| `vm_val` (finding) | Does `val(r)` read register r? | as above |
| `session` | Types; a run starts from a whole image; the menu comes back only without an error, by SHUTS or a store into the flags; every run ends | Two files, so that a disassembly may overwrite its input; five images that leave something behind: a word on a stack of two, changed data, a run that never stops, one that fails, one that stores into the flags |
| `sasm` | The image has the source's instructions and labels in order; the assembler's assertions hold; operands and entry mean what the source says; constants are evaluated once; memory is handed out once; every assembly ends | A root file, an included file and a scope's body. x and y are bound to each other, to labels, strings, reservations and calls in every combination, and used from inside and outside a scope that may bind y again; files include each other, themselves and a missing one. Each array is small enough to be filled, also `stringLens`. |
| `sasm_registers` (finding) | Do `ref` and `val` insist on a register? | as above |
| `sasm_text` | A well written file becomes the statements it says; no line is lost, read twice or out of its scope; every step gets ahead | 45 expressions, good and bad, in every place of every kind of line, each alone without a line's end and inside a scope; and every file of four lines out of eight pieces (scopes, ends, labels, an inlined entry, comments, blank lines), ended or not, with a line in front |
| `region` | Types; blocks are apart; bytes survive; overruns are padding; growth needs demand | Sizes 0, 1, 2, 3, 5 around an alignment of 2 and a default of 4, 7 beyond the heap's 6, and 14 and 15 at the end of a size_t of 16, of which one wraps in the comparison and one with its padding; three partitions, enough for `clearGarbage` to leave partitions before and behind `last` |
| `hash_table` | Types and count; the table is a dictionary; nothing is freed twice; only overwriting inserts leak their key; the load is bounded | Three keys under all 64 functions to 0..3, which tell tables of 1, 2 and 4 slots apart; four inserts make up to two resizes; deletions are not bounded |
| `orin_front` | Types; the list has room; the parser reads nothing but tokens; a use has one declaration; the tokens are those written; the sentences of `orin_grammar.txt` are accepted, but for a for's first part, and become the program they are; every text is read | Calculations of up to three operands with parentheses, all constructs in each other, declarations in all nested scopes, in layouts with blanks, newlines and both comments, and texts with a token missing or a wrong one. Literals of each type, two spelled like a variable and one like a construct. Room for four tokens in place of fifteen makes the list grow several times; room for 24 characters in front of a node in place of 256 is passed by one program and not by the others |
| `orin` | Shapes of instructions; the code does what the program does; each pass keeps it | A read, up to three statements out of 18 and a print, which bring every pass its pattern and what spoils it (a scan, a redefinition, a temporary's name); an if, while or for inside another, with and without exit, else and update; three inputs that take the branches differently; literals with the text of a number, a variable, a temporary and of nothing else; operations on numbers up to and beyond an int of 4 and a long of 5 bits. Loops count to 3, and `Fuel` is enough for all of them. |
| `orin_dead_code` (finding) | Is what dead code elimination removes never used? | as above |

What the runs say in words:

* The checks in `executeInst` keep every store inside its array except GETR's push,
  which has none, and the stores by number into a register, which are not checked
  either: past the flags they leave the registers, and one into SP makes any later
  instruction leave the stack (`OutOfBoundsStores`). No other sequence of instructions
  does. Where registers are named, every stack operation moves exactly the words it
  should, and no word above SP comes back.
* A half-written executable, a missing one, or one overwritten by a disassembly
  never starts: the loader sees it, and ends the process. META_HALT set by one
  run does not cut the next one short.
* The two passes lay labels out correctly through includes and scopes, so no
  operand can turn out deferred, and the assembler's internal assertions cannot
  fail. Constants are evaluated in the scope of whichever operand comes first, so
  one has its lexical meaning where no inner scope binds again a name that it uses,
  and otherwise the meaning in some inner scope; which, the order of the operands
  says. The length of a string whose address an empty string shares may come out as 0.
  Both register flags of an instruction follow its first operand
  (`sasm_assembler.c:194`): a `val` in the second place is fetched only if the first
  operand is a function of a register too, and a plain second operand above 19 is
  fetched then although it should not be. Memory is taken back only by a
  reservation whose sum wraps (`res(-1)`); for the operands' meaning such numbers are
  excluded (`SmallNumbers`).
* A well written assembler file is read as what it says under conditions nothing
  in the code checks (`Plain`): words are separated by blanks, not tabs; no
  string holds a semicolon; the first operand has no blank in it; no constant's
  value begins with a parenthesis, because `%bind y (5)` reads as a call of y.
  Each of them is needed: without it TLC finds the misreading. What is badly
  written never loses or doubles a neighbouring line, and never stops the parser
  from getting ahead. A `%end` too many is the file's end, without a word; line
  numbers may be too large in a file's second half.
* The allocator's zeroing goes past its block by the padding in front of it,
  and this never destroys a live byte, because whatever is behind is handed out
  later. It may leave the partition, by less than the alignment. A size that
  wraps gets a block without room for it, if it is within an alignment of 2^64,
  and ends the process otherwise; no other block's bytes are touched.
* Orin's lexer finds the tokens written where names are shorter than its buffers
  and comments stand where it looks for them (`Plain`): no tab, no `/*/`,
  nothing but a newline or a word right behind a comment. Its list has room for
  every token, and for the end of the list wherever a newline was counted. The
  parser takes exactly the sentences of `orin_grammar.txt` except for the first
  part of a for, where the two disagree and `AcceptsTheGrammar` says how: the grammar
  has a declaration or assignment with its own semicolon and another behind it, for
  every type, and the parser wants one semicolon (`O_parser.c:117,141,276`) and of
  declarations only an int's (`O_parser.c:246`). It never looks behind the last
  token, and no name has two declarations in scopes around each other. What it builds
  is the program written, with every literal's text, where no name or literal is
  spelled like a construct and no construct lies more deeply than the printed tree has
  room for (`Fitting`, 63 levels in the code).
* Orin's generated code is right however branches and loops nest, but for
  variables called `t0`, `t1`, ... and for literals: `print("x")` becomes `PRINT x`,
  so a literal whose text is a number, or the name of a variable or temporary, is
  taken for that (`NoClash`). Each pass of the optimizer is right under
  conditions of its own that nothing in the code checks (`Assumes`): propagation
  and sharing need straight-line code in which what they copy is not assigned or
  read again, dead code elimination needs code without loops, simplification no
  `0 + x` or `1 * x`, the peephole an assignment that does not use its own
  variable, and no variable with the name of a label (its dummy jump is a jump to
  the variable). Each of them is needed: without it TLC finds a program that changes
  its meaning. Folding needs numbers and results that fit an int (`FoldsWithinInt`):
  99999999999 + 0 changes its value. Strength reduction needs nothing.

Each property has at least one mutant in `PROJECT.json`: an operator with a
plausible slip, kept beside the one it replaces, which TLC finds to violate it.

### Disagreements found

* GETR pushes on a full stack without `ERR_STACK_OVERFLOW`; DUPS below the bottom
  reports no `ERR_STACK_UNDERFLOW` (`vm_stack_errors`).
* `val([H0])` is 19, not the register's content: the test is `> REG_COUNT`
  (`vm_val`).
* "ERROR: ref expects a register" is printed and the assembly goes on
  (`sasm_registers`).
* Dead code elimination looks for uses only behind an assignment, and removes
  what the next round of a loop uses (`orin_dead_code`).

Noted while reading, without a run: MULU adds (`virex.c:393`); the limit of `-l`
is parsed and never used (`main.c:130`); the menu's "ORIN build and exec" formats
no command and runs the previous one (`main.c:82`); choosing to compile Orin ends
the VM (`main.c:109`); a stray `%end` silently drops the rest of a file
(`sasm_parser.c:395`); line numbers in messages may be too large
(`univ_strings.c:55`); a number that is none is reported and becomes a binding
(`sasm_parser.c:72`); no operand is checked to be a register (`virex.c:304`); the
second register flag is set by the first operand (`sasm_assembler.c:194`); a string is
the variable of its text in the generated code (`O_inter_codegen.c:202`); folding cuts
numbers to int (`O_inter_code_optimizer.c:81`); `orin_grammar.txt:48-49` gives a for's first
part every type and a semicolon of its own, `parseForInit` takes neither; a variable or
literal spelled ASSIGNMENT or DECLARATION as a for's condition is taken for its first part
(`O_inter_codegen.c:143`); a tree of more than 63 levels overruns its printed prefix
(`O_debug_help.c:90`); variables of one name in disjoint scopes are one variable in
the generated code; `SymbolEntry.type` is never used. `updateSymbol`,
`destroySymbolTable`, `freeParseTree` and `cleanRegion` have no caller.

### Fairness and deadlock

`VirexVM!FairSpec` and `VirexSession!SSpec` assume weak fairness of a run's next
instruction and nothing else: `executeProgram` waits for nobody, while every
menu choice is the user's, who may stay away. `SasmAssembler!Spec` assumes it
of the assembler's next step, and `OrinFront!FairSpec` of the compiler's: both
are programs that wait for nobody. `SasmParser` needs none: `EveryStepGetsAhead`
is an action property, by which nothing can be read for ever. The region and the hash table only answer calls,
and have no fairness; neither has `OrinTac`, of which only safety is checked. Deadlock is not checked, since all of these may stop:
a run or an assembly ends, the passes are through, a table is destroyed, the bounds on inserts and
partitions are reached.

## 4. What is proved

| Theorem | Says, for every value of the constants |
|---|---|
| `VirexProofs!VirexTypes` | whatever the program, no register, slot or byte leaves its range |
| `VirexProofs!VirexOutOfBoundsStores` | whatever the program, a store leaves its array only as GETR's on a full stack, as one into a register past the flags, or after a store into SP by its number |
| `VirexProofs!VirexMemory` | what a WRITE stores a READ of its width gives back, no other byte changes and no other instruction changes any |
| `VirexProofs!VirexImplementsStackMachine` | every run of a program that names the registers it stores into is one of StackMachine: what is taken, left, reported and executed next |
| `VirexProofs!SessionTypes` | files, commands and the machine keep their types through runs, failures and restarts |
| `VirexProofs!RunsStartWhole` | a run starts with one image, all of it, that is whole on the disk |
| `VirexProofs!ShutsReturns` | the menu comes back without an error, by a program's own SHUTS or its store into the flags |
| `RegionProofs!RegionTypes` | the chain has no repetition, partitions are filled within their capacity |
| `RegionProofs!BlocksExclusive` | blocks lie aligned, and but for sizes within an alignment of 2^64 inside partitions and apart |
| `RegionProofs!BytesSurvive` | no zeroing reaches a live block's bytes, whatever wraps |
| `RegionProofs!OverrunsArePadding` | a zeroing leaves its partition only behind an unaligned filling |
| `RegionProofs!GrowthIsNeeded` | a partition is added only when one of the default capacity would not hold what is handed out |
| `HashTableProofs!TableTypes` | the table's types; the count is the number of nodes |
| `HashTableProofs!TableFreesOnce` | no key or value object is freed twice, and none that the table holds |
| `HashTableProofs!TableLeaksUnownedKeysOnly` | what a destroyed table has not freed are key objects of overwriting inserts |
| `HashTableProofs!LoadBounded` | the load passes three quarters by one node at most |
| `HashTableProofs!TableIsDictionary` | every run of the table is one of Dictionary, call by call with its key and value, whatever collides and is resized |
| `SasmAssemblerProofs!AssemblerTypes` | every number of a scope, instruction, operand or word of memory is one there is; no array is written behind its end |
| `SasmAssemblerProofs!AssertionsNeverFail` | none of the assembler's assertions fails, however scopes and files nest or recur |
| `SasmAssemblerProofs!ConstantsEvaluatedOnce` | an evaluated binding never changes |
| `SasmAssemblerProofs!MemoryIsKept` | bytes handed out stay; only a `res` whose sum wraps takes memory back |
| `SasmAssemblerProofs!ProgramLaidOut` | after the walk the program, its operands and its labels are what reading the source in order lays out |
| `SasmParserProofs!ParserGetsAhead` | each step of the assembler's parser ends it, leaves a line behind or leaves less of the file: no text is read for ever |
| `OrinFrontProofs!FrontTypes` | tokens, goals, scopes and nodes of Orin's front end keep their types, and the lexer stays in its text |
| `OrinFrontProofs!NamesDeclaredOnce` | no scope around a construct to be parsed declares a name of another around it |
| `OrinFrontProofs!TokensAlwaysFit` | Orin's lexer never stores a token without room, nor the list's end where a newline was counted |
| `OrinFrontProofs!ParserReadsOnlyTokens` | Orin's parser never looks behind the last token |
| `OrinProofs!OrinCodeIsWellFormed` | generator and passes leave instructions with the operands they need and no others |
| `OrinProofs!OptimizedCodeMeansTheSame` | each pass of the optimizer, where what it takes for granted holds, keeps what the code prints and how it ends; of folding, that its numbers and results fit an int |
| `OrinProofs!GeneratedCodeMeansItsSource` | the code generated for a program does what the program does, however its statements are nested, if no literal's text and no variable clashes with another name |

*Assumptions.* The machine's are `ByteAssumption` (a byte has two values at
least, and the powers of its size up to the eighth are positive numbers, 1 at 0 and
each the one before it times the size: arithmetic of `^` that the provers' theories lack), `CapacityAssumption` (capacities
below the word size; two times 19 fits a word, and a RegID holds more than 19) and
`ProgramAssumption`: programs are sequences of instructions that fit. What an
instruction's operands are is not assumed.
The region's are that the alignment is positive, sizes are below `SizeT`, and the
heap, at least a default partition, is less than half of it (`HeapAssumption`:
no machine has 2^63 bytes). The table's (`TableAssumption`) are that hashes are
naturals, its initial sizes positive and NULL is no object. The assembler's say what
its parser and its opcodes give it: capacities are below the word size, an opcode has two operands
at most and 0 is a character (`SizesAssumption`), expressions are literals,
names or calls with arguments (`ExprAssumption`), and a file's statements have
the shapes of the parser's, with a `%scope`'s body among the blocks, of which a source has finitely many
(`SourceAssumption`). Its texts are sequences of glyphs of one character or more
(`TextsAssumption` of SasmParser). Orin's lexer reads texts made of its values
(`TextsAssumption`), among which are the marks it asks for by name
(`MarksAssumption`), and its list has room for two tokens at first
(`RoomAssumption`: it grows by half, and one and a half of one is one). The code generator's
programs are finite trees of the parser's shapes, whose names are no numbers
(`TreesAssumption`), an int is no wider than a long (`WidthsAssumption`), their inputs are
numbers (`InputsAssumption`), and each literal that is no numeral has a value
(`TextAssumption`). TLC evaluates all of them in the runs.

*The machine.* `TypeOK` is inductive by itself: SP may be any word, and each
action's guard says what its store needs, a check of the code or `LeavesItsArray`,
which takes the machine to "wild" instead. The proof has one step per action. That SP
is beyond the stack only in a program that stores into it is `StackInv`: the
instructions that store by number are the only ones that write SP other than by the
steps that keep it in range, and `SetsSp` finds them in the program, also where a
`val` supplies the number. `VirexOutOfBoundsStores` follows from the two: a store that
leaves its array contradicts the action's check in every other case, for all widths of
WRITE and all pushes but GETR's.

`VirexMemory` is arithmetic for the most part. A READ gives back every word below the
power of its width whose bytes are those in memory, and the theorem says that
after a WRITE this is one word. The number of a word's n + 1 low bytes is that
of n and the next byte times its power (`LowGrows`), and division has one answer
(`DivisionIsUnique`), so two words agree in their n low bytes exactly when those
make the same number (`BytesMakeTheNumber`). From `WriteFacts`, by which
a WRITE's bytes are all in the memory, the rest follows.

`VirexImplementsStackMachine` rests on `StackInv`, by which SP is within the stack, and
on `MachineInv`: the types, a limit below 0
(so that it never ends a run) and META_HALT down while the machine runs; without
these `executeProgram` could return where StackMachine goes on. The operand
stack is a function of the slots and SP (`Slots`), and four lemmas say what it
becomes when a word is stored at its end, when words are taken, when the top is
replaced and when two slots are exchanged. `SameChecks` shows the machine's checks to be
StackMachine's, which is where the wrapped difference in DUPS needs care, and
`AbstractSteps` what StackMachine allows for each kind of instruction. One
lemma for each kind then compares the two. The theorem is about the two holes
as well: they are in the promise because they are in the code.

*The session.* None of its invariants is inductive alone. `SessionInv` joins them
with `MachineInv` and with META_HALT being down whenever no program runs, which
is what `BackToMenu`'s reset is for: without it a second run would return after
its first instruction. A run's first state is the only one with a single frame
(`RunningTakesFrames`), so what the loader left need not be kept any further.

*The region.* `BlocksAreExclusive` is not inductive: it says nothing of where
the next block goes. `RegionInv` adds `Contents`, that every live block lies
below its partition's `size` and keeps its bytes, and `FreshUnfilled`, that
partitions not yet created are empty. What wraps is kept out by two lemmas:
`RealSizeProperties`, that block and padding only wrap for a `Hollow` size, and
`FitsTruly`, that where no more than a partition is zeroed, seeming to have room
is having it. From `Contents` a new block, which begins at or after
`size`, is apart from all, and so is its zeroing.
`GrowthNeedsDemand` sums over the blocks: `DemandIsSum` and `DemandGrows` say that the
fold is a sum and what one block more adds, and `GrowthInv` adds that the
partition allocated from is not filled farther, rounded, than the sum, that
none is smaller than the default, and that a region once made is never without
partitions. It needs again what wraps: a hollow block adds nothing to the sum, and
takes less than the padding it stands behind.

*Induction.* What a recursive function or a fold computes takes induction. The
library's induction theorems have an operator for a parameter, which the provers
cannot instantiate; with a set for it they can. `NaturalInduction` is about a set
of naturals with 0 and the successors of its members, and follows from the
least element of a set that well-foundedness gives. `ClimbDefines` and
`RecursionDefines` show that a function with the recursion's equations exists, for
`g[i]` from `g[up[i]]` with `up[i] < i` (the way up a tree of scopes) and from
`g[i - 1]` (a fold). `FlattenLists` says that `FlattenSeq` lists the elements of
its chains, each once if it is in them once; `SumsExist` and `SumsAreUnique` that
a fold of sums over a set comes to the same in whatever order it is taken.

*The hash table.* A node list is known by what is `In` it and that it holds it
`Once`; the lemmas say what prepending, removing and replacing make of the two.
`Chains` says that each chain is such a list of nodes in the slot of their hash,
no two of one key. From there on a table is the set of its nodes (`NodeSet`):
`ResizedKeeps` shows that the relinking, node by node and slot by slot, loses and
doubles nothing, and `InsertEffect`, `DeleteEffect` and `LookUp` say once for each
operation what it does to that set. `TableInv` adds that the count is the set's size and
where each object is (`Accounted`, `OwnObjects`): held by one node and never freed,
freed once, or the key of an overwriting insert. Neither `FreedOnce` nor the leaks are inductive without it. A
resize doubles the slots, and then 4(count + 1) is at most 3 * 2n + 4, which is
`LoadIsBounded`. For the refinement the dictionary is a function of the node set
(`DictOf`), and a set with a node more or less is a dictionary with a key more or
less.

*The assembler.* `AssertionsHold` needs to know at a label met in the second pass
that the first pass of the same call has bound it in this scope, that it is
DEFERRED still and nobody else's; and before the operands that no label is left
deferred, in any scope. `AssemblerInv` is the conjunction of seven parts: the
walk's calls stand in the source (`WalkOK`); scopes form a tree whose bindings
have the type their status allows (`ScopesOK`); instructions, operands and data
stay in their arrays (`CodeOK`, `DataOK`); the evaluations in progress have each
marked a binding of their own (`EvalOK`, `MarksOK`), which is why a name met
while it is evaluated is noticed and why no evaluated one is set again; and
(`PassesOK`) each call of the walk has its scope, in which exactly the labels
that it has bound and not yet placed are deferred. An included file is walked in
its includer's scope, a `%scope` in one of its own, so a scope may await the labels
of several calls; they are apart, because a name that is bound again is an error.
One lemma for each action and part follows. `MemoryIsKept` needs of it that
memory's size and an answer are naturals: a string is written behind the size
there was, and only `res` may have it wrap.

`ProgramIsLaidOut` compares the walk with `Layout[n]`, which follows n blocks inside
each other. Its invariant `LayoutInv` says where each call of the walk stands in the
layout: behind what its caller had laid down, behind the files it includes
and behind its own statements so far. `Matches` says that the instructions,
operands and placed labels are those of what is laid down. Which depth is enough?
`Nest[n]` are the blocks that nest less than n deep, those that name only blocks of
`Nest[n - 1]`. A block that has been walked to its end is among them, since all it
names have been walked before it. The sets grow until they stop, at the latest at the
number of blocks there are (`NestedIsClosed`), and from there on the layout stays the
same (`LayoutSettles`). A source whose files include each other for ever never gets there: its walk
overruns the stack. After the walk only constants are bound anew, and
`LabelWaits` gives every label's place. `FlattenGrows` and
`FlattenAppend` of Induction are the steps along the lists.

*The assembler's text.* `splitStrByChar` may leave the delimiter in the rest, to be
found first again. `SplitGetsAhead` shows that this happens once at most: where nothing
stands before the delimiter the lengths differ, because every glyph has one
(`LengthIsPositive`, an induction along the fold that `Length` is), and it is taken; where something
does, the rest is shorter already. What remains is the empty file, whose line has
no content (`NoContent`). `SourceInv`, that what is left of the file is made of its
glyphs, is all the invariant that `ParserGetsAhead` needs.

*The Orin front end.* `LexerInv` keeps the lexer in its text or at the zero
behind it, and the room at least what was counted: each round counts one more and
grows by half when needed, so it never falls behind. `ReadsOnlyTokens` needs an
invariant about the parser's calls: the list ends with END_OF_TOKENS and has it
nowhere else, and no goal ever matches it; so a token is only taken where another
is behind it.

`DeclaredOnce` is the deepest of the four. `parseDeclaration` looks the name up, then parses the
initializer, whose expression may go on at length, and inserts it after. The scopes form a tree (`Tree`), `Around` climbs it, and the proof
needs what the goals that are left have to do with each other: behind a goal that
opens or fills a scope are only goals of scopes around its own (`Nested`), so
what it declares is seen by none of them that is elsewhere in the tree; and around each goal's scope the
tables are apart (`Apart`). And it needs `DeclInv`: between look-up and
insertion the goals take from the stack of nodes and leave on it what keeps its height
(`Takes`, `Heights`), so the node inserted from is the declaration whose name was
looked up, and nothing on the way fills a table.

*The Orin middle.* The generator and three passes recurse over trees and code.
`RankedRecursion` of Induction says that a function exists that is defined from
smaller arguments; a statement's size is the rank, and `GeneratedTyped` follows
by induction on it. Each pass is then described by what it makes of one instruction
(`Becomes`), of the code instruction after instruction (`Walk`), or by where the
instructions that stay come to (`Thins`, `Begins`), and keeps instructions
well formed.

That a pass keeps the meaning is a simulation: `Simulation` says that two codes
behave the same if their states stay in a relation in which a step of the first is one
step of the second or none. `StepIs` splits an instruction into what it does,
which depends only on what its operands hold, and where it goes. For folding, simplification and strength
reduction each instruction does what it did, for folding as far as the numbers and
the result fit an `int` (`FoldsWithinInt`). For propagation and sharing, which
change the code for one assignment after another, the relation needs what has been
copied: within the assignment's reach the variable holds what it was assigned
(`PropagatedMeans`, `SharedMeans`), and the code between keeps what the next
substitution takes for granted (`PropagatedKeeps`, `SharedKeeps`). For dead
code elimination the states agree but for what no later instruction uses
(`Unused`), which needs that no jump goes back; for the peephole but for the
variable about to be overwritten (`Stale`), and labels, which neither pass removes, are
still the first of their name (`ThinLandings`, `BegunLandings`).

That the generated code means its source is shown in three steps. Every label's number
is placed once (`Marked`, `Counts`), so a jump lands where its label was placed
(`JumpsTo`). The code of an expression, wherever it lies in a program's code, ends
behind itself with the expression's value in its operand and has changed no more
than the temporaries it took (`ExprRuns`); no variable, and no literal's text, is
one of them because of `NoClash`. For statements, a place in the code *follows* the statements that are
still to be executed if it is in a set of places with their statements that is closed
under what comes next (`Follows`); a loop's set contains its own beginning again, so
that no induction over rounds is needed. One step of the program then takes the
code from a place that follows to one that does in at most `2 * Len(code) + 1` steps
(`StepRuns`), and induction over the program's steps ends the argument
(`RelatedAlways`). The proof needs of a `for` that it has its fields, which
`TreesAssumption` says.

*Only model-checked.*
* Liveness (termination of runs, assemblies and texts) and what rests on
  ENABLED: outside the prover's reach.
* `ImageMeansItsSource`: the meaning of a constant goes through the bindings of the
  state it is evaluated in.
* `AcceptsTheGrammar`, `CompilesWhatIsWritten`, `ParsesWhatIsWritten` and
  `EveryLineIsAccountedFor`: the phrases and readings they compare with are
  RECURSIVE operators, which the prover's SMT backend does not take.

## 5. What is not modelled, and the plan

Left out: the terminal interface, message texts, debug output, the drawing of
syntax trees (only that it may fail), the arithmetic of doubles and floats'
exponents, the printing VM calls' formats. They are I/O or stateless. The string
helpers are modelled where the assembler's text depends on them. The region is
modelled but for `cleanRegion`, which nothing calls; a file's reading into a
region is part of the assembler's file actions.

What could follow:

1. **Toolchain**: SasmParser's statements as SasmAssembler's files, and its image
   as the machine's program, to state in one module what a label in a text means
   to a jump. Each boundary is checked on its own now: the tree's shape is the
   same on both sides, and the machine starts with any program, which the image
   of an assembly is one of.
2. Theorem: `ImageMeansItsSource`, with a measure of how far a constant's bindings
   lead.
