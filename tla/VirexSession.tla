----------------------------- MODULE VirexSession -----------------------------
(***************************************************************************)
(* A session with the Virex VM (VM/main.c, VM/src/virex_assembler.c): the  *)
(* menu's loop, the assembler it calls as a child process, the executable  *)
(* files that pass from the one to the other, and run after run on one     *)
(* machine that is zeroed only when the process starts.                    *)
(*                                                                         *)
(* The assembler is here what main sees of it: a command that succeeds or  *)
(* fails, and what that leaves on the disk.  The instructions of a run are *)
(* the steps of VirexVM.                                                   *)
(***************************************************************************)
EXTENDS VirexVM

CONSTANTS
  Path,   \* the names of files the user types
  Images, \* what the assembler makes of the user's sources
  Limits  \* the values the flag -l is given, and -1 when it is not given

\* An image: the entry point, the program and the first bytes of memory.
ASSUME ImageAssumption ==
  \A i \in Images : /\ i.insts \in Programs
                    /\ i.entry \in Word
                    /\ i.data \in Seq(Byte)
                    /\ Len(i.data) <= MEMORY_CAPACITY
ASSUME LimitAssumption == Limits \subseteq Int

VARIABLES
  at,    \* "shell" no VM process, "menu" in main's menu, "exec" in executeProgram
  disk,  \* the files, Path -> File
  cmd,   \* main's `buffer': the last command line formatted
  limit  \* main's `limit': the flag -l

session == <<at, disk, cmd, limit>>
svars == <<reg, stack, memory, prog, halt, lim, frames, error, mode, at, disk, cmd, limit>>

(***************************************************************************)
(* Files.  An executable is written from its start: the header, then the   *)
(* instructions, then the data; `units' says how many of these are there.  *)
(***************************************************************************)
Units(i) == 1 + Len(i.insts) + Len(i.data)
Executable(i, n) == [kind |-> "executable", image |-> i, units |-> n]
Absent == [kind |-> "absent"]
Text == [kind |-> "text"]
File == {Absent, Text}
        \cup UNION {{Executable(i, n) : n \in 0 .. Units(i)} : i \in Images}

\* loadProgramIntoVm's checks, on the files the assembler leaves: the magic number
\* and each section's length.  Mutant of Loadable: the data is not counted.
LoadableWithoutData(f) == /\ f.kind = "executable"
                          /\ f.units >= 1 + Len(f.image.insts)
Loadable(f) == /\ f.kind = "executable"
               /\ f.units = Units(f.image)

\* The commands a user may type or choose; NoCommand is the empty buffer.
NoCommand == [kind |-> "none"]
Commands == [kind : {"assemble"}, out : Path]
            \cup [kind : {"disassemble"}, in : Path, out : Path]
            \cup {[kind |-> "unusable"]}

\* What a command may leave on the disk, and whether it succeeds.  The output is
\* opened, and so emptied, after an assembly's translation and before a
\* disassembly's input; a failure may come anywhere in the writes.
Put(p, f) == [disk EXCEPT ![p] = f]
\* Mutant of Succeeds: the assembler writes a unit past the image.
SucceedsTrailing(c) ==
  CASE c.kind = "none" -> {disk}
    [] c.kind = "assemble" -> {Put(c.out, Executable(i, Units(i) + 1)) : i \in Images}
    [] c.kind = "disassemble" /\ Loadable(Put(c.out, Text)[c.in]) -> {Put(c.out, Text)}
    [] OTHER -> {}
Succeeds(c) == CASE c.kind = "none" -> {disk}
                 [] c.kind = "assemble" -> {Put(c.out, Executable(i, Units(i))) : i \in Images}
                 [] c.kind = "disassemble" /\ Loadable(Put(c.out, Text)[c.in]) -> {Put(c.out, Text)}
                 [] OTHER -> {}
Fails(c) == CASE c.kind = "none" -> {}
              [] c.kind = "assemble" ->
                   {disk} \cup UNION {{Put(c.out, Executable(i, n)) : n \in 0 .. Units(i) - 1}
                                        : i \in Images}
              [] c.kind = "disassemble" -> {Put(c.out, Text)}
              [] OTHER -> {disk}
-----------------------------------------------------------------------------
(* The process. *)

\* The statically allocated machine of a new process.
Zeroed == /\ reg' = [r \in RegID |-> 0]
          /\ stack' = [i \in StackAddr |-> 0]
          /\ memory' = [a \in MemoryAddr |-> 0]
          /\ prog' = <<>>
          /\ halt' = FALSE
          /\ lim' = ExecLimit
          /\ frames' = 1
          /\ error' = "ERR_OK"
          /\ mode' = "returned"

\* The process ends; nothing of it is left but the files.
Ends == /\ at' = "shell"
        /\ cmd' = NoCommand
        /\ limit' = -1
        /\ Zeroed

\* main up to the menu.
StartVm == /\ at = "shell"
           /\ at' = "menu"
           /\ limit' \in Limits
           /\ UNCHANGED <<disk, cmd>>
           /\ UNCHANGED vars

\* loadProgramIntoVm and the call of executeProgram: a file that is not a whole
\* executable ends the process.  The registers, the stack and the memory past the
\* data are the last run's.
Exec(d, p) ==
  LET f == d[p]
  IN  \/ /\ Loadable(f)
         /\ prog' = f.image.insts
         /\ reg' = [reg EXCEPT ![REG_NX] = f.image.entry]
         /\ memory' = [a \in MemoryAddr |->
                         IF a < Len(f.image.data) THEN f.image.data[a + 1] ELSE memory[a]]
         /\ lim' = ExecLimit
         /\ frames' = 1
         /\ mode' = "running"
         /\ at' = "exec"
         /\ UNCHANGED <<stack, halt, error, limit>>
      \/ ~Loadable(f) /\ Ends

\* system(buffer): a command that fails ends the VM as well.
System(c) == \/ disk' \in Succeeds(c) /\ at' = "menu" /\ cmd' = c /\ UNCHANGED <<vars, limit>>
             \/ disk' \in Fails(c) /\ Ends
SystemThenExec(c, p) ==
  \/ disk' \in Succeeds(c) /\ Exec(disk', p) /\ (at' = "exec" => cmd' = c)
  \/ disk' \in Fails(c) /\ Ends

\* The menu's entries.  The loop sets NX and META_HALT to 0 after each of them;
\* on the menu they already are, except after a run (see BackToMenu).
ExecSm == /\ at = "menu"
          /\ \E p \in Path : Exec(disk, p) /\ (at' = "exec" => UNCHANGED cmd)
          /\ UNCHANGED disk
AssembleSasm == /\ at = "menu"
                /\ \E c \in Commands : c.kind = "assemble" /\ System(c)
AssembleExecSasm == /\ at = "menu"
                    /\ \E c \in Commands : c.kind = "assemble" /\ SystemThenExec(c, c.out)
DisassembleSm == /\ at = "menu"
                 /\ \E c \in Commands : c.kind = "disassemble" /\ System(c)

\* The last question of a custom command is answered by a letter.  The ORIN
\* choices (o, O, c, C) format no command, so the buffer's last one runs again;
\* of the others all but S go on to execute a file.
CustomCmd ==
  /\ at = "menu"
  /\ \/ System(cmd)
     \/ \E c \in Commands : System(c) \/ \E p \in Path : SystemThenExec(c, p)

\* EXIT_VM, and COMPILE_ORIN, which shares its case.
ExitVm == at = "menu" /\ Ends /\ UNCHANGED disk

\* An instruction.
RunStep == at = "exec" /\ Step /\ UNCHANGED session

\* executeProgram has returned, and the loop readies the machine for the next run.
\* Mutant of BackToMenu: META_HALT stays set.
BackToMenuHalted == /\ at = "exec"
                    /\ mode = "returned"
                    /\ at' = "menu"
                    /\ reg' = [reg EXCEPT ![REG_NX] = 0]
                    /\ UNCHANGED <<stack, memory, prog, halt, lim, frames, error, mode,
                                   disk, cmd, limit>>
BackToMenu == /\ at = "exec"
              /\ mode = "returned"
              /\ at' = "menu"
              /\ reg' = [reg EXCEPT ![REG_NX] = 0]
              /\ halt' = FALSE
              /\ UNCHANGED <<stack, memory, prog, lim, frames, error, mode, disk, cmd, limit>>

\* An error or a signal in a run is the end of the process.
RunDies == /\ at = "exec"
           /\ mode \in {"exited", "overrun", "killed"}
           /\ Ends
           /\ UNCHANGED disk

SInit == /\ reg = [r \in RegID |-> 0]
         /\ stack = [i \in StackAddr |-> 0]
         /\ memory = [a \in MemoryAddr |-> 0]
         /\ prog = <<>>
         /\ halt = FALSE
         /\ lim = ExecLimit
         /\ frames = 1
         /\ error = "ERR_OK"
         /\ mode = "returned"
         /\ at = "shell"
         /\ disk \in [Path -> {Absent, Text}]
         /\ cmd = NoCommand
         /\ limit = -1

SNext == \/ StartVm \/ ExecSm \/ AssembleSasm \/ AssembleExecSasm \/ DisassembleSm
         \/ CustomCmd \/ ExitVm \/ RunStep \/ BackToMenu \/ RunDies

\* Only a run goes on by itself; everything else waits for the user.
SSpec == SInit /\ [][SNext]_svars /\ WF_svars(RunStep)
-----------------------------------------------------------------------------
(* Properties. *)

(* The machine's types, and those of the session around it.                    *)
SessionTypeOK == /\ TypeOK
                 /\ at \in {"shell", "menu", "exec"}
                 /\ disk \in [Path -> File]
                 /\ cmd \in Commands \cup {NoCommand}
                 /\ limit \in Int

(* However assemblies fail, disassemblies overwrite and runs leave their       *)
(* memory behind: a run starts with the program, the entry point and the data  *)
(* of one image, all of it, and that image is whole on the disk.               *)
RunsStartFromWholeImages ==
  at = "exec" /\ mode = "running" /\ frames = 1 =>
    \E p \in Path : /\ Loadable(disk[p])
                    /\ LET i == disk[p].image
                       IN  /\ disk[p].units = Units(i)
                           /\ prog = i.insts
                           /\ NX = i.entry
                           /\ \A k \in 1 .. Len(i.data) : memory[k - 1] = i.data[k]

(* A run ends in the menu without an error, through its own SHUTS or a store   *)
(* it makes into the flags, which lie behind the last register: no error is    *)
(* swallowed and no run is cut short by what an earlier one has left set.      *)
(* After a store that has left its array nothing is claimed.                   *)
OnlyShutsReturns ==
  [][at = "exec" /\ mode = "running" /\ mode' = "returned" =>
       /\ error' = "ERR_OK"
       /\ Fetchable
       /\ Inst.op = "SHUTS" \/ (Inst.op \in StoresByNumber /\ StoredReg = REG_COUNT)]_svars

(* No run goes on for ever, whatever its program: executeProgram calls itself  *)
(* for each instruction, and the C stack ends.                                 *)
EveryRunEnds == at = "exec" /\ mode = "running" ~> mode # "running"

=============================================================================
