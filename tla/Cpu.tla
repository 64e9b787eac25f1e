-------------------------------- MODULE Cpu ---------------------------------
(***************************************************************************)
(* simulate.c: the fetch, decode and execute loop over the memory of       *)
(* memory.c, with the branch predictors and the log.  One action per kind  *)
(* of instruction, each a whole turn of the loop: the log prefix, the      *)
(* fetch, the instruction, the rest of the log line and the counters.      *)
(*                                                                         *)
(* Decode stands for the decode functions of common.h: it gives the fields *)
(* of an instruction word.  The program is the initial memory.             *)
(*                                                                         *)
(* The log is that of a run with -l.  The text that ends each line is put  *)
(* together in result, a buffer that no turn clears.                       *)
(***************************************************************************)
EXTENDS Memory, Predictor, Alu, Disassembler

CONSTANTS
  Reg,         \* the registers that programs name, of 0 .. 31
  UpperShift,  \* where lui and auipc put their immediate (12)
  Decode(_),   \* the rv_fields_t of an instruction word
  Images,      \* the memories that programs start with
  Start,       \* the entry point
  Input,       \* what getchar returns, as registers[10] holds it
  MaxInsns,    \* bound on the instructions of a behaviour
  BufSize,     \* BUFFSIZE (120)
  TextLen,     \* characters of the text of an instruction (at most 25)
  MarkLen,     \* characters of "   {T}" (6)
  FirstLengths \* what strlen may find in the buffer before it is written

Fields == [opcode : Nat, rd : Reg, rs1 : Reg, rs2 : Reg, funct3 : 0 .. 7,
           funct7 : 0 .. 127, imm : Int]

ASSUME CpuAssumption ==
  /\ {0, 10, 17} \subseteq Reg
  /\ Byte = 0 .. ByteMod - 1 /\ Zero = 0
  /\ \A l \in Lane : ByteMod^l \in Nat \ {0}
  /\ W = 4 * PageWords * NPages
  /\ UpperShift \in Nat /\ 2^UpperShift \in Nat
  /\ \A v \in Value : Decode(v) \in Fields
  /\ Decode(0).opcode = 0
  /\ Images \subseteq PageTable
  /\ Start \in Value
  /\ Input \subseteq Value
  /\ MaxInsns \in Nat
  /\ BufSize \in Nat /\ TextLen \in Nat /\ MarkLen \in Nat
  /\ TextLen + MarkLen + 1 < BufSize
  /\ FirstLengths \subseteq 0 .. BufSize

VARIABLES
  registers,  \* cpu.registers
  pc,         \* cpu.pc
  mem,        \* cpu.mem
  status,     \* "running", "stopped" (cpu_running = 0), "exited", "crashed"
  insns,      \* the instructions counted by struct Stat
  flag1,      \* what get_instruction_type returned last
  line,       \* the last line of the log; its address is -1 if unfinished
  result,     \* the end of that line: whether it has a mark, and its strlen
  in,         \* the characters taken from stdin
  out         \* the bytes put on stdout, and Notice for each diagnostic

vars == <<registers, pc, mem, status, insns, flag1, line, result, in, out,
          bimodal, gshare_table, ghr, stat>>

Notice == -1

\* A word of memory as a register value, and the lanes of a register value.
ValueOf(word) ==
  word[0] + ByteMod * (word[1] + ByteMod * (word[2] + ByteMod * word[3]))
Lanes(v) == [l \in Lane |-> (v \div ByteMod^l) % ByteMod]

Plus(v, offset) == Unsigned(v + offset)

-----------------------------------------------------------------------------
\* simulate sets registers[0]; the others still have their static zero.  The buffer
\* is not initialised, and need not hold a NUL: strlen is then BufSize or more.
\* Every turn has it in the same place.
Init ==
  /\ PredictorInit
  /\ registers = [r \in Reg |-> 0]
  /\ pc = Start
  /\ mem \in Images
  /\ status = "running"
  /\ insns = 0
  /\ flag1 = 0
  /\ line = [n |-> 0, arrow |-> FALSE, address |-> -1]
  /\ result \in [marked : {FALSE}, strlen : FirstLengths]
  /\ in = <<>>
  /\ out = <<>>

\* The instruction at pc, and the memory once its page is there.
Instruction == Decode(ValueOf(memory_rd_w(mem, pc)))
Fetched == get_page(mem, pc)

Turn == status = "running" /\ insns < MaxInsns

\* Mutant: the encodings run wherever pc points.
ExecutingAnywhere(opcode) == Turn /\ Instruction.opcode = opcode

Executing(opcode) == Turn /\ Aligned(pc, 4) /\ Instruction.opcode = opcode

\* disassemble leaves the buffer as it is for what it does not know.
Disassembled(buffer, f) ==
  IF Text(f) = Nothing THEN buffer ELSE [marked |-> FALSE, strlen |-> TextLen]

Marked(buffer, flag) ==
  IF flag # 0 /\ buffer.strlen + MarkLen < BufSize
  THEN [marked |-> TRUE, strlen |-> buffer.strlen + MarkLen] ELSE buffer

\* Mutant: a newline in place of the terminator.
EndedUnchecked(buffer) ==
  IF buffer.strlen < BufSize THEN [buffer EXCEPT !.strlen = @ + 1] ELSE buffer

\* The newline.
Ended(buffer) ==
  IF buffer.strlen + 1 < BufSize THEN [buffer EXCEPT !.strlen = @ + 1] ELSE buffer

\* The end of a turn: the log line, with the address of the next instruction,
\* and the count.  flag is what get_instruction_type returns.
Retire(flag) ==
  /\ line' = [n |-> insns, arrow |-> flag1 = 1, address |-> pc']
  /\ result' = Ended(Marked(Disassembled(result, Instruction), flag))
  /\ flag1' = flag
  /\ insns' = insns + 1

\* Mutant: an aborted instruction is counted.
AbortCounted(how) ==
  /\ status' = how
  /\ line' = [n |-> insns, arrow |-> flag1 = 1, address |-> -1]
  /\ insns' = insns + 1
  /\ UNCHANGED <<registers, pc, flag1, result, in, predictorVars>>

\* The process ends inside a turn, after the prefix of the log line.
Abort(how) ==
  /\ status' = how
  /\ line' = [n |-> insns, arrow |-> flag1 = 1, address |-> -1]
  /\ UNCHANGED <<registers, pc, insns, flag1, result, in, predictorVars>>

\* exit(-1) after the message.
Unaligned == Abort("exited") /\ out' = Append(out, Notice)

Advance == pc' = Plus(pc, 4)
SetReg(r, v) == registers' = [registers EXCEPT ![r] = v]

-----------------------------------------------------------------------------
\* A misaligned read asks for the page first, and does not notice if the host
\* has none.
FetchUnaligned ==
  /\ Turn /\ ~Aligned(pc, 4)
  /\ mem' \in {mem, Fetched}
  /\ Unaligned

RType ==
  LET f == Instruction
  IN  /\ Executing(\h33)
      /\ IF RKnown(f.funct7, f.funct3)
         THEN SetReg(f.rd, RResult(f.funct7, f.funct3, registers[f.rs1], registers[f.rs2]))
         ELSE UNCHANGED registers
      /\ mem' = Fetched
      /\ Advance
      /\ Retire(0)
      /\ UNCHANGED <<status, in, out, predictorVars>>

\* The host traps on a division that C leaves undefined.
DivideFault ==
  LET f == Instruction
  IN  /\ Executing(\h33)
      /\ IsDivision(f.funct7, f.funct3)
      /\ Undefined(f.funct3, registers[f.rs1], registers[f.rs2])
      /\ mem' = Fetched
      /\ Abort("crashed")
      /\ UNCHANGED out

IType ==
  LET f == Instruction
  IN  /\ Executing(\h13)
      /\ SetReg(f.rd, IResult(f.funct3, registers[f.rs1], f.imm))
      /\ mem' = Fetched
      /\ Advance
      /\ Retire(0)
      /\ UNCHANGED <<status, in, out, predictorVars>>

-----------------------------------------------------------------------------
DataAddress == Plus(registers[Instruction.rs1], Instruction.imm)

\* The bytes that a load reads.
Read(funct3, m, addr) ==
  CASE funct3 \in {0, 4} -> memory_rd_b(m, addr)
    [] funct3 \in {1, 5} -> memory_rd_h(m, addr)
    [] funct3 = 2 -> memory_rd_w(m, addr)

Loaded(funct3, m, addr) == LoadResult(funct3, ValueOf(Read(funct3, m, addr)))

Stored(funct3, m, addr, v) ==
  CASE funct3 = 0 -> memory_wr_b(m, addr, Lanes(v))
    [] funct3 = 1 -> memory_wr_h(m, addr, Lanes(v))
    [] funct3 = 2 -> memory_wr_w(m, addr, Lanes(v))

Load ==
  LET f == Instruction
  IN  /\ Executing(\h03)
      /\ LoadKnown(f.funct3)
      /\ \/ /\ Aligned(DataAddress, Bytes(f.funct3))
            /\ mem' = get_page(Fetched, DataAddress)
            /\ SetReg(f.rd, Loaded(f.funct3, Fetched, DataAddress))
            /\ Advance
            /\ Retire(0)
            /\ UNCHANGED <<status, in, out, predictorVars>>
         \/ /\ ~Aligned(DataAddress, Bytes(f.funct3))
            /\ mem' \in {Fetched, get_page(Fetched, DataAddress)}
            /\ Unaligned

Store ==
  LET f == Instruction
  IN  /\ Executing(\h23)
      /\ StoreKnown(f.funct3)
      /\ \/ /\ Aligned(DataAddress, Bytes(f.funct3))
            /\ mem' = Stored(f.funct3, Fetched, DataAddress, registers[f.rs2])
            /\ Advance
            /\ Retire(0)
            /\ UNCHANGED <<registers, status, in, out, predictorVars>>
         \/ /\ ~Aligned(DataAddress, Bytes(f.funct3))
            /\ mem' = Fetched
            /\ Unaligned

-----------------------------------------------------------------------------
\* Mutant: the outcome is the value of get_instruction_type.
BranchFlagOutcome(taken) == taken

\* The outcome of a branch is in a second variable flag, inside the case; the value of
\* get_instruction_type is that of the first.
BranchFlag(taken) == 0

\* An unknown condition counts as a branch not taken, but leaves pc where it is.
BType ==
  LET f == Instruction
      taken == IF BranchKnown(f.funct3)
               THEN Bool(Holds(f.funct3, registers[f.rs1], registers[f.rs2])) ELSE 0
      target == IF ~BranchKnown(f.funct3) THEN pc
                ELSE Plus(pc, IF taken = 1 THEN f.imm ELSE 4)
  IN  /\ Executing(\h63)
      /\ pc' = target
      /\ Branch(target, f.imm, taken)
      /\ mem' = Fetched
      /\ Retire(BranchFlag(taken))
      /\ UNCHANGED <<registers, status, in, out>>

\* The link is written before jalr reads its base.
Linked(rd) ==
  IF rd = 0 THEN registers ELSE [registers EXCEPT ![rd] = Plus(pc, 4)]

\* Mutants: a jump that the log does not mark, and one that exits.
JumpUnmarked(target) ==
  /\ pc' = target
  /\ out' = IF Aligned(target, 4) THEN out ELSE Append(out, Notice)
  /\ mem' = Fetched
  /\ Retire(0)
  /\ UNCHANGED <<status, in, predictorVars>>

JumpChecked(target) ==
  /\ mem' = Fetched
  /\ \/ ~Aligned(target, 4) /\ Unaligned
     \/ /\ Aligned(target, 4)
        /\ pc' = target
        /\ Retire(2)
        /\ UNCHANGED <<status, in, out, predictorVars>>

\* A jump to an address that is not a multiple of 4 is reported, and made.
Jump(target) ==
  /\ pc' = target
  /\ out' = IF Aligned(target, 4) THEN out ELSE Append(out, Notice)
  /\ mem' = Fetched
  /\ Retire(2)
  /\ UNCHANGED <<status, in, predictorVars>>

Jal ==
  /\ Executing(\h6F)
  /\ registers' = Linked(Instruction.rd)
  /\ Jump(Plus(pc, Instruction.imm))

Even(v) == v - (v % 2)

\* Mutant: an unknown jalr is skipped.
JalrSkipped ==
  LET f == Instruction
      base == Linked(f.rd)[f.rs1]
  IN  /\ Executing(\h67)
      /\ registers' = IF f.funct3 = 0 THEN Linked(f.rd) ELSE registers
      /\ Jump(IF f.funct3 = 0 THEN Even(Plus(base, f.imm)) ELSE Plus(pc, 4))

Jalr ==
  LET f == Instruction
      base == Linked(f.rd)[f.rs1]
  IN  /\ Executing(\h67)
      /\ \/ /\ f.funct3 = 0
            /\ registers' = Linked(f.rd)
            /\ Jump(Even(Plus(base, f.imm)))
         \/ /\ f.funct3 # 0
            /\ UNCHANGED registers
            /\ Jump(pc)

-----------------------------------------------------------------------------
Upper == Instruction.imm * 2^UpperShift

Lui ==
  /\ Executing(\h37)
  /\ SetReg(Instruction.rd, Unsigned(Upper))
  /\ mem' = Fetched
  /\ Advance
  /\ Retire(0)
  /\ UNCHANGED <<status, in, out, predictorVars>>

Auipc ==
  /\ Executing(\h17)
  /\ SetReg(Instruction.rd, Plus(pc, Upper))
  /\ mem' = Fetched
  /\ Advance
  /\ Retire(0)
  /\ UNCHANGED <<status, in, out, predictorVars>>

\* The ecalls, chosen by a7.  Those that are not supported stop the machine.
Getchar ==
  /\ registers[17] = 1
  /\ \E c \in Input : SetReg(10, c) /\ in' = Append(in, c)
  /\ UNCHANGED <<status, out>>

Putchar ==
  /\ registers[17] = 2
  /\ out' = Append(out, registers[10] % ByteMod)
  /\ UNCHANGED <<registers, status, in>>

Stop ==
  /\ registers[17] \in {3, 93}
  /\ status' = "stopped"
  /\ UNCHANGED <<registers, in, out>>

Unsupported ==
  /\ registers[17] \notin {1, 2, 3, 93}
  /\ status' = "stopped"
  /\ out' = Append(out, Notice)
  /\ UNCHANGED <<registers, in>>

Ecall ==
  /\ Executing(\h73)
  /\ Instruction.funct3 = 0
  /\ Getchar \/ Putchar \/ Stop \/ Unsupported
  /\ mem' = Fetched
  /\ Advance
  /\ Retire(0)
  /\ UNCHANGED predictorVars

\* Encodings that no case acts on: only pc moves.
Ignored(f) ==
  \/ f.opcode \notin {\h33, \h13, \h03, \h23, \h63, \h37, \h17, \h6F, \h67, \h73}
  \/ f.opcode = \h03 /\ ~LoadKnown(f.funct3)
  \/ f.opcode = \h23 /\ ~StoreKnown(f.funct3)
  \/ f.opcode = \h73 /\ f.funct3 # 0

Unknown ==
  /\ Turn /\ Aligned(pc, 4)
  /\ Ignored(Instruction)
  /\ mem' = Fetched
  /\ Advance
  /\ Retire(0)
  /\ UNCHANGED <<registers, status, in, out, predictorVars>>

\* The encodings that leave pc where it is.
Stuck ==
  /\ status = "running" /\ Aligned(pc, 4)
  /\ \/ Instruction.opcode = \h63 /\ ~BranchKnown(Instruction.funct3)
     \/ Instruction.opcode = \h67 /\ Instruction.funct3 # 0

\* The host has no memory for the page of the instruction, or of its operand.
AccessesData(f) ==
  /\ \/ f.opcode = \h03 /\ LoadKnown(f.funct3)
     \/ f.opcode = \h23 /\ StoreKnown(f.funct3)
  /\ Aligned(DataAddress, Bytes(f.funct3))

NoHostMemory ==
  /\ Turn /\ Aligned(pc, 4)
  /\ \/ /\ mem[PageNumber(pc)] = NULL
        /\ UNCHANGED mem
     \/ /\ AccessesData(Instruction)
        /\ Fetched[PageNumber(DataAddress)] = NULL
        /\ mem' = Fetched
  /\ Abort("crashed")
  /\ UNCHANGED out

Next ==
  \/ FetchUnaligned \/ NoHostMemory
  \/ RType \/ DivideFault \/ IType
  \/ Load \/ Store
  \/ BType \/ Jal \/ Jalr
  \/ Lui \/ Auipc
  \/ Ecall \/ Unknown

Spec == Init /\ [][Next]_vars

\* simulate has one thread and no wait: while it can take a turn, it does.
FairSpec == Spec /\ WF_vars(Next)

-----------------------------------------------------------------------------
\* Registers and addresses keep to XLEN bits, memory to whole pages of bytes.
TypeOK ==
  /\ PredictorTypeOK
  /\ registers \in [Reg -> Value]
  /\ pc \in Value
  /\ mem \in PageTable
  /\ status \in {"running", "stopped", "exited", "crashed"}
  /\ insns \in Nat
  /\ flag1 \in {0, 2}
  /\ line \in [n : Nat, arrow : BOOLEAN, address : Value \cup {-1}]
  /\ result \in [marked : BOOLEAN, strlen : Nat]
  /\ in \in Seq(Value)
  /\ out \in Seq(0 .. ByteMod - 1 \cup {Notice})

\* The log shows each instruction with its address.
LogShowsAddress == [][insns' # insns => line'.address = pc]_vars

\* The three tallies of a run agree: the statistics account for what the tables
\* learned, every branch is one of the instructions, and the last finished line
\* of the log is numbered one below the instructions counted.
TalliesAgree ==
  /\ StatsAccountForTables
  /\ stat.branches <= insns
  /\ insns > 0 /\ line.address # -1 => line.n = insns - 1
  /\ line.address = -1 => line.n = insns

\* Control leaves the sequence of instructions only by a jump, which the log
\* marks, or by a branch that the never-taken predictor is charged for; and it
\* is charged for no other reason.
DeparturesAreCounted ==
  [][/\ insns' # insns /\ pc' # Plus(pc, 4)
          => flag1' = 2 \/ stat'.wrong_nt = stat.wrong_nt + 1 \/ Stuck
     /\ stat'.wrong_nt # stat.wrong_nt
          => pc' = Plus(pc, Instruction.imm) /\ stat'.branches = stat.branches + 1]_vars

\* The process has exited only on an address that its width forbids, and the
\* state still shows the instruction that used it.
ExitsAreMisaligned ==
  status = "exited"
    => \/ ~Aligned(pc, 4)
       \/ /\ Instruction.opcode \in {\h03, \h23}
          /\ ~Aligned(DataAddress, Bytes(Instruction.funct3))

\* The bytes of memory change only under an aligned store, and only those of
\* its width at its address: no fetch, load, jump or aborted access writes.
OnlyStoresWrite ==
  [][\A addr \in Addr :
       ByteAt(mem', addr) # ByteAt(mem, addr)
         => /\ Aligned(pc, 4) /\ Instruction.opcode = \h23
            /\ insns' = insns + 1
            /\ addr \in DataAddress .. DataAddress + Bytes(Instruction.funct3) - 1]_vars

\* A misaligned jump is only reported when it is made, but nothing is executed
\* after it: the next turn ends the process, for every program.
MisalignedIsTheEnd ==
  [][~Aligned(pc, 4) => status' = "exited" /\ insns' = insns]_vars

\* Unlike every other unknown encoding, an unknown branch or jalr is not
\* skipped: the machine never leaves it, and never stops, exits or crashes.
UnknownJumpsHang == [][Stuck => Stuck']_vars

\* Appending to result (simulate.c:714-723) keeps it terminated: however many turns
\* leave the text where it is and add a newline to it, strlen never reaches the
\* size once it is below, and the text of an instruction brings it below.
StaysTerminated ==
  [][result.strlen < BufSize \/ (insns' # insns /\ Text(Instruction) # Nothing)
       => result'.strlen < BufSize]_vars

\* jal and jalr return the flag that simulate.c:714 marks with "{T}": a mark on a line
\* of its own text is that of a jump, and every jump has one.
MarksAreJumps ==
  [][insns' # insns /\ Text(Instruction) # Nothing
       => (result'.marked <=> Instruction.opcode \in {\h6F, \h67})]_vars

\* Register 0 reads as zero.
ZeroRegister == registers[0] = 0

\* A jalr reaches the address that its base register held (simulate.c:138): so the
\* library's `call init_heap`, an auipc of ra and a jalr ra, ra, reaches init_heap.
CallReachesTarget ==
  [][insns' # insns /\ Instruction.opcode = \h67 /\ Instruction.funct3 = 0
       => pc' = Even(Plus(registers[Instruction.rs1], Instruction.imm))]_vars
=============================================================================
