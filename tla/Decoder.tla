------------------------------ MODULE Decoder -------------------------------
(***************************************************************************)
(* common.h: the fields of an instruction word.  A word is an integer with *)
(* these 32 bits, signed as simulate holds it or unsigned as the           *)
(* disassembler does: a field is the same for both.                        *)
(***************************************************************************)
EXTENDS Integers

\* (inst >> n) & mask, for shift = 2^n and values = mask + 1.
Cut(inst, shift, values) == (inst \div shift) % values

\* The sign extensions, for a field of so many values.
SignExtend(v, values) == IF 2 * v >= values THEN v - values ELSE v

OpcodeOf(inst) == inst % 128
RdOf(inst) == Cut(inst, \h80, 32)
Funct3Of(inst) == Cut(inst, \h1000, 8)
Rs1Of(inst) == Cut(inst, \h8000, 32)
Rs2Of(inst) == Cut(inst, \h100000, 32)
Funct7Of(inst) == Cut(inst, \h2000000, 128)
SignBit(inst) == Cut(inst, \h40000000, 4) \div 2

ImmediateI(inst) == SignExtend(Cut(inst, \h100000, 4096), 4096)
ImmediateS(inst) == SignExtend(RdOf(inst) + 32 * Funct7Of(inst), 4096)

\* The immediate of lui and auipc stays unsigned.
ImmediateU(inst) == Cut(inst, \h1000, 1048576)

\* Mutant: the offset of a branch with bit 7 of the word as bit 10.
BranchOffsetSwapped(inst) ==
  SignExtend(2 * Cut(inst, \h100, 16) + 32 * Cut(inst, \h2000000, 32)
             + 1024 * Cut(inst, \h80, 2) + 2048 * Cut(inst, \h40000000, 2)
             + 4096 * SignBit(inst), 8192)

\* The four pieces of the offset of a branch, and of a jump.
BranchOffset(inst) ==
  SignExtend(2 * Cut(inst, \h100, 16) + 32 * Cut(inst, \h2000000, 64)
             + 2048 * Cut(inst, \h80, 2) + 4096 * SignBit(inst), 8192)

JumpOffset(inst) ==
  SignExtend(2 * Cut(inst, \h200000, 1024) + 2048 * Cut(inst, \h100000, 2)
             + 4096 * Cut(inst, \h1000, 256) + 1048576 * SignBit(inst), 2097152)

\* rv_fields_t: the callers zero it, so a field that a format lacks is 0.
Filled(inst, rd, funct3, rs1, rs2, funct7, imm) ==
  [opcode |-> OpcodeOf(inst), rd |-> rd, funct3 |-> funct3, rs1 |-> rs1,
   rs2 |-> rs2, funct7 |-> funct7, imm |-> imm]

Undecoded(inst) == Filled(inst, 0, 0, 0, 0, 0, 0)

decode_r(inst) == Filled(inst, RdOf(inst), Funct3Of(inst), Rs1Of(inst), Rs2Of(inst),
                         Funct7Of(inst), 0)

decode_i(inst) == Filled(inst, RdOf(inst), Funct3Of(inst), Rs1Of(inst), 0, 0,
                         ImmediateI(inst))

decode_s(inst) == Filled(inst, 0, Funct3Of(inst), Rs1Of(inst), Rs2Of(inst), 0,
                         ImmediateS(inst))

decode_b(inst) == Filled(inst, 0, Funct3Of(inst), Rs1Of(inst), Rs2Of(inst), 0,
                         BranchOffset(inst))

decode_u(inst) == Filled(inst, RdOf(inst), 0, 0, 0, 0, ImmediateU(inst))

decode_j(inst) == Filled(inst, RdOf(inst), 0, 0, 0, 0, JumpOffset(inst))

\* The format of an opcode: get_instruction_type.
DecodeWord(inst) ==
  LET opcode == OpcodeOf(inst)
  IN  CASE opcode = \h33 -> decode_r(inst)
        [] opcode \in {\h13, \h03, \h67, \h73} -> decode_i(inst)
        [] opcode = \h23 -> decode_s(inst)
        [] opcode = \h63 -> decode_b(inst)
        [] opcode \in {\h37, \h17} -> decode_u(inst)
        [] opcode = \h6F -> decode_j(inst)
        [] OTHER -> Undecoded(inst)
=============================================================================
