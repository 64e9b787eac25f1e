---------------------------- MODULE Disassembler ----------------------------
(***************************************************************************)
(* disassemble.c: what is printed for the decoded fields of an instruction.*)
(* A text is the name of the operation and its operands in the order in    *)
(* which they are printed.                                                 *)
(***************************************************************************)
EXTENDS Integers, Sequences

reg_names ==
  <<"zero", "ra", "sp", "gp", "tp", "t0", "t1", "t2", "s0", "s1", "a0", "a1", "a2", "a3",
    "a4", "a5", "a6", "a7", "s2", "s3", "s4", "s5", "s6", "s7", "s8", "s9", "s10", "s11",
    "t3", "t4", "t5", "t6">>

Register(number) == reg_names[number + 1]

\* No name, and nothing written into the buffer.
NoName == "none"
Nothing == <<>>

\* Mutant: rem under the number of divu, and the other way around.
RNameSwapped(funct7, funct3) ==
  CASE funct7 = 0 ->
         <<"add", "sll", "slt", "sltu", "xor", "srl", "or", "and">>[funct3 + 1]
    [] funct7 = 1 ->
         <<"mul", "mulh", "mulhsu", "mulhu", "div", "rem", "divu", "remu">>[funct3 + 1]
    [] funct7 = \h20 /\ funct3 = 0 -> "sub"
    [] funct7 = \h20 /\ funct3 = 5 -> "sra"
    [] OTHER -> NoName

RName(funct7, funct3) ==
  CASE funct7 = 0 ->
         <<"add", "sll", "slt", "sltu", "xor", "srl", "or", "and">>[funct3 + 1]
    [] funct7 = 1 ->
         <<"mul", "mulh", "mulhsu", "mulhu", "div", "divu", "rem", "remu">>[funct3 + 1]
    [] funct7 = \h20 /\ funct3 = 0 -> "sub"
    [] funct7 = \h20 /\ funct3 = 5 -> "sra"
    [] OTHER -> NoName

disas_r_type(f) ==
  IF RName(f.funct7, f.funct3) = NoName THEN Nothing
  ELSE <<RName(f.funct7, f.funct3), Register(f.rd), Register(f.rs1), Register(f.rs2)>>

\* The name of a shift to the right comes from bit 30 of the word, which is bit
\* 10 of its immediate; a shift prints the low five bits of the immediate.
IName(funct3, imm) ==
  IF funct3 = 5 /\ (imm \div 1024) % 2 = 1 THEN "srai"
  ELSE <<"addi", "slli", "slti", "sltiu", "xori", "srli", "ori", "andi">>[funct3 + 1]

disas_i_type(f) ==
  <<IName(f.funct3, f.imm), Register(f.rd), Register(f.rs1),
    IF f.funct3 \in {1, 5} THEN f.imm % 32 ELSE f.imm>>

disas_s_type(f) ==
  IF f.funct3 > 2 THEN Nothing
  ELSE <<<<"sb", "sh", "sw">>[f.funct3 + 1], Register(f.rs2), f.imm, Register(f.rs1)>>

BName(funct3) ==
  <<"beq", "bne", NoName, NoName, "blt", "bge", "bltu", "bgeu">>[funct3 + 1]

disas_b_type(f) ==
  IF BName(f.funct3) = NoName THEN Nothing
  ELSE <<BName(f.funct3), Register(f.rs1), Register(f.rs2), f.imm>>

\* An unknown load has a name, unlike an unknown store.
LoadName(funct3) ==
  <<"lb", "lh", "lw", "unknown", "lbu", "lhu", "unknown", "unknown">>[funct3 + 1]

disas_load_type(f) == <<LoadName(f.funct3), Register(f.rd), f.imm, Register(f.rs1)>>

\* What disassemble writes for the fields of an instruction.
Text(f) ==
  CASE f.opcode = \h33 -> disas_r_type(f)
    [] f.opcode = \h13 -> disas_i_type(f)
    [] f.opcode = \h03 -> disas_load_type(f)
    [] f.opcode = \h23 -> disas_s_type(f)
    [] f.opcode = \h63 -> disas_b_type(f)
    [] f.opcode = \h37 -> <<"lui", Register(f.rd), f.imm>>
    [] f.opcode = \h17 -> <<"auipc", Register(f.rd), f.imm>>
    [] f.opcode = \h6F -> <<"jal", Register(f.rd), f.imm>>
    [] f.opcode = \h67 -> <<"jalr", Register(f.rd), Register(f.rs1), f.imm>>
    [] f.opcode = \h73 -> <<"ecall">>
    [] OTHER -> Nothing
=============================================================================
