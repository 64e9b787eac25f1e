------------------------------- MODULE MCCpu --------------------------------
(***************************************************************************)
(* The machine with registers of 8 bits: bytes of 2 bits, 64 words of      *)
(* memory in 4 pages, predictor tables of 4 entries.  A word whose value   *)
(* is the number of an encoding below decodes to it; any other value is an *)
(* unknown instruction.                                                    *)
(***************************************************************************)
EXTENDS Cpu, SequencesExt

LOCAL INSTANCE Bitwise

MCAnd(a, b) == a & b
MCOr(a, b) == a | b
MCXor(a, b) == a ^^ b

Instr(opcode, rd, rs1, rs2, funct3, funct7, imm) ==
  [opcode |-> opcode, rd |-> rd, rs1 |-> rs1, rs2 |-> rs2,
   funct3 |-> funct3, funct7 |-> funct7, imm |-> imm]

R(funct7, funct3, rd, rs1, rs2) == Instr(\h33, rd, rs1, rs2, funct3, funct7, 0)
I(funct3, rd, rs1, imm) == Instr(\h13, rd, rs1, 0, funct3, 0, imm)
L(funct3, rd, imm, rs1) == Instr(\h03, rd, rs1, 0, funct3, 0, imm)
S(funct3, rs2, imm, rs1) == Instr(\h23, 0, rs1, rs2, funct3, 0, imm)
B(funct3, rs1, rs2, imm) == Instr(\h63, 0, rs1, rs2, funct3, 0, imm)
J(rd, imm) == Instr(\h6F, rd, 0, 0, 0, 0, imm)
JR(funct3, rd, rs1, imm) == Instr(\h67, rd, rs1, 0, funct3, 0, imm)
U(opcode, rd, imm) == Instr(opcode, rd, 0, 0, 0, 0, imm)
E(funct3) == Instr(\h73, 0, 0, 0, funct3, 0, 0)

\* The instructions of the programs that are composed freely.
FreeCode == <<
  I(0, 1, 1, 2),        \*  1 addi ra, ra, 2
  I(0, 10, 1, 5),       \*  2 addi a0, ra, 5
  I(0, 17, 17, 1),      \*  3 addi a7, a7, 1
  E(0),                 \*  4 ecall
  S(2, 10, 6, 1),       \*  5 sw a0, 6(ra)
  S(1, 10, 64, 1),      \*  6 sh a0, 64(ra)
  S(0, 10, 9, 1),       \*  7 sb a0, 9(ra)
  L(0, 10, 9, 1),       \*  8 lb a0, 9(ra)
  L(2, 1, 66, 1),       \*  9 lw ra, 66(ra)
  B(0, 1, 10, 8),       \* 10 beq ra, a0, 8
  B(1, 1, 10, -4),      \* 11 bne ra, a0, -4
  B(3, 0, 0, 8),        \* 12 a branch on no condition
  J(1, 8),              \* 13 jal ra, 8
  JR(0, 1, 1, 4),       \* 14 jalr ra, ra, 4
  JR(1, 0, 1, 0),       \* 15 an unknown jalr
  R(1, 4, 10, 10, 1),   \* 16 div a0, a0, ra
  R(0, 0, 0, 1, 17),    \* 17 add zero, ra, a7
  U(\h37, 1, 1),        \* 18 lui ra, 1
  U(\h17, 10, 2),       \* 19 auipc a0, 2
  R(8, 0, 1, 1, 1),     \* 20 an unknown R-type
  E(1),                 \* 21 a csr instruction
  JR(0, 0, 1, 5)        \* 22 jalr zero, ra, 5
>>

\* lib.c as a program, from its start code on, with a main that reads a line of at
\* most two characters into a buffer and prints it.  Below the arguments lies the
\* stack, above them the heap; Globals are those of the allocator.
Newline == 1
Return == 2
Buffer == 196
Globals == 200
Arguments == 216
Heap == 224

StartCode == <<
  U(\h17, 3, 0),        \*  0 la gp, globals
  I(0, 3, 3, Globals),  \*  4
  I(0, 10, 0, Arguments), \*  8 li a0, arguments
  I(0, 2, 10, 0),       \* 12 mv sp, a0
  I(0, 10, 0, Heap),    \* 16 li a0, heap
  J(1, 16),             \* 20 call init_heap, relaxed to a jal as the next two
  I(0, 10, 0, Arguments), \* 24 li a0, arguments
  J(1, 20),             \* 28 call args_to_main
  J(1, 156)             \* 32 call terminate
>>

InitHeapCode == <<
  S(2, 0, 4, 3),        \* 36 init_heap: sw zero, initialized
  S(2, 10, 0, 3),       \* 40 sw a0, free_space
  JR(0, 0, 1, 0)        \* 44 ret
>>

ArgsToMainCode == <<
  I(0, 11, 10, 4),      \* 48 args_to_main: addi a1, a0, 4
  L(2, 10, 0, 10),      \* 52 lw a0, 0(a0)
  J(0, 4)               \* 56 j main
>>

MainCode == <<
  I(0, 2, 2, -4),       \* 60 main: addi sp, sp, -4
  S(2, 1, 0, 2),        \* 64 sw ra, 0(sp)
  J(1, 20),             \* 68 jal ra, read_string
  J(1, 84),             \* 72 jal ra, print_string
  L(2, 1, 0, 2),        \* 76 lw ra, 0(sp)
  I(0, 2, 2, 4),        \* 80 addi sp, sp, 4
  JR(0, 0, 1, 0)        \* 84 ret
>>

\* inp and outp are inlined; a char is unsigned in the guest's ABI.
InpCode == <<
  I(0, 17, 0, 1),       \* 108 li a7, 1
  E(0),                 \* 112 ecall
  I(7, 10, 10, ByteMod - 1) \* 116 andi a0, a0, 255
>>

OutpCode == <<
  I(0, 17, 0, 2),       \* 172 li a7, 2
  E(0)                  \* 176 ecall
>>

\* t0 walks the buffer, a1 is max_chars, a2, a3 and a4 hold the constants.
ReadStringCode == <<
  I(0, 5, 0, Buffer),   \* 88 read_string: addi t0, zero, buffer
  I(0, 11, 0, 3),       \* 92 addi a1, zero, 3
  I(0, 12, 0, Newline), \* 96 addi a2, zero, newline
  I(0, 13, 0, Return),  \* 100 addi a3, zero, return
  I(0, 14, 0, 1)        \* 104 addi a4, zero, 1
>> \o InpCode \o <<
  B(0, 10, 12, 28),     \* 120 beq a0, a2, 148
  B(0, 10, 13, 24),     \* 124 beq a0, a3, 148
  B(5, 14, 11, 20),     \* 128 bge a4, a1, 148
  S(0, 10, 0, 5),       \* 132 sb a0, 0(t0)
  I(0, 5, 5, 1),        \* 136 addi t0, t0, 1
  I(0, 11, 11, -1),     \* 140 addi a1, a1, -1
  J(0, -36),            \* 144 j 108
  S(0, 0, 0, 5),        \* 148 sb zero, 0(t0)
  JR(0, 0, 1, 0)        \* 152 ret
>>

PrintStringCode == <<
  I(0, 5, 0, Buffer),   \* 156 print_string: addi t0, zero, buffer
  L(4, 10, 0, 5),       \* 160 lbu a0, 0(t0)
  B(0, 10, 0, 20),      \* 164 beq a0, zero, 184
  I(0, 5, 5, 1)         \* 168 addi t0, t0, 1
>> \o OutpCode \o <<
  J(0, -20),            \* 180 j 160
  JR(0, 0, 1, 0)        \* 184 ret
>>

TerminateCode == <<
  I(0, 17, 0, 3),       \* 188 terminate: addi a7, zero, 3
  E(0)                  \* 192 ecall
>>

EchoCode ==
  StartCode \o InitHeapCode \o ArgsToMainCode \o MainCode
    \o ReadStringCode \o PrintStringCode \o TerminateCode

Encodings == FreeCode \o EchoCode

MCDecode(v) ==
  IF v \in DOMAIN Encodings THEN Encodings[v] ELSE Instr(0, 0, 0, 0, 0, 0, 0)

\* The memory with these words from address 0 on, and no other page.
Image(words) ==
  [p \in 0 .. NPages - 1 |->
     IF p * PageWords >= Len(words) THEN NULL
     ELSE [i \in PageIndex |-> IF p * PageWords + i < Len(words)
                               THEN Lanes(words[p * PageWords + i + 1]) ELSE ZeroWord]]

\* Every program of three instructions, after addi ra, ra, 2 and before ecall.
FreePrograms == {Image(<<1, a, b, c, 4>>) : a, b, c \in DOMAIN FreeCode}

FreeInput == {10, 255}

EchoProgram == {Image([i \in DOMAIN EchoCode |-> Len(FreeCode) + i])}

\* NUL, the two characters that end a line, another one, and EOF, which the
\* guest takes for a character.
EchoInput == {0, Newline, Return, 3, W - 1}

-----------------------------------------------------------------------------
\* The bytes of a line of at most two characters, up to the first NUL.
Line(chars) ==
  LET byte(k) == chars[k] % ByteMod
      ends == {k \in DOMAIN chars : byte(k) \in {0, Newline, Return}} \cup {3}
      length == CHOOSE k \in ends : \A other \in ends : k <= other
  IN  [k \in 1 .. length - 1 |-> byte(k)]

\* A program that reads a line and prints it, through calls, byte stores, byte
\* loads and loops, prints the line it was given and then stops, whatever the
\* characters; EOF is not a newline, and comes out as a byte of the line.
EchoesLine == status = "stopped" => out = Line(in)

\* terminate "never returns (stops machine)", and it is always reached.
Terminates == <>(status # "running")
=============================================================================
