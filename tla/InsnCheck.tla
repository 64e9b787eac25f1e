----------------------------- MODULE InsnCheck ------------------------------
(***************************************************************************)
(* An instruction as an assembler is given it, its word as the instruction *)
(* set lays it out, and two operands.  The word is decoded, printed and    *)
(* executed: the three parts of the simulator that read it must agree.     *)
(***************************************************************************)
EXTENDS Decoder, Disassembler, AluCheck, FiniteSetsExt

CONSTANTS
  Regs,      \* register numbers, of 0 .. 31
  Funct7s,   \* of 0 .. 127
  Imms       \* immediates, cut to what each format can hold

ASSUME InsnAssumption == Regs \subseteq 0 .. 31 /\ Funct7s \subseteq 0 .. 127 /\ Imms \subseteq Int

\* A register has at most the bits of a word, and their number is a power of two.
ASSUME InsnWidth == 32 % XLEN = 0 /\ W % XLEN = 0

\* What powers of two are; 2^31 is no signed number of 32 bits.
ASSUME InsnPowers ==
  /\ 2^0 = 1 /\ 2^1 = 2
  /\ \A m \in 0 .. 30 : 2^m \in Nat \ {0}
  /\ \A m, n \in 0 .. 30 : m + n <= 30 => 2^(m + n) = 2^m * 2^n

VARIABLES
  insn,  \* what the assembler is given
  word   \* what it makes of it

insnVars == <<insn, word, a, b>>

-----------------------------------------------------------------------------
\* The layout of the instruction set.  Immediates(opcode)[k] is the bit of the
\* word that holds bit k of the immediate; the lowest bit of a branch or jump
\* offset is not stored.
UFormat == {\h37, \h17}
RegisterImmediate == {\h13, \h03, \h67, \h73}

LowBits(lo, hi, from) == [k \in lo .. hi |-> from + k - lo]
Joined(pieces) ==
  [k \in UNION {DOMAIN p : p \in pieces} |-> (CHOOSE p \in pieces : k \in DOMAIN p)[k]]

ImmBits(opcode) ==
  CASE opcode \in RegisterImmediate -> LowBits(0, 11, 20)
    [] opcode = \h23 -> Joined({LowBits(0, 4, 7), LowBits(5, 11, 25)})
    [] opcode = \h63 -> Joined({LowBits(1, 4, 8), LowBits(5, 10, 25),
                                LowBits(11, 11, 7), LowBits(12, 12, 31)})
    [] opcode \in UFormat -> LowBits(0, 19, 12)
    [] opcode = \h6F -> Joined({LowBits(1, 10, 21), LowBits(11, 11, 20),
                                LowBits(12, 19, 12), LowBits(20, 20, 31)})
    [] OTHER -> LowBits(0, -1, 0)

HasRd(opcode) == opcode \in RegisterImmediate \cup UFormat \cup {\h33, \h6F}
HasRs1(opcode) == opcode \in RegisterImmediate \cup {\h33, \h23, \h63}
HasRs2(opcode) == opcode \in {\h33, \h23, \h63}

\* The numbers of so many values to each side of zero, and what each format can hold.
Reach(n) == -n .. n - 1

Holdable(opcode, imm) ==
  /\ opcode \in RegisterImmediate \cup {\h23} => imm \in Reach(2048)
  /\ opcode = \h63 => imm \in Reach(4096) /\ imm % 2 = 0
  /\ opcode \in UFormat => imm \in Reach(1048576) /\ imm >= 0
  /\ opcode = \h6F => imm \in Reach(1048576) /\ imm % 2 = 0
  /\ opcode \in {\h33, \h0F} => imm = 0

\* The value of bit k of a signed word of 32 bits.
Weight(k) == IF k = 31 THEN -2147483647 - 1 ELSE 2^k
BitOf(v, k) == (v \div 2^k) % 2

\* The bits of v, each with the weight of its place.
AtPlaces(v, places) == [k \in DOMAIN places |-> BitOf(v, k) * Weight(places[k])]

\* The word that has the bits of v at these places.
Laid(v, places) ==
  LET bits == AtPlaces(v, places)
  IN  MapThenSumSet(LAMBDA k : bits[k], DOMAIN places)

\* A field of n bits from bit lo on.
Placed(v, lo, n) == Laid(v, LowBits(0, n - 1, lo))

Assembled(i) ==
  Placed(i.opcode, 0, 7)
  + (IF HasRd(i.opcode) THEN Placed(i.rd, 7, 5) ELSE 0)
  + (IF HasRs1(i.opcode) THEN Placed(i.funct3, 12, 3) + Placed(i.rs1, 15, 5) ELSE 0)
  + (IF HasRs2(i.opcode) THEN Placed(i.rs2, 20, 5) ELSE 0)
  + (IF i.opcode = \h33 THEN Placed(i.funct7, 25, 7) ELSE 0)
  + Laid(i.imm, ImmBits(i.opcode))

Opcodes == {\h33, \h23, \h63, \h6F, \h0F} \cup RegisterImmediate \cup UFormat

\* The instructions that an assembler is given: a format's own fields only.
Insns(opcode) ==
  {i \in [opcode : {opcode},
          rd : IF HasRd(opcode) THEN Regs ELSE {0},
          rs1 : IF HasRs1(opcode) THEN Regs ELSE {0},
          rs2 : IF HasRs2(opcode) THEN Regs ELSE {0},
          funct3 : IF HasRs1(opcode) THEN 0 .. 7 ELSE {0},
          funct7 : IF opcode = \h33 THEN Funct7s ELSE {0},
          imm : Imms] : Holdable(opcode, i.imm)}

Blank == Undecoded(0)

InsnInit == insn = Blank /\ word = 0 /\ a = 0 /\ b = 0

Assemble ==
  /\ insn = Blank
  /\ \E opcode \in Opcodes : \E i \in Insns(opcode) : insn' = i /\ word' = Assembled(i)
  /\ UNCHANGED <<a, b>>

\* Operands for an operation of two registers, or of one; for a load, the word it is
\* to read from.
Operate ==
  /\ insn.rd = 0 /\ insn.rs1 = 0 /\ insn.rs2 = 0
  /\ insn.opcode \in {\h33, \h13, \h63, \h03}
  /\ a = 0 /\ b = 0
  /\ a' \in Value
  /\ b' \in IF insn.opcode \in {\h13, \h03} THEN {0} ELSE Value
  /\ UNCHANGED <<insn, word>>

Discard == insn' = Blank /\ word' = 0 /\ a' = 0 /\ b' = 0

InsnNext == Assemble \/ Operate \/ Discard

InsnSpec == InsnInit /\ [][InsnNext]_insnVars

-----------------------------------------------------------------------------
\* decode_r to decode_j of common.h: the word of an instruction decodes to the
\* instruction, in every format: each piece of a scattered immediate comes back at
\* its place and with its sign.
DecodesWhatWasAssembled == DecodeWord(word) = insn

\* The number v of so many values, read as signed.
SignedOf(v, values) == ((v + values \div 2) % values) - values \div 2

\* What the printed name of an operation means in the instruction set, for the
\* values of its operands, or of the bytes that it loads.
Meaning(name, v, w) ==
  CASE name \in {"add", "addi"} -> Unsigned(v + w)
    [] name = "sub" -> Unsigned(v - w)
    [] name \in {"sll", "slli"} -> ShiftLeft(v, Shamt(w))
    [] name \in {"slt", "slti"} -> Bool(Signed(v) < Signed(w))
    [] name \in {"sltu", "sltiu"} -> Bool(v < w)
    [] name \in {"xor", "xori"} -> BitXor(v, w)
    [] name \in {"srl", "srli"} -> ShiftRight(v, Shamt(w))
    [] name \in {"sra", "srai"} -> ShiftRightSigned(v, Shamt(w))
    [] name \in {"or", "ori"} -> BitOr(v, w)
    [] name \in {"and", "andi"} -> BitAnd(v, w)
    [] name = "mul" -> Unsigned(v * w)
    [] name = "mulh" -> Unsigned((Signed(v) * Signed(w)) \div W)
    [] name = "mulhsu" -> Unsigned((Signed(v) * w) \div W)
    [] name = "mulhu" -> (v * w) \div W
    [] name = "div" -> Unsigned(Quotient(Signed(v), Signed(w)))
    [] name = "divu" -> v \div w
    [] name = "rem" -> Unsigned(Remainder(Signed(v), Signed(w)))
    [] name = "remu" -> v % w
    [] name = "beq" -> Bool(v = w)
    [] name = "bne" -> Bool(v # w)
    [] name = "blt" -> Bool(Signed(v) < Signed(w))
    [] name = "bge" -> Bool(Signed(v) >= Signed(w))
    [] name = "bltu" -> Bool(v < w)
    [] name = "bgeu" -> Bool(v >= w)
    [] name = "lb" -> Unsigned(SignedOf(v, ByteMod))
    [] name = "lh" -> Unsigned(SignedOf(v, ByteMod * ByteMod))
    [] name \in {"lw", "lbu", "lhu"} -> v

\* Three operations run as another one: the shift of an immediate amount does not
\* look at bit 30, and the high half of a product is that of the unsigned one.
Executed(name) ==
  CASE name = "srai" -> "srli"
    [] name \in {"mulh", "mulhsu"} -> "mulhu"
    [] OTHER -> name

\* Registers are wider than immediates.
Fits(imm) == imm \in -(W \div 2) .. W \div 2 - 1

\* The encodings that one of the switches of simulate.c acts on.
Acts(f) ==
  \/ f.opcode = \h33 /\ RKnown(f.funct7, f.funct3)
  \/ f.opcode \in {\h13, \h6F} \cup UFormat
  \/ f.opcode = \h03 /\ LoadKnown(f.funct3)
  \/ f.opcode = \h23 /\ StoreKnown(f.funct3)
  \/ f.opcode = \h63 /\ BranchKnown(f.funct3)
  \/ f.opcode \in {\h67, \h73} /\ f.funct3 = 0

\* The operands of an instruction in the order of an assembler: the shifts have the
\* low five bits of the immediate.
Operands(i) ==
  CASE i.opcode = \h33 -> <<Register(i.rd), Register(i.rs1), Register(i.rs2)>>
    [] i.opcode = \h13 /\ i.funct3 \in {1, 5} ->
         <<Register(i.rd), Register(i.rs1), i.imm % 32>>
    [] i.opcode = \h13 /\ i.funct3 \notin {1, 5} -> <<Register(i.rd), Register(i.rs1), i.imm>>
    [] i.opcode = \h67 -> <<Register(i.rd), Register(i.rs1), i.imm>>
    [] i.opcode = \h03 -> <<Register(i.rd), i.imm, Register(i.rs1)>>
    [] i.opcode = \h23 -> <<Register(i.rs2), i.imm, Register(i.rs1)>>
    [] i.opcode = \h63 -> <<Register(i.rs1), Register(i.rs2), i.imm>>
    [] i.opcode \in UFormat \cup {\h6F} -> <<Register(i.rd), i.imm>>
    [] i.opcode = \h73 -> <<>>

\* The low bytes of a word, as many as a load is wide.
LowBytes(funct3, v) ==
  CASE funct3 \in {0, 4} -> v % ByteMod
    [] funct3 \in {1, 5} -> v % (ByteMod * ByteMod)
    [] OTHER -> v

\* What the operations compute, but for the divisions C leaves undefined and the
\* immediates wider than the registers here.
ResultsMean(f, name, operand) ==
  /\ f.opcode = \h33 /\ ~(IsDivision(f.funct7, f.funct3) /\ Undefined(f.funct3, a, b))
       => RResult(f.funct7, f.funct3, a, b) = Meaning(Executed(name), a, b)
  /\ f.opcode = \h13 /\ Fits(operand)
       => IResult(f.funct3, a, f.imm) = Meaning(Executed(name), a, Unsigned(operand))
  /\ f.opcode = \h03
       => LoadResult(f.funct3, LowBytes(f.funct3, a)) = Meaning(name, LowBytes(f.funct3, a), b)
  /\ f.opcode = \h63 => Bool(Holds(f.funct3, a, b)) = Meaning(name, a, b)

\* The switches of disassemble.c and of simulate.c are written apart.  An encoding is
\* printed under a name exactly if it is executed, but for two that are printed and not
\* executed: jalr and ecall, of which only simulate.c looks at funct3.  The operands
\* printed are those of the instruction.  The results of the register, immediate, load
\* and branch operations are what the names mean, but that srai runs as srli, and mulh
\* and mulhsu as mulhu.
PrintsWhatRuns ==
  LET f == DecodeWord(word)
      text == Text(f)
      printed == text # Nothing /\ Head(text) # "unknown"
  IN  /\ printed <=> Acts(f) \/ f.opcode \in {\h67, \h73}
      /\ printed => Tail(text) = Operands(insn)
      /\ Acts(f) /\ f.opcode \in {\h33, \h13, \h03, \h63} => ResultsMean(f, text[1], text[4])
=============================================================================
