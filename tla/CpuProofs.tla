------------------------------ MODULE CpuProofs -----------------------------
(***************************************************************************)
(* The machine is well typed for every program, word size and size of the  *)
(* predictor tables; its tallies agree; a misaligned pc is its end.        *)
(*                                                                         *)
(* First the parts without a state: every operation of the ALU returns a   *)
(* register value, what the machine assumes of its decoder holds of the    *)
(* one in common.h, and decoding loses nothing: two words of the same      *)
(* format with equal fields are equal.                                     *)
(*                                                                         *)
(* At the end, InsnCheck: the word of an instruction decodes to it in      *)
(* every format, what is printed for it is what runs, and the operations   *)
(* are related as arithmetic relates them.                                 *)
(***************************************************************************)
EXTENDS Cpu, InsnCheck, PartsProofs

\* Truncation gives a register value.
LEMMA UnsignedInValue == \A v \in Int : Unsigned(v) \in Value
  BY AluBits DEF Unsigned, Value

\* A register value read as signed is an integer.
LEMMA SignedIsInt == \A x \in Value : Signed(x) \in Int
  BY AluBits DEF Signed, Value

\* The shifts keep to the width.
LEMMA ShiftsInValue ==
  ASSUME NEW x \in Value, NEW n \in 0 .. XLEN - 1
  PROVE  {ShiftLeft(x, n), ShiftRight(x, n), ShiftRightSigned(x, n)} \subseteq Value
<1>1. 2^n \in Nat \ {0}
  BY AluWidth
<1>2. x \in Nat /\ x < W /\ W \in Nat
  BY AluBits DEF Value
<1> DEFINE m == 2^n
<1> HIDE DEF m
<1>3. m \in Nat \ {0}
  BY <1>1 DEF m
<1>4. x * m \in Int /\ Signed(x) \div m \in Int
  BY <1>2, <1>3, SignedIsInt
<1>5. x \div m \in 0 .. x
  BY <1>2, <1>3
<1>6. x \div m \in Value
  BY <1>2, <1>5 DEF Value
<1> QED
  BY <1>4, <1>6, UnsignedInValue DEF ShiftLeft, ShiftRight, ShiftRightSigned, m

\* A defined division has integers for quotient and remainder.
LEMMA DivisionIsInt ==
  ASSUME NEW v \in Int, NEW w \in Int \ {0}
  PROVE  Quotient(v, w) \in Int /\ Remainder(v, w) \in Int
<1>1. Magnitude(v) \in Nat /\ Magnitude(w) \in Nat \ {0}
  BY DEF Magnitude
<1>2. Magnitude(v) \div Magnitude(w) \in Int
  BY <1>1
<1>3. Quotient(v, w) \in Int
  BY <1>2 DEF Quotient
<1> QED
  BY <1>3 DEF Remainder

\* A register has at least two values, so the results of comparisons fit.
LEMMA BitsInValue == {0, 1} \subseteq Value
  BY AluBits DEF Value

\* Every encoding that execute_r_type acts on computes a register value.
LEMMA RResultInValue ==
  ASSUME NEW funct7 \in 0 .. 127, NEW funct3 \in 0 .. 7, RKnown(funct7, funct3),
         NEW x \in Value, NEW y \in Value
  PROVE  RResult(funct7, funct3, x, y) \in Value
<1>1. x \in Nat /\ x < W /\ y \in Nat /\ y < W /\ W \in Nat \ {0} /\ 0 \in Value
  BY AluBits DEF Value
<1>2. Shamt(y) \in 0 .. XLEN - 1
  BY <1>1, AluWidth DEF Shamt
<1>3. \A v \in Int : Unsigned(v) \in Value
  BY UnsignedInValue
<1>4. CASE funct7 = 0
  <2>1. funct3 \in {0, 1, 2, 3, 4, 5, 6, 7}
    BY DEF RKnown
  <2>2. Unsigned(x + y) \in Value
    BY <1>1, <1>3
  <2>3. ShiftLeft(x, Shamt(y)) \in Value /\ ShiftRight(x, Shamt(y)) \in Value
    BY <1>2, ShiftsInValue
  <2>4. Bool(Signed(x) < Signed(y)) \in Value /\ Bool(x < y) \in Value
    BY BitsInValue DEF Bool
  <2>5. BitXor(x, y) \in Value /\ BitOr(x, y) \in Value /\ BitAnd(x, y) \in Value
    BY AluBits
  <2>6. BaseResult(funct3, x, y) \in Value
    BY <2>1, <2>2, <2>3, <2>4, <2>5 DEF BaseResult
  <2> QED
    BY <1>4, <2>6 DEF RResult
<1>5. CASE funct7 = \h20
  <2>1. funct3 \in {0, 5}
    BY <1>5 DEF RKnown
  <2> QED
    BY <1>1, <1>2, <1>3, <1>5, <2>1, ShiftsInValue DEF RResult, SubOrSra
<1>6. CASE funct7 = 1 /\ funct3 \in 0 .. 3
  <2>1. (x * y) \div W \in Value
    <3>1. x * y < W * W /\ x * y >= 0
      BY <1>1
    <3>2. x * y \in Int /\ (x * y) \div W \in Int /\ W * ((x * y) \div W) <= x * y
      BY <1>1
    <3>3. (x * y) \div W < W
      <4> SUFFICES ASSUME (x * y) \div W >= W PROVE FALSE
        BY <1>1, <3>2
      <4>1. W * ((x * y) \div W) >= W * W
        BY <1>1, <3>2
      <4> QED
        BY <1>1, <3>1, <3>2, <4>1
    <3>4. (x * y) \div W >= 0
      BY <1>1, <3>1, <3>2
    <3> QED
      BY <1>1, <3>2, <3>3, <3>4 DEF Value
  <2>2. x * y \in Int
    BY <1>1
  <2> QED
    BY <1>3, <1>6, <2>1, <2>2 DEF RResult, ProductResult
<1>7. CASE IsDivision(funct7, funct3) /\ Undefined(funct3, x, y)
  BY <1>1, <1>7 DEF RResult, IsDivision, UndefinedResult
<1>8. CASE IsDivision(funct7, funct3) /\ ~Undefined(funct3, x, y)
  <2>1. y # 0
    BY <1>8 DEF Undefined
  <2>2. Signed(x) \in Int /\ Signed(y) \in Int \ {0}
    BY <1>1, <2>1 DEF Signed
  <2>3. Quotient(Signed(x), Signed(y)) \in Int /\ Remainder(Signed(x), Signed(y)) \in Int
    BY <2>2, DivisionIsInt
  <2>4. x \div y \in 0 .. x /\ x % y \in 0 .. y - 1
    BY <1>1, <2>1
  <2>5. x \div y \in Value /\ x % y \in Value
    BY <1>1, <2>4 DEF Value
  <2>6. funct7 = 1 /\ funct3 \in {4, 5, 6, 7}
    BY <1>8 DEF IsDivision
  <2> QED
    BY <1>3, <1>8, <2>3, <2>5, <2>6 DEF RResult, DivisionResult
<1> QED
  BY <1>4, <1>5, <1>6, <1>7, <1>8 DEF RKnown, IsDivision

\* Every I-type operation computes a register value from any immediate.
LEMMA IResultInValue ==
  ASSUME NEW funct3 \in 0 .. 7, NEW x \in Value, NEW imm \in Int
  PROVE  IResult(funct3, x, imm) \in Value
<1>1. x \in Nat
  BY AluBits DEF Value
<1>2. imm % XLEN \in 0 .. XLEN - 1
  BY AluWidth
<1>3. Unsigned(imm) \in Value /\ Unsigned(x + imm) \in Value
  BY <1>1, UnsignedInValue
<1>4. ShiftLeft(x, imm % XLEN) \in Value /\ ShiftRight(x, imm % XLEN) \in Value
  BY <1>2, ShiftsInValue
<1>5. Bool(Signed(x) < imm) \in Value /\ Bool(x < Unsigned(imm)) \in Value
  BY BitsInValue DEF Bool
<1>6. /\ BitXor(x, Unsigned(imm)) \in Value
      /\ BitOr(x, Unsigned(imm)) \in Value
      /\ BitAnd(x, Unsigned(imm)) \in Value
  BY <1>3, AluBits
<1>7. funct3 \in {0, 1, 2, 3, 4, 5, 6, 7}
  OBVIOUS
<1> QED
  BY <1>3, <1>4, <1>5, <1>6, <1>7 DEF IResult

-----------------------------------------------------------------------------
Words == {w \in Nat : w < 4294967296}

RvFields == [opcode : Nat, rd : 0 .. 31, rs1 : 0 .. 31, rs2 : 0 .. 31,
             funct3 : 0 .. 7, funct7 : 0 .. 127, imm : Int]

\* The register and function fields.
LEMMA PartsInRange ==
  ASSUME NEW inst \in Int
  PROVE  /\ OpcodeOf(inst) \in 0 .. 127
         /\ RdOf(inst) \in 0 .. 31 /\ Rs1Of(inst) \in 0 .. 31 /\ Rs2Of(inst) \in 0 .. 31
         /\ Funct3Of(inst) \in 0 .. 7 /\ Funct7Of(inst) \in 0 .. 127
         /\ SignBit(inst) \in 0 .. 1
<1>1. OpcodeOf(inst) \in 0 .. 127
  BY SMT DEF OpcodeOf
<1>2. RdOf(inst) \in 0 .. 31 /\ Rs1Of(inst) \in 0 .. 31 /\ Rs2Of(inst) \in 0 .. 31
  BY SMT DEF RdOf, Rs1Of, Rs2Of, Cut
<1>3. Funct3Of(inst) \in 0 .. 7 /\ Funct7Of(inst) \in 0 .. 127
  BY SMT DEF Funct3Of, Funct7Of, Cut
<1>4. SignBit(inst) \in 0 .. 1
  BY SMT DEF SignBit, Cut
<1> QED
  BY SMT, <1>1, <1>2, <1>3, <1>4

\* The immediates of the six formats are integers.
LEMMA ImmediatesInt ==
  ASSUME NEW inst \in Int
  PROVE  {ImmediateI(inst), ImmediateS(inst), ImmediateU(inst),
          BranchOffset(inst), JumpOffset(inst)} \subseteq Int
<1>1. ImmediateI(inst) \in Int
  BY SMT DEF SignExtend, Cut, ImmediateI
<1>2. ImmediateS(inst) \in Int
  BY SMT DEF SignExtend, Cut, RdOf, Funct7Of, ImmediateS
<1>3. BranchOffset(inst) \in Int
  BY SMT DEF SignExtend, Cut, SignBit, BranchOffset
<1>4. JumpOffset(inst) \in Int
  BY SMT DEF SignExtend, Cut, SignBit, JumpOffset
<1>5. ImmediateU(inst) \in Int
  BY SMT DEF Cut, ImmediateU
<1> QED
  BY <1>1, <1>2, <1>3, <1>4, <1>5, Zenon

\* The fields of every word, signed or unsigned, are those the machine expects
\* (CpuAssumption), and the zero word is no instruction.
THEOREM DecoderFits ==
  /\ \A inst \in Int : DecodeWord(inst) \in RvFields
  /\ DecodeWord(0).opcode = 0
<1>1. ASSUME NEW inst \in Int
      PROVE  DecodeWord(inst) \in RvFields
  <2> USE DEF Filled, RvFields
  <2>1. /\ OpcodeOf(inst) \in Nat
        /\ RdOf(inst) \in 0 .. 31 /\ Rs1Of(inst) \in 0 .. 31 /\ Rs2Of(inst) \in 0 .. 31
        /\ Funct3Of(inst) \in 0 .. 7 /\ Funct7Of(inst) \in 0 .. 127
    BY SMT, PartsInRange
  <2>2. ImmediateI(inst) \in Int /\ ImmediateS(inst) \in Int /\ ImmediateU(inst) \in Int
    BY ImmediatesInt, Zenon
  <2>3. BranchOffset(inst) \in Int /\ JumpOffset(inst) \in Int
    BY ImmediatesInt, Zenon
  <2>4. decode_r(inst) \in RvFields /\ decode_i(inst) \in RvFields
    BY SMT, <2>1, <2>2 DEF decode_r, decode_i
  <2>5. decode_s(inst) \in RvFields /\ decode_b(inst) \in RvFields
    BY SMT, <2>1, <2>2, <2>3 DEF decode_s, decode_b
  <2>6. decode_u(inst) \in RvFields /\ decode_j(inst) \in RvFields
    BY SMT, <2>1, <2>2, <2>3 DEF decode_u, decode_j
  <2>7. Undecoded(inst) \in RvFields
    BY SMT, <2>1 DEF Undecoded
  <2> HIDE DEF Filled, RvFields
  <2> QED
    BY SMT, <2>4, <2>5, <2>6, <2>7 DEF DecodeWord
<1>2. DecodeWord(0).opcode = 0
  <2>1. OpcodeOf(0) = 0
    BY SMT DEF OpcodeOf
  <2> QED
    BY SMT, <2>1 DEF DecodeWord, Undecoded, Filled
<1> QED
  BY <1>1, <1>2

-----------------------------------------------------------------------------
\* A word is put together again from what is cut out of it.
LEMMA WordFromParts ==
  ASSUME NEW w \in Words
  PROVE  w = OpcodeOf(w) + 128 * RdOf(w) + 4096 * Funct3Of(w) + 32768 * Rs1Of(w)
             + 1048576 * Rs2Of(w) + 33554432 * Funct7Of(w)
<1>1. w \in Int /\ 0 <= w /\ w < 4294967296
  BY SMT DEF Words
<1> DEFINE d0 == OpcodeOf(w)
<1> DEFINE d1 == RdOf(w)
<1> DEFINE d2 == Funct3Of(w)
<1> DEFINE d3 == Rs1Of(w)
<1> DEFINE d4 == Rs2Of(w)
<1> DEFINE d5 == Funct7Of(w)
<1> DEFINE q1 == w \div 128
<1> DEFINE q2 == w \div 4096
<1> DEFINE q3 == w \div 32768
<1> DEFINE q4 == w \div 1048576
<1>2. w = d0 + 128 * q1
  BY SMT, <1>1 DEF OpcodeOf
<1>3. q1 = d1 + 32 * q2
  BY SMT, <1>1 DEF RdOf, Cut
<1>4. q2 = d2 + 8 * q3
  BY SMT, <1>1 DEF Funct3Of, Cut
<1>5. q3 = d3 + 32 * q4
  BY SMT, <1>1 DEF Rs1Of, Cut
<1>6. q4 = d4 + 32 * d5
  BY SMT, <1>1 DEF Rs2Of, Funct7Of, Cut
<1>7. d0 \in Int /\ d1 \in Int /\ d2 \in Int /\ d3 \in Int /\ d4 \in Int /\ d5 \in Int
  BY SMT, <1>1, PartsInRange
<1>8. q1 \in Int /\ q2 \in Int /\ q3 \in Int /\ q4 \in Int
  BY SMT, <1>1
<1>9. w = d0 + 128 * d1 + 4096 * d2 + 32768 * d3 + 1048576 * d4 + 33554432 * d5
  <2> HIDE DEF d0, d1, d2, d3, d4, d5, q1, q2, q3, q4
  <2> QED
    BY SMT, <1>1, <1>2, <1>3, <1>4, <1>5, <1>6, <1>7, <1>8
<1> QED
  BY SMT, <1>9

\* The pieces of a scattered immediate, from the parts.
LEMMA ImmediateFromParts ==
  ASSUME NEW w \in Words
  PROVE  /\ Cut(w, \h100000, 4096) = Rs2Of(w) + 32 * Funct7Of(w)
         /\ ImmediateU(w) = Funct3Of(w) + 8 * Rs1Of(w) + 256 * Rs2Of(w) + 8192 * Funct7Of(w)
         /\ RdOf(w) = Cut(w, \h80, 2) + 2 * Cut(w, \h100, 16)
         /\ Funct7Of(w) = Cut(w, \h2000000, 64) + 64 * SignBit(w)
         /\ Rs2Of(w) = Cut(w, \h100000, 2) + 2 * (Cut(w, \h200000, 1024) % 16)
         /\ Funct7Of(w) = Cut(w, \h200000, 1024) \div 16 + 64 * SignBit(w)
         /\ Cut(w, \h1000, 256) = Funct3Of(w) + 8 * Rs1Of(w)
<1>1. w \in Int /\ 0 <= w /\ w < 4294967296
  BY SMT DEF Words
<1>2. Cut(w, \h100000, 4096) = Rs2Of(w) + 32 * Funct7Of(w)
  BY SMT, <1>1 DEF Cut, Rs2Of, Funct7Of
<1>3. ImmediateU(w) = Funct3Of(w) + 8 * Rs1Of(w) + 256 * Rs2Of(w) + 8192 * Funct7Of(w)
  BY SMT, <1>1 DEF Cut, Rs2Of, Funct7Of, Rs1Of, Funct3Of, ImmediateU
<1>4. RdOf(w) = Cut(w, \h80, 2) + 2 * Cut(w, \h100, 16)
  BY SMT, <1>1 DEF Cut, RdOf
<1>5. Funct7Of(w) = Cut(w, \h2000000, 64) + 64 * SignBit(w)
  BY SMT, <1>1 DEF Cut, Funct7Of, SignBit
<1>6. Rs2Of(w) = Cut(w, \h100000, 2) + 2 * (Cut(w, \h200000, 1024) % 16)
  BY SMT, <1>1 DEF Cut, Rs2Of
<1>7. Funct7Of(w) = Cut(w, \h200000, 1024) \div 16 + 64 * SignBit(w)
  BY SMT, <1>1 DEF Cut, Funct7Of, SignBit
<1>8. Cut(w, \h1000, 256) = Funct3Of(w) + 8 * Rs1Of(w)
  BY SMT, <1>1 DEF Cut, Funct3Of, Rs1Of
<1> QED
  BY SMT, <1>2, <1>3, <1>4, <1>5, <1>6, <1>7, <1>8

\* Two words with the same parts are the same word.
LEMMA SameParts ==
  ASSUME NEW v \in Words, NEW w \in Words,
         OpcodeOf(v) = OpcodeOf(w), RdOf(v) = RdOf(w), Funct3Of(v) = Funct3Of(w),
         Rs1Of(v) = Rs1Of(w), Rs2Of(v) = Rs2Of(w), Funct7Of(v) = Funct7Of(w)
  PROVE  v = w
  BY SMT, WordFromParts

KnownOpcodes == {\h33, \h13, \h03, \h67, \h73, \h23, \h63, \h37, \h17, \h6F}

\* Sign extension loses nothing.
LEMMA SignExtendInjective ==
  ASSUME NEW n \in Int, NEW x \in Int, NEW y \in Int,
         0 <= x, x < n, 0 <= y, y < n, SignExtend(x, n) = SignExtend(y, n)
  PROVE  x = y
<1>1. CASE 2 * x >= n
  BY SMT, <1>1 DEF SignExtend
<1>2. CASE ~(2 * x >= n)
  BY SMT, <1>2 DEF SignExtend
<1> QED
  BY <1>1, <1>2

\* Equal fields come from equal parts: a field of the record for each part, or
\* for each part of the immediate.
LEMMA ImmediatesInjective ==
  ASSUME NEW v \in Words, NEW w \in Words
  PROVE  /\ ImmediateI(v) = ImmediateI(w)
              => Rs2Of(v) = Rs2Of(w) /\ Funct7Of(v) = Funct7Of(w)
         /\ ImmediateS(v) = ImmediateS(w)
              => RdOf(v) = RdOf(w) /\ Funct7Of(v) = Funct7Of(w)
         /\ ImmediateU(v) = ImmediateU(w)
              => /\ Funct3Of(v) = Funct3Of(w) /\ Rs1Of(v) = Rs1Of(w)
                 /\ Rs2Of(v) = Rs2Of(w) /\ Funct7Of(v) = Funct7Of(w)
         /\ BranchOffset(v) = BranchOffset(w)
              => RdOf(v) = RdOf(w) /\ Funct7Of(v) = Funct7Of(w)
         /\ JumpOffset(v) = JumpOffset(w)
              => /\ Funct3Of(v) = Funct3Of(w) /\ Rs1Of(v) = Rs1Of(w)
                 /\ Rs2Of(v) = Rs2Of(w) /\ Funct7Of(v) = Funct7Of(w)
<1> DEFINE d1 == RdOf(v)
<1> DEFINE d2 == RdOf(w)
<1> DEFINE f1 == Funct3Of(v)
<1> DEFINE f2 == Funct3Of(w)
<1> DEFINE s1 == Rs1Of(v)
<1> DEFINE s2 == Rs1Of(w)
<1> DEFINE t1 == Rs2Of(v)
<1> DEFINE t2 == Rs2Of(w)
<1> DEFINE g1 == Funct7Of(v)
<1> DEFINE g2 == Funct7Of(w)
<1>1. /\ d1 \in 0 .. 31 /\ s1 \in 0 .. 31 /\ t1 \in 0 .. 31 /\ f1 \in 0 .. 7
      /\ g1 \in 0 .. 127 /\ SignBit(v) \in 0 .. 1
      /\ d2 \in 0 .. 31 /\ s2 \in 0 .. 31 /\ t2 \in 0 .. 31 /\ f2 \in 0 .. 7
      /\ g2 \in 0 .. 127 /\ SignBit(w) \in 0 .. 1
  BY SMT, PartsInRange DEF Words
<1>2. ImmediateI(v) = ImmediateI(w) => t1 = t2 /\ g1 = g2
  <2>1. /\ ImmediateI(v) = SignExtend(t1 + 32 * g1, 4096)
        /\ ImmediateI(w) = SignExtend(t2 + 32 * g2, 4096)
    BY SMT, ImmediateFromParts DEF ImmediateI
  <2> HIDE DEF t1, t2, g1, g2
  <2> QED
    BY SMT, <1>1, <2>1 DEF SignExtend
<1>3. ImmediateS(v) = ImmediateS(w) => d1 = d2 /\ g1 = g2
  <2>1. /\ ImmediateS(v) = SignExtend(d1 + 32 * g1, 4096)
        /\ ImmediateS(w) = SignExtend(d2 + 32 * g2, 4096)
    BY SMT DEF ImmediateS
  <2> HIDE DEF d1, d2, g1, g2
  <2> QED
    BY SMT, <1>1, <2>1 DEF SignExtend
<1>4. ImmediateU(v) = ImmediateU(w) => f1 = f2 /\ s1 = s2 /\ t1 = t2 /\ g1 = g2
  <2>1. /\ ImmediateU(v) = f1 + 8 * s1 + 256 * t1 + 8192 * g1
        /\ ImmediateU(w) = f2 + 8 * s2 + 256 * t2 + 8192 * g2
    BY SMT, ImmediateFromParts
  <2> HIDE DEF f1, f2, s1, s2, t1, t2, g1, g2
  <2> QED
    BY SMT, <1>1, <2>1
<1>5. BranchOffset(v) = BranchOffset(w) => RdOf(v) = RdOf(w) /\ Funct7Of(v) = Funct7Of(w)
  <2> DEFINE p1 == Cut(v, \h100, 16)
  <2> DEFINE p2 == Cut(w, \h100, 16)
  <2> DEFINE q1 == Cut(v, \h2000000, 64)
  <2> DEFINE q2 == Cut(w, \h2000000, 64)
  <2> DEFINE r1 == Cut(v, \h80, 2)
  <2> DEFINE r2 == Cut(w, \h80, 2)
  <2>1. p1 \in 0 .. 15 /\ p2 \in 0 .. 15 /\ q1 \in 0 .. 63 /\ q2 \in 0 .. 63
        /\ r1 \in 0 .. 1 /\ r2 \in 0 .. 1
    BY SMT DEF Cut, Words
  <2>2. /\ RdOf(v) = r1 + 2 * p1 /\ Funct7Of(v) = q1 + 64 * SignBit(v)
        /\ RdOf(w) = r2 + 2 * p2 /\ Funct7Of(w) = q2 + 64 * SignBit(w)
    BY SMT, ImmediateFromParts
  <2>3. /\ BranchOffset(v) = SignExtend(2 * p1 + 32 * q1 + 2048 * r1 + 4096 * SignBit(v), 8192)
        /\ BranchOffset(w) = SignExtend(2 * p2 + 32 * q2 + 2048 * r2 + 4096 * SignBit(w), 8192)
    BY SMT DEF BranchOffset
  <2> HIDE DEF p1, p2, q1, q2, r1, r2
  <2>4. BranchOffset(v) = BranchOffset(w)
          => p1 = p2 /\ q1 = q2 /\ r1 = r2 /\ SignBit(v) = SignBit(w)
    BY SMT, <1>1, <2>1, <2>3 DEF SignExtend
  <2> QED
    BY SMT, <2>2, <2>4
<1>6. JumpOffset(v) = JumpOffset(w)
         => /\ Funct3Of(v) = Funct3Of(w) /\ Rs1Of(v) = Rs1Of(w)
            /\ Rs2Of(v) = Rs2Of(w) /\ Funct7Of(v) = Funct7Of(w)
  <2> DEFINE p1 == Cut(v, \h200000, 1024)
  <2> DEFINE p2 == Cut(w, \h200000, 1024)
  <2> DEFINE q1 == Cut(v, \h100000, 2)
  <2> DEFINE q2 == Cut(w, \h100000, 2)
  <2> DEFINE r1 == Cut(v, \h1000, 256)
  <2> DEFINE r2 == Cut(w, \h1000, 256)
  <2>1. p1 \in 0 .. 1023 /\ p2 \in 0 .. 1023 /\ q1 \in 0 .. 1 /\ q2 \in 0 .. 1
        /\ r1 \in 0 .. 255 /\ r2 \in 0 .. 255
    BY SMT DEF Cut, Words
  <2>2. /\ Rs2Of(v) = q1 + 2 * (p1 % 16) /\ Funct7Of(v) = p1 \div 16 + 64 * SignBit(v)
        /\ Rs2Of(w) = q2 + 2 * (p2 % 16) /\ Funct7Of(w) = p2 \div 16 + 64 * SignBit(w)
        /\ r1 = Funct3Of(v) + 8 * Rs1Of(v) /\ r2 = Funct3Of(w) + 8 * Rs1Of(w)
    BY SMT, ImmediateFromParts
  <2>3. /\ JumpOffset(v)
             = SignExtend(2 * p1 + 2048 * q1 + 4096 * r1 + 1048576 * SignBit(v), 2097152)
        /\ JumpOffset(w)
             = SignExtend(2 * p2 + 2048 * q2 + 4096 * r2 + 1048576 * SignBit(w), 2097152)
    BY SMT DEF JumpOffset
  <2> HIDE DEF p1, p2, q1, q2, r1, r2
  <2>4. JumpOffset(v) = JumpOffset(w)
          => p1 = p2 /\ q1 = q2 /\ r1 = r2 /\ SignBit(v) = SignBit(w)
    <3> DEFINE b1 == SignBit(v)
    <3> DEFINE b2 == SignBit(w)
    <3>1. /\ b1 \in 0 .. 1 /\ b2 \in 0 .. 1
          /\ JumpOffset(v) = SignExtend(2 * p1 + 2048 * q1 + 4096 * r1 + 1048576 * b1, 2097152)
          /\ JumpOffset(w) = SignExtend(2 * p2 + 2048 * q2 + 4096 * r2 + 1048576 * b2, 2097152)
      BY SMT, <1>1, <2>3
    <3> HIDE DEF b1, b2
    <3> DEFINE u1 == r1 + 256 * b1
    <3> DEFINE u2 == r2 + 256 * b2
    <3> DEFINE z1 == q1 + 2 * u1
    <3> DEFINE z2 == q2 + 2 * u2
    <3> DEFINE x1 == 2 * p1 + 2048 * z1
    <3> DEFINE x2 == 2 * p2 + 2048 * z2
    <3>2. u1 \in 0 .. 511 /\ u2 \in 0 .. 511
      BY SMT, <2>1, <3>1
    <3>3. u1 = u2 => r1 = r2 /\ b1 = b2
      BY SMT, <2>1, <3>1
    <3>4. JumpOffset(v) = SignExtend(x1, 2097152) /\ JumpOffset(w) = SignExtend(x2, 2097152)
      <4>1. /\ x1 = 2 * p1 + 2048 * q1 + 4096 * r1 + 1048576 * b1
            /\ x2 = 2 * p2 + 2048 * q2 + 4096 * r2 + 1048576 * b2
        BY SMT, <2>1, <3>1
      <4> QED
        BY SMT, <3>1, <4>1
    <3>5. z1 \in 0 .. 1023 /\ z2 \in 0 .. 1023 /\ (z1 = z2 => q1 = q2 /\ u1 = u2)
      <4> HIDE DEF u1, u2
      <4> QED
        BY SMT, <2>1, <3>2
    <3>6. x1 = x2 => p1 = p2 /\ z1 = z2
      <4> HIDE DEF z1, z2
      <4>1. p1 \in 0 .. 1023 /\ p2 \in 0 .. 1023 /\ z1 \in Int /\ z2 \in Int
        BY SMT, <2>1, <3>5
      <4>2. ASSUME x1 = x2 PROVE p1 - p2 = 1024 * (z2 - z1)
        BY SMT, <4>1, <4>2
      <4>3. ASSUME x1 = x2 PROVE z2 - z1 < 1 /\ z2 - z1 > -1
        BY SMT, <4>1, <4>2, <4>3
      <4> QED
        BY SMT, <4>1, <4>2, <4>3
    <3>7. /\ x1 \in Int /\ 0 <= x1 /\ x1 < 2097152
          /\ x2 \in Int /\ 0 <= x2 /\ x2 < 2097152
      <4> HIDE DEF z1, z2
      <4> QED
        BY SMT, <2>1, <3>5
    <3> HIDE DEF u1, u2, z1, z2, x1, x2
    <3>8. SignExtend(x1, 2097152) = SignExtend(x2, 2097152) => x1 = x2
      BY SMT, <3>7, SignExtendInjective
    <3>9. JumpOffset(v) = JumpOffset(w) => b1 = b2 /\ p1 = p2 /\ q1 = q2 /\ r1 = r2
      BY SMT, <3>3, <3>4, <3>5, <3>6, <3>8
    <3> QED
      BY <3>9, Zenon DEF b1, b2
  <2>5. r1 = r2 => f1 = f2 /\ s1 = s2
    <3>1. r1 = f1 + 8 * s1 /\ r2 = f2 + 8 * s2
      BY SMT, <2>2
    <3> HIDE DEF f1, f2, s1, s2
    <3> QED
      BY SMT, <1>1, <3>1
  <2> QED
    BY SMT, <2>2, <2>4, <2>5
<1> QED
  BY <1>2, <1>3, <1>4, <1>5, <1>6, Zenon

\* Decoding loses nothing: a word of a known format can be told from every other
\* word by its fields, so no two instructions are executed or printed as one.
THEOREM DecodingIsInjective ==
  \A v, w \in Words :
    OpcodeOf(v) \in KnownOpcodes /\ DecodeWord(v) = DecodeWord(w) => v = w
<1> SUFFICES ASSUME NEW v \in Words, NEW w \in Words,
                    OpcodeOf(v) \in KnownOpcodes, DecodeWord(v) = DecodeWord(w)
             PROVE  v = w
  BY Zenon
<1>1. OpcodeOf(v) = OpcodeOf(w)
  <2>1. \A u \in Words : DecodeWord(u).opcode = OpcodeOf(u)
    BY SMT DEF DecodeWord, Undecoded, Filled, decode_r, decode_i, decode_s, decode_b,
               decode_u, decode_j
  <2> QED
    BY <2>1, Zenon
<1>2. CASE OpcodeOf(v) = \h33
  <2>1. decode_r(v) = decode_r(w)
    BY SMT, <1>1, <1>2 DEF DecodeWord
  <2> QED
    BY SMT, <1>1, <2>1, SameParts DEF decode_r, Filled
<1>3. CASE OpcodeOf(v) \in {\h13, \h03, \h67, \h73}
  <2>1. decode_i(v) = decode_i(w)
    BY SMT, <1>1, <1>3 DEF DecodeWord
  <2> QED
    BY SMT, <1>1, <2>1, SameParts, ImmediatesInjective DEF decode_i, Filled
<1>4. CASE OpcodeOf(v) = \h23
  <2>1. decode_s(v) = decode_s(w)
    BY SMT, <1>1, <1>4 DEF DecodeWord
  <2> QED
    BY SMT, <1>1, <2>1, SameParts, ImmediatesInjective DEF decode_s, Filled
<1>5. CASE OpcodeOf(v) = \h63
  <2>1. decode_b(v) = decode_b(w)
    BY SMT, <1>1, <1>5 DEF DecodeWord
  <2> QED
    BY SMT, <1>1, <2>1, SameParts, ImmediatesInjective DEF decode_b, Filled
<1>6. CASE OpcodeOf(v) \in {\h37, \h17}
  <2>1. decode_u(v) = decode_u(w)
    BY SMT, <1>1, <1>6 DEF DecodeWord
  <2> QED
    BY SMT, <1>1, <2>1, SameParts, ImmediatesInjective DEF decode_u, Filled
<1>7. CASE OpcodeOf(v) = \h6F
  <2>1. decode_j(v) = decode_j(w)
    BY SMT, <1>1, <1>7 DEF DecodeWord
  <2> QED
    BY SMT, <1>1, <2>1, SameParts, ImmediatesInjective DEF decode_j, Filled
<1> QED
  BY <1>2, <1>3, <1>4, <1>5, <1>6, <1>7, Zenon DEF KnownOpcodes

-----------------------------------------------------------------------------
\* A digit and a number of m values make a number of d * m values.
LEMMA Digit ==
  ASSUME NEW d \in Nat \ {0}, NEW m \in Nat \ {0},
         NEW x \in 0 .. d - 1, NEW y \in 0 .. m - 1
  PROVE  x + d * y \in 0 .. d * m - 1
<1>1. d * y >= 0 /\ d * y \in Int
  OBVIOUS
<1>2. d * y <= d * (m - 1)
  OBVIOUS
<1>3. d * (m - 1) = d * m - d
  OBVIOUS
<1> QED
  BY <1>1, <1>2, <1>3

\* A word of memory, read as a number, fits a register.
LEMMA ValueOfWord == \A v \in Word : ValueOf(v) \in Value
<1> SUFFICES ASSUME NEW v \in Word PROVE ValueOf(v) \in Value
  OBVIOUS
<1> DEFINE d == ByteMod
<1>1. d \in Nat \ {0} /\ \A l \in {0, 1, 2, 3} : v[l] \in 0 .. d - 1
  BY CpuAssumption, AluBytes DEF Word, Lane
<1>2. d * d \in Nat \ {0} /\ d * (d * d) \in Nat \ {0}
  BY <1>1
<1> DEFINE y == v[2] + d * v[3]
           z == v[1] + d * y
<1>3. y \in 0 .. d * d - 1
  BY <1>1, Digit
<1>4. z \in 0 .. d * (d * d) - 1
  <2> HIDE DEF y
  <2> QED
    BY <1>1, <1>2, <1>3, Digit
<1>5. v[0] + d * z \in 0 .. d * (d * (d * d)) - 1
  <2> HIDE DEF z
  <2> QED
    BY <1>1, <1>2, <1>4, Digit
<1>6. W = d * (d * (d * d))
  BY <1>1, AluBytes
<1> QED
  BY <1>5, <1>6 DEF ValueOf, Value

\* A register value, cut into bytes, is a v of memory.
LEMMA LanesAreWord == \A v \in Value : Lanes(v) \in Word
<1> SUFFICES ASSUME NEW v \in Value, NEW l \in Lane
             PROVE  (v \div ByteMod^l) % ByteMod \in Byte
  BY DEF Lanes, Word
<1>1. ByteMod^l \in Nat \ {0} /\ v \in Nat
  BY CpuAssumption, AluBits DEF Value
<1> DEFINE m == ByteMod^l
<1> HIDE DEF m
<1>2. v \div m \in Int
  BY <1>1 DEF m
<1> QED
  BY <1>2, CpuAssumption, AluBytes DEF m

\* Registers hold the addresses of memory, and no others.
LEMMA AddressesAreValues == Addr = Value
  BY CpuAssumption DEF Addr, Value

\* Address arithmetic wraps.
LEMMA PlusInValue == \A v \in Value, offset \in Int : Plus(v, offset) \in Value
  BY UnsignedInValue, AluBits DEF Plus, Value

\* What the machine has fetched at a turn.
LEMMA FetchTyped ==
  ASSUME TypeOK
  PROVE  /\ Instruction \in Fields
         /\ Fetched \in PageTable
         /\ DataAddress \in Addr
<1>1. pc \in Addr /\ mem \in PageTable
  BY AddressesAreValues DEF TypeOK
<1>2. Fetched \in PageTable
  BY <1>1, GetPage DEF Fetched
<1>3. Instruction \in Fields
  BY <1>1, ReadsAreWords, ValueOfWord, CpuAssumption DEF Instruction
<1>4. registers[Instruction.rs1] \in Value /\ Instruction.imm \in Int
  BY <1>3 DEF TypeOK, Fields
<1>5. DataAddress \in Addr
  BY <1>4, PlusInValue, AddressesAreValues DEF DataAddress
<1> QED
  BY <1>2, <1>3, <1>5

\* The end of a turn keeps the text of the line a marked or unmarked length.
LEMMA EndedTyped ==
  ASSUME NEW buffer \in [marked : BOOLEAN, strlen : Nat], NEW f, NEW flag
  PROVE  Ended(Marked(Disassembled(buffer, f), flag)) \in [marked : BOOLEAN, strlen : Nat]
<1>1. BufSize \in Nat /\ TextLen \in Nat /\ MarkLen \in Nat
  BY CpuAssumption
<1> DEFINE text == Disassembled(buffer, f)
<1>2. text \in [marked : BOOLEAN, strlen : Nat]
  BY <1>1 DEF Disassembled
<1>3. Marked(text, flag) \in [marked : BOOLEAN, strlen : Nat]
  <2> HIDE DEF text
  <2> QED  BY <1>1, <1>2 DEF Marked
<1> QED
  BY <1>1, <1>3 DEF Ended

\* The end of a turn keeps the log and the counters typed.
LEMMA RetireTyped ==
  ASSUME TypeOK, NEW flag \in {0, 2}, Retire(flag), pc' \in Value
  PROVE  /\ insns' \in Nat
         /\ flag1' \in {0, 2}
         /\ line' \in [n : Nat, arrow : BOOLEAN, address : Value \cup {-1}]
         /\ result' \in [marked : BOOLEAN, strlen : Nat]
<1>1. result' \in [marked : BOOLEAN, strlen : Nat]
  BY EndedTyped DEF Retire, TypeOK
<1> QED
  BY <1>1 DEF Retire, TypeOK

\* An abort leaves the machine typed, whatever it has done to the memory.
LEMMA AbortTyped ==
  ASSUME TypeOK, NEW how \in {"exited", "crashed"}, Abort(how),
         mem' \in PageTable, out' \in Seq(0 .. ByteMod - 1 \cup {Notice})
  PROVE  TypeOK'
<1>1. PredictorTypeOK'
  BY DEF Abort, predictorVars, TypeOK, PredictorTypeOK, Stat
<1>2. line' \in [n : Nat, arrow : BOOLEAN, address : Value \cup {-1}]
  BY DEF Abort, TypeOK
<1> QED
  BY <1>1, <1>2 DEF Abort, TypeOK

\* A diagnostic, or a byte, is added to what is on stdout.
LEMMA OutTyped ==
  ASSUME TypeOK, NEW x \in 0 .. ByteMod - 1 \cup {Notice}
  PROVE  Append(out, x) \in Seq(0 .. ByteMod - 1 \cup {Notice})
  BY DEF TypeOK

\* exit(-1) leaves the machine typed.
LEMMA UnalignedTyped ==
  ASSUME TypeOK, Unaligned, mem' \in PageTable
  PROVE  TypeOK'
  BY OutTyped, AbortTyped DEF Unaligned

\* An instruction that ends its turn and leaves the predictors alone.
LEMMA TurnTyped ==
  ASSUME TypeOK, NEW flag \in {0, 2}, Retire(flag), UNCHANGED predictorVars,
         registers' \in [Reg -> Value], pc' \in Value, mem' \in PageTable,
         status' \in {"running", "stopped", "exited", "crashed"},
         in' \in Seq(Value), out' \in Seq(0 .. ByteMod - 1 \cup {Notice})
  PROVE  TypeOK'
<1>1. PredictorTypeOK'
  BY DEF predictorVars, TypeOK, PredictorTypeOK, Stat
<1> QED
  BY <1>1, RetireTyped DEF TypeOK

\* The same when only registers change and pc advances.
LEMMA SimpleTurnTyped ==
  ASSUME TypeOK, registers' \in [Reg -> Value], mem' \in PageTable,
         Advance, Retire(0), UNCHANGED <<status, in, out, predictorVars>>
  PROVE  TypeOK'
<1>1. pc' \in Value
  BY PlusInValue DEF Advance, TypeOK
<1> QED
  BY <1>1, TurnTyped DEF TypeOK

\* A loaded value fits a register, and a store keeps memory a table of pages.
LEMMA LoadTyped ==
  ASSUME NEW m \in PageTable, NEW addr \in Addr, NEW funct3 \in {0, 1, 2, 4, 5}
  PROVE  Loaded(funct3, m, addr) \in Value
<1>1. /\ ValueOf(memory_rd_b(m, addr)) \in Value
      /\ ValueOf(memory_rd_h(m, addr)) \in Value
      /\ ValueOf(memory_rd_w(m, addr)) \in Value
  BY ReadsAreWords, ValueOfWord
<1>2. \A v \in Value, n \in Int : Extend(v, n) \in Value
  BY UnsignedInValue, AluBits DEF Extend, Value
<1>3. ByteMod \in Int /\ ByteMod * ByteMod \in Int
  BY AluBytes
<1>4. ValueOf(Read(funct3, m, addr)) \in Value
  BY <1>1 DEF Read
<1> QED
  BY <1>2, <1>3, <1>4 DEF Loaded, LoadResult

\* A store keeps memory a table of pages.
LEMMA StoreTyped ==
  ASSUME NEW m \in PageTable, NEW addr \in Addr, NEW funct3 \in {0, 1, 2},
         NEW v \in Value, Aligned(addr, Bytes(funct3))
  PROVE  Stored(funct3, m, addr, v) \in PageTable
<1>1. Lanes(v) \in Word
  BY LanesAreWord
<1>2. Bytes(0) = 1 /\ Bytes(1) = 2 /\ Bytes(2) = 4
  BY DEF Bytes
<1>3. CASE funct3 = 0
  BY <1>1, <1>3, WriteByteStores DEF Stored, StoresBytes
<1>4. CASE funct3 = 1
  BY <1>1, <1>2, <1>4, WriteHalfStores DEF Stored, StoresBytes
<1>5. CASE funct3 = 2
  BY <1>1, <1>2, <1>5, WriteWordStores DEF Stored, StoresBytes
<1> QED
  BY <1>3, <1>4, <1>5

-----------------------------------------------------------------------------
\* A program starts well typed.
LEMMA InitTypeOK == Init => TypeOK
<1> SUFFICES ASSUME Init PROVE TypeOK
  OBVIOUS
<1>1. result \in [marked : BOOLEAN, strlen : Nat]
  <2>1. FirstLengths \subseteq Nat
    BY CpuAssumption
  <2> QED
    BY <2>1 DEF Init
<1>2. PredictorTypeOK
  BY InitialPredictors DEF Init
<1>3. pc \in Value /\ 0 \in Value /\ Images \subseteq PageTable
  BY CpuAssumption, BitsInValue DEF Init
<1> QED
  BY <1>1, <1>2, <1>3 DEF Init, TypeOK

\* A branch instruction gives the predictors an outcome and the address that
\* execution continues at.
LEMMA BranchOutcome ==
  ASSUME TypeOK, BType
  PROVE  \E target \in Value, taken \in {0, 1} :
           pc' = target /\ Branch(target, Instruction.imm, taken)
<1> DEFINE f == Instruction
           taken == IF BranchKnown(f.funct3)
                    THEN Bool(Holds(f.funct3, registers[f.rs1], registers[f.rs2])) ELSE 0
           target == IF ~BranchKnown(f.funct3) THEN pc
                     ELSE Plus(pc, IF taken = 1 THEN f.imm ELSE 4)
<1>1. taken \in {0, 1}
  BY DEF Bool
<1>2. f.imm \in Int /\ pc \in Value
  BY FetchTyped DEF Fields, TypeOK
<1>3. (IF taken = 1 THEN f.imm ELSE 4) \in Int
  BY <1>2
<1>4. target \in Value
  BY <1>2, <1>3, PlusInValue
<1>5. pc' = target /\ Branch(target, f.imm, taken)
  BY DEF BType
<1> QED
  BY <1>1, <1>4, <1>5

\* Every turn keeps the machine well typed: one step per action.
LEMMA NextTypeOK == TypeOK /\ [Next]_vars => TypeOK'
<1> SUFFICES ASSUME TypeOK, [Next]_vars PROVE TypeOK'
  OBVIOUS
<1> DEFINE f == Instruction
<1>0. /\ f \in Fields /\ Fetched \in PageTable /\ DataAddress \in Addr
      /\ registers[f.rs1] \in Value /\ registers[f.rs2] \in Value
      /\ registers \in [Reg -> Value] /\ pc \in Value /\ 0 \in Value /\ 1 \in Value
  BY FetchTyped, BitsInValue DEF TypeOK, Fields
<1> HIDE DEF f
<1>1. CASE FetchUnaligned
  BY <1>0, <1>1, UnalignedTyped DEF FetchUnaligned, TypeOK
<1>2. CASE NoHostMemory
  <2>1. mem' \in PageTable
    BY <1>0, <1>2 DEF NoHostMemory, TypeOK
  <2> QED
    BY <1>2, <2>1, AbortTyped DEF NoHostMemory, TypeOK
<1>3. CASE RType
  <2>1. RKnown(f.funct7, f.funct3)
          => RResult(f.funct7, f.funct3, registers[f.rs1], registers[f.rs2]) \in Value
    BY <1>0, RResultInValue DEF Fields
  <2>2. registers' \in [Reg -> Value]
    BY <1>0, <1>3, <2>1 DEF RType, SetReg, f, Fields
  <2> QED
    BY <1>0, <1>3, <2>2, SimpleTurnTyped DEF RType
<1>4. CASE DivideFault
  BY <1>0, <1>4, AbortTyped DEF DivideFault, TypeOK
<1>5. CASE IType
  <2>1. IResult(f.funct3, registers[f.rs1], f.imm) \in Value
    BY <1>0, IResultInValue DEF Fields
  <2>2. registers' \in [Reg -> Value]
    BY <1>0, <1>5, <2>1 DEF IType, SetReg, f, Fields
  <2> QED
    BY <1>0, <1>5, <2>2, SimpleTurnTyped DEF IType
<1>6. CASE Load
  <2>1. mem' \in PageTable
    BY <1>0, <1>6, GetPage DEF Load
  <2>2. Loaded(f.funct3, Fetched, DataAddress) \in Value
    BY <1>0, <1>6, LoadTyped DEF Load, LoadKnown, f
  <2>3. CASE Aligned(DataAddress, Bytes(f.funct3))
    <3>1. registers' \in [Reg -> Value]
      BY <1>0, <1>6, <2>2, <2>3 DEF Load, SetReg, f, Fields
    <3> QED
      BY <1>6, <2>1, <2>3, <3>1, SimpleTurnTyped DEF Load, f
  <2>4. CASE ~Aligned(DataAddress, Bytes(f.funct3))
    BY <1>6, <2>1, <2>4, UnalignedTyped DEF Load, f
  <2> QED
    BY <2>3, <2>4
<1>7. CASE Store
  <2>1. CASE Aligned(DataAddress, Bytes(f.funct3))
    <3>1. mem' \in PageTable
      BY <1>0, <1>7, <2>1, StoreTyped DEF Store, StoreKnown, f
    <3> QED
      BY <1>0, <1>7, <2>1, <3>1, SimpleTurnTyped DEF Store, f
  <2>2. CASE ~Aligned(DataAddress, Bytes(f.funct3))
    BY <1>0, <1>7, <2>2, UnalignedTyped DEF Store, f
  <2> QED
    BY <2>1, <2>2
<1>8. CASE BType
  <2>1. PICK target \in Value, taken \in {0, 1} :
          pc' = target /\ Branch(target, Instruction.imm, taken)
    BY <1>8, BranchOutcome
  <2>2. PredictorTypeOK'
    <3>1. target \in Int /\ Instruction.imm \in Int /\ PredictorTypeOK
      BY <1>0, AluBits DEF TypeOK, Fields, Value, f
    <3> QED
      BY <2>1, <3>1, BranchTypeOK
  <2>3. Retire(0) /\ mem' = Fetched /\ UNCHANGED <<registers, status, in, out>>
    BY <1>8 DEF BType, BranchFlag
  <2> QED
    BY <1>0, <2>1, <2>2, <2>3, RetireTyped DEF TypeOK
<1>9. ASSUME NEW target \in Value, Jump(target), registers' \in [Reg -> Value]
      PROVE  TypeOK'
  <2>1. out' \in Seq(0 .. ByteMod - 1 \cup {Notice})
    BY <1>9, OutTyped DEF Jump, TypeOK
  <2> QED
    BY <1>0, <1>9, <2>1, TurnTyped DEF Jump, TypeOK
<1>10. Linked(f.rd) \in [Reg -> Value]
  <2>1. Plus(pc, 4) \in Value
    BY <1>0, PlusInValue
  <2> QED
    BY <1>0, <2>1 DEF Linked, Fields
<1>11. CASE Jal
  <2>1. Plus(pc, f.imm) \in Value
    BY <1>0, PlusInValue DEF Fields
  <2> QED
    BY <1>9, <1>10, <1>11, <2>1 DEF Jal, f
<1>12. CASE Jalr
  <2>1. Plus(Linked(f.rd)[f.rs1], f.imm) \in Value
    BY <1>0, <1>10, PlusInValue DEF Fields
  <2>2. \A v \in Value : Even(v) \in Value
    BY AluBits DEF Even, Value
  <2> QED
    BY <1>0, <1>9, <1>10, <1>12, <2>1, <2>2 DEF Jalr, f
<1>13. Upper \in Int
  BY <1>0, CpuAssumption DEF Upper, Fields, f
<1>14. CASE Lui
  <2>1. Unsigned(Upper) \in Value
    BY <1>13, UnsignedInValue
  <2>2. registers' \in [Reg -> Value]
    BY <1>0, <1>14, <2>1 DEF Lui, SetReg
  <2> QED
    BY <1>0, <1>14, <2>2, SimpleTurnTyped DEF Lui
<1>15. CASE Auipc
  <2>1. Plus(pc, Upper) \in Value
    BY <1>0, <1>13, PlusInValue
  <2>2. registers' \in [Reg -> Value]
    BY <1>0, <1>15, <2>1 DEF Auipc, SetReg
  <2> QED
    BY <1>0, <1>15, <2>2, SimpleTurnTyped DEF Auipc
<1>16. CASE Ecall
  <2>0. 10 \in Reg
    BY CpuAssumption
  <2>1. /\ registers' \in [Reg -> Value] /\ in' \in Seq(Value)
        /\ out' \in Seq(0 .. ByteMod - 1 \cup {Notice})
        /\ status' \in {"running", "stopped", "exited", "crashed"}
    <3>1. CASE Getchar
      BY <1>0, <3>1, CpuAssumption DEF Getchar, SetReg, TypeOK
    <3>2. CASE Putchar
      <4>1. registers[10] % ByteMod \in 0 .. ByteMod - 1
        <5>1. registers[10] \in Int /\ ByteMod \in Nat \ {0}
          BY <1>0, <2>0, CpuAssumption, AluBytes, AluBits DEF Value
        <5> QED
          BY <5>1
      <4> QED
        BY <1>0, <3>2, <4>1, OutTyped DEF Putchar, TypeOK
    <3>3. CASE Stop
      BY <3>3 DEF Stop, TypeOK
    <3>4. CASE Unsupported
      BY <3>4, OutTyped DEF Unsupported, TypeOK
    <3> QED
      BY <1>16, <3>1, <3>2, <3>3, <3>4 DEF Ecall
  <2>2. pc' \in Value
    BY <1>0, <1>16, PlusInValue DEF Ecall, Advance
  <2> QED
    BY <1>0, <1>16, <2>1, <2>2, TurnTyped DEF Ecall
<1>17. CASE Unknown
  BY <1>0, <1>17, SimpleTurnTyped DEF Unknown
<1>18. CASE UNCHANGED vars
  BY <1>18 DEF vars, TypeOK, PredictorTypeOK, Stat
<1> QED
  BY <1>1, <1>2, <1>3, <1>4, <1>5, <1>6, <1>7, <1>8, <1>11, <1>12, <1>14, <1>15,
     <1>16, <1>17, <1>18 DEF Next

\* Whatever program is loaded, and whatever it reads: registers and addresses
\* keep to their bits, memory to its pages, the log and stdout to their types.
THEOREM TypeCorrect == Spec => []TypeOK
  BY InitTypeOK, NextTypeOK, PTL DEF Spec

-----------------------------------------------------------------------------
\* A turn that finishes numbers its log line and counts; one that is aborted
\* leaves the count at the number of its line.
LEMMA TurnTallies ==
  ASSUME TypeOK, TalliesAgree, pc' \in Value,
         \/ Retire(0) \/ Retire(2) \/ Abort("exited") \/ Abort("crashed"),
         UNCHANGED predictorVars
  PROVE  TalliesAgree'
<1>1. StatsAccountForTables' /\ stat' = stat
  BY DEF predictorVars, TalliesAgree, StatsAccountForTables, PredictTaken
<1>2. insns \in Nat /\ stat.branches \in Nat /\ stat.branches <= insns
  BY DEF TypeOK, PredictorTypeOK, Stat, TalliesAgree
<1>3. CASE Retire(0) \/ Retire(2)
  <2>1. insns' = insns + 1 /\ line'.n = insns /\ line'.address = pc' /\ pc' # -1
    BY <1>3, AluBits DEF Retire, Value
  <2> QED
    BY <1>1, <1>2, <2>1 DEF TalliesAgree
<1>4. CASE Abort("exited") \/ Abort("crashed")
  <2>1. insns' = insns /\ line'.n = insns /\ line'.address = -1
    BY <1>4 DEF Abort
  <2> QED
    BY <1>1, <1>2, <2>1 DEF TalliesAgree
<1> QED
  BY <1>3, <1>4

\* A branch adds one to both counts.
LEMMA BranchTallies ==
  ASSUME TypeOK, TalliesAgree, BType
  PROVE  TalliesAgree'
<1>1. PICK target \in Value, taken \in {0, 1} :
        pc' = target /\ Branch(target, Instruction.imm, taken)
  BY BranchOutcome
<1>2. StatsAccountForTables'
  <2>1. target \in Int
    BY AluBits DEF Value
  <2>2. Instruction.imm \in Int
    BY FetchTyped DEF Fields
  <2>3. PredictorTypeOK /\ StatsAccountForTables
    BY DEF TypeOK, TalliesAgree
  <2> QED
    BY <1>1, <2>1, <2>2, <2>3, BranchStatsAccount
<1>3. insns \in Nat /\ stat.branches \in Nat /\ stat.branches <= insns
  BY DEF TypeOK, PredictorTypeOK, Stat, TalliesAgree
<1>4. stat'.branches = stat.branches + 1
  BY <1>1 DEF Branch
<1>5. insns' = insns + 1 /\ line'.n = insns /\ line'.address = pc' /\ pc' # -1
  <2>1. Retire(0)
    BY DEF BType, BranchFlag
  <2>2. pc' # -1
    BY <1>1, AluBits DEF Value
  <2> QED
    BY <2>1, <2>2 DEF Retire
<1>6. stat'.branches <= insns'
  BY <1>3, <1>4, <1>5
<1>7. line'.n = insns' - 1 /\ line'.address # -1
  BY <1>3, <1>5
<1> QED
  BY <1>2, <1>6, <1>7 DEF TalliesAgree

\* The statistics, the number of instructions and the log agree at every turn
\* of every program.
THEOREM Tallies == Spec => []TalliesAgree
<1>1. Init => TalliesAgree
  BY InitialPredictors DEF Init, PredictorInit, TalliesAgree
<1>2. TypeOK /\ TalliesAgree /\ [Next]_vars => TalliesAgree'
  <2> SUFFICES ASSUME TypeOK, TalliesAgree, [Next]_vars PROVE TalliesAgree'
    OBVIOUS
  <2>1. pc' \in Value
    BY NextTypeOK DEF TypeOK
  <2>0. \A how : Abort(how) => UNCHANGED predictorVars
    BY DEF Abort
  <2>2. CASE FetchUnaligned \/ NoHostMemory \/ DivideFault
    BY <2>0, <2>1, <2>2, TurnTallies DEF FetchUnaligned, NoHostMemory, DivideFault, Unaligned
  <2>3. CASE RType \/ IType \/ Lui \/ Auipc \/ Ecall \/ Unknown
    BY <2>1, <2>3, TurnTallies DEF RType, IType, Lui, Auipc, Ecall, Unknown
  <2>4. CASE Load \/ Store
    BY <2>0, <2>1, <2>4, TurnTallies DEF Load, Store, Unaligned
  <2>5. CASE BType
    BY <2>5, BranchTallies
  <2>6. CASE Jal \/ Jalr
    BY <2>1, <2>6, TurnTallies DEF Jal, Jalr, Jump
  <2>7. CASE UNCHANGED vars
    BY <2>7 DEF vars, TalliesAgree, StatsAccountForTables, PredictTaken
  <2> QED
    BY <2>2, <2>3, <2>4, <2>5, <2>6, <2>7 DEF Next
<1> QED
  BY <1>1, <1>2, TypeCorrect, PTL DEF Spec

-----------------------------------------------------------------------------
\* Nothing is executed at an address that is not a multiple of 4.
THEOREM Misaligned == Spec => MisalignedIsTheEnd
<1>1. [Next]_vars => [~Aligned(pc, 4) => status' = "exited" /\ insns' = insns]_vars
  <2> SUFFICES ASSUME Next, ~Aligned(pc, 4)
               PROVE  status' = "exited" /\ insns' = insns
    OBVIOUS
  <2>1. FetchUnaligned
    BY DEF Next, NoHostMemory, RType, DivideFault, IType, Load, Store, BType, Jal, Jalr, Lui, Auipc,
           Ecall, Unknown, Executing
  <2> QED
    BY <2>1 DEF FetchUnaligned, Unaligned, Abort
<1> QED
  BY <1>1, PTL DEF Spec, MisalignedIsTheEnd

-----------------------------------------------------------------------------
\* The instruction depends on pc and on the bytes of memory, not on the pages.
LEMMA SameInstruction ==
  ASSUME TypeOK, mem' \in PageTable, pc' = pc, Aligned(pc, 4),
         \A x \in Addr : ByteAt(mem', x) = ByteAt(mem, x)
  PROVE  Instruction' = Instruction
<1>1. pc \in Addr /\ mem \in PageTable
  BY AddressesAreValues DEF TypeOK
<1>2. ASSUME NEW l \in 0 .. 4 - 1 PROVE pc + l \in Addr
  BY <1>1, AccessFits
<1>3. BytesFrom(mem', pc, 4) = BytesFrom(mem, pc, 4)
  BY <1>2 DEF BytesFrom
<1>4. memory_rd_w(mem', pc) = memory_rd_w(mem, pc)
  BY <1>1, <1>3, ReadsReturn
<1> QED
  BY <1>4 DEF Instruction

\* What a turn leaves in memory if it does not store: the same bytes.
LEMMA PagesKeepBytes ==
  ASSUME TypeOK, mem' \in {mem, Fetched, get_page(Fetched, DataAddress)}
  PROVE  mem' \in PageTable /\ \A x \in Addr : ByteAt(mem', x) = ByteAt(mem, x)
<1>1. pc \in Addr /\ mem \in PageTable /\ Fetched \in PageTable /\ DataAddress \in Addr
  BY FetchTyped, AddressesAreValues DEF TypeOK
<1>2. \A x \in Addr : ByteAt(Fetched, x) = ByteAt(mem, x)
  BY <1>1, GetPage DEF Fetched
<1> QED
  BY <1>1, <1>2, GetPage

\* Only a store that ends its turn can change a byte.
LEMMA StoreOrSame ==
  ASSUME TypeOK, Next
  PROVE  \/ mem' \in {mem, Fetched, get_page(Fetched, DataAddress)}
         \/ Store /\ Aligned(DataAddress, Bytes(Instruction.funct3)) /\ Retire(0)
              /\ mem' = Stored(Instruction.funct3, Fetched, DataAddress,
                               registers[Instruction.rs2])
<1>1. CASE FetchUnaligned \/ NoHostMemory \/ DivideFault
  BY <1>1 DEF FetchUnaligned, NoHostMemory, DivideFault
<1>2. CASE RType \/ IType \/ Lui \/ Auipc \/ Ecall \/ Unknown \/ BType
  BY <1>2 DEF RType, IType, Lui, Auipc, Ecall, Unknown, BType
<1>3. CASE Load
  BY <1>3 DEF Load
<1>4. CASE Jal \/ Jalr
  BY <1>4 DEF Jal, Jalr, Jump
<1>5. CASE Store
  BY <1>5 DEF Store
<1> QED
  BY <1>1, <1>2, <1>3, <1>4, <1>5 DEF Next

\* No fetch, load, jump or abort changes a byte of the program's memory, and a
\* store only those of its width, for every program.
THEOREM StoresOnly == Spec => OnlyStoresWrite
<1> DEFINE Confined ==
      \A addr \in Addr :
        ByteAt(mem', addr) # ByteAt(mem, addr)
          => /\ Aligned(pc, 4) /\ Instruction.opcode = \h23
             /\ insns' = insns + 1
             /\ addr \in DataAddress .. DataAddress + Bytes(Instruction.funct3) - 1
<1>1. TypeOK /\ [Next]_vars => [Confined]_vars
  <2> SUFFICES ASSUME TypeOK, Next, NEW addr \in Addr,
                      ByteAt(mem', addr) # ByteAt(mem, addr)
               PROVE  /\ Aligned(pc, 4) /\ Instruction.opcode = \h23
                      /\ insns' = insns + 1
                      /\ addr \in DataAddress .. DataAddress + Bytes(Instruction.funct3) - 1
    OBVIOUS
  <2> DEFINE f == Instruction
             n == Bytes(f.funct3)
  <2>1. mem' \notin {mem, Fetched, get_page(Fetched, DataAddress)}
    BY PagesKeepBytes
  <2>2. /\ Store /\ Aligned(DataAddress, n) /\ Retire(0)
        /\ mem' = Stored(f.funct3, Fetched, DataAddress, registers[f.rs2])
    BY <2>1, StoreOrSame
  <2>3. f.funct3 \in {0, 1, 2} /\ Aligned(pc, 4) /\ f.opcode = \h23 /\ insns' = insns + 1
    BY <2>2 DEF Store, StoreKnown, Executing, Retire
  <2>4. /\ Fetched \in PageTable /\ DataAddress \in Addr /\ mem \in PageTable
        /\ pc \in Addr /\ Lanes(registers[f.rs2]) \in Word
    BY FetchTyped, LanesAreWord, AddressesAreValues DEF TypeOK, Fields
  <2>5. StoresBytes(mem', Fetched, DataAddress, n, Lanes(registers[f.rs2]))
    <3>1. Bytes(0) = 1 /\ Bytes(1) = 2 /\ Bytes(2) = 4
      BY DEF Bytes
    <3> QED
      BY <2>2, <2>3, <2>4, <3>1, WriteByteStores, WriteHalfStores, WriteWordStores
         DEF Stored
  <2>6. ByteAt(Fetched, addr) = ByteAt(mem, addr)
    BY <2>4, GetPage DEF Fetched
  <2>7. addr \in DataAddress .. DataAddress + n - 1
    BY <2>5, <2>6 DEF StoresBytes
  <2> QED
    BY <2>3, <2>7
<1> QED
  BY <1>1, TypeCorrect, PTL DEF Spec, OnlyStoresWrite

-----------------------------------------------------------------------------
\* A page that was never touched holds no branch and no jalr.
LEMMA StuckIsPresent ==
  ASSUME TypeOK, Stuck
  PROVE  mem[PageNumber(pc)] # NULL
<1> SUFFICES ASSUME mem[PageNumber(pc)] = NULL PROVE FALSE
  OBVIOUS
<1>1. pc \in Addr /\ mem \in PageTable
  BY AddressesAreValues DEF TypeOK
<1>2. PageNumber(pc) \in 0 .. NPages - 1 /\ WordIndex(pc) \in PageIndex
  BY <1>1, AddressParts
<1>3. memory_rd_w(mem, pc) = ZeroWord
  BY <1>1, <1>2 DEF memory_rd_w, WordAt, get_page, ZeroPage, PageTable
<1>4. ValueOf(ZeroWord) = 0
  BY CpuAssumption, AluBytes DEF ValueOf, ZeroWord, Lane
<1>5. Instruction.opcode = 0
  BY <1>3, <1>4, CpuAssumption DEF Instruction
<1> QED
  BY <1>5 DEF Stuck

\* The machine never gets past an unknown branch or jalr, in any program.
THEOREM Hang == Spec => UnknownJumpsHang
<1>1. TypeOK /\ [Next]_vars => [Stuck => Stuck']_vars
  <2> SUFFICES ASSUME TypeOK, Next, Stuck PROVE Stuck'
    OBVIOUS
  <2>1. BType \/ Jalr
    BY StuckIsPresent
       DEF Stuck, Next, FetchUnaligned, NoHostMemory, AccessesData, RType, DivideFault,
           IType, Load, Store, Jal, Lui, Auipc, Ecall, Unknown, Ignored, Executing
  <2>2. pc' = pc /\ status' = status /\ mem' = Fetched
    BY <2>1 DEF Stuck, BType, Jalr, Jump, Executing
  <2>3. Instruction' = Instruction
    BY <2>2, PagesKeepBytes, SameInstruction DEF Stuck
  <2> QED
    BY <2>2, <2>3 DEF Stuck, Aligned
<1> QED
  BY <1>1, TypeCorrect, PTL DEF Spec, UnknownJumpsHang

-----------------------------------------------------------------------------
\* Every exit(-1) of the machine has its cause in the state it leaves.
THEOREM ExitCause == Spec => []ExitsAreMisaligned
<1>1. Init => ExitsAreMisaligned
  BY DEF Init, ExitsAreMisaligned
<1>2. TypeOK /\ ExitsAreMisaligned /\ [Next]_vars => ExitsAreMisaligned'
  <2> SUFFICES ASSUME TypeOK, ExitsAreMisaligned, [Next]_vars, status' = "exited",
                      Aligned(pc', 4)
               PROVE  /\ Instruction'.opcode \in {\h03, \h23}
                      /\ ~Aligned(DataAddress', Bytes(Instruction'.funct3))
    BY DEF ExitsAreMisaligned, Aligned, Bytes
  <2>1. CASE UNCHANGED vars
    BY <2>1 DEF vars, ExitsAreMisaligned, Instruction, DataAddress, Aligned
  <2>2. CASE Next
    <3>1. status = "running"
      BY <2>2 DEF Next, FetchUnaligned, NoHostMemory, RType, DivideFault, IType, Load,
                  Store, BType, Jal, Jalr, Lui, Auipc, Ecall, Unknown, Executing, Turn
    <3>2. CASE FetchUnaligned
      BY <3>2 DEF FetchUnaligned, Unaligned, Abort
    <3>3. CASE Load
      <4>1. /\ Unaligned /\ mem' \in {Fetched, get_page(Fetched, DataAddress)}
            /\ Instruction.opcode = \h03 /\ Aligned(pc, 4)
            /\ ~Aligned(DataAddress, Bytes(Instruction.funct3))
        BY <3>1, <3>3 DEF Load, Executing
      <4>2. pc' = pc /\ registers' = registers
        BY <4>1 DEF Unaligned, Abort
      <4>3. Instruction' = Instruction
        BY <4>1, <4>2, PagesKeepBytes, SameInstruction
      <4> QED
        BY <4>1, <4>2, <4>3 DEF DataAddress
    <3>4. CASE Store
      <4>1. /\ Unaligned /\ mem' = Fetched
            /\ Instruction.opcode = \h23 /\ Aligned(pc, 4)
            /\ ~Aligned(DataAddress, Bytes(Instruction.funct3))
        BY <3>1, <3>4 DEF Store, Executing
      <4>2. pc' = pc /\ registers' = registers
        BY <4>1 DEF Unaligned, Abort
      <4>3. Instruction' = Instruction
        BY <4>1, <4>2, PagesKeepBytes, SameInstruction
      <4> QED
        BY <4>1, <4>2, <4>3 DEF DataAddress
    <3>5. CASE NoHostMemory \/ DivideFault
      BY <3>5 DEF NoHostMemory, DivideFault, Abort
    <3>6. CASE RType \/ IType \/ Lui \/ Auipc \/ Unknown \/ BType \/ Jal \/ Jalr
      BY <3>1, <3>6 DEF RType, IType, Lui, Auipc, Unknown, BType, Jal, Jalr, Jump
    <3>7. CASE Ecall
      BY <3>1, <3>7 DEF Ecall, Getchar, Putchar, Stop, Unsupported
    <3> QED
      BY <2>2, <3>2, <3>3, <3>4, <3>5, <3>6, <3>7 DEF Next
  <2> QED
    BY <2>1, <2>2
<1> QED
  BY <1>1, <1>2, TypeCorrect, PTL DEF Spec

-----------------------------------------------------------------------------
\* A turn ends its line with the flag of a jump, or of another instruction, or it
\* is aborted and leaves the buffer and the count alone.
LEMMA TurnsEnd ==
  ASSUME Next
  PROVE  \/ Retire(0) /\ Instruction.opcode \notin {\h6F, \h67}
         \/ Retire(2) /\ Instruction.opcode \in {\h6F, \h67}
         \/ insns' = insns /\ result' = result
<1>1. CASE FetchUnaligned \/ NoHostMemory \/ DivideFault
  <2>1. \A how : Abort(how) => insns' = insns /\ result' = result
    BY DEF Abort
  <2> QED
    BY <1>1, <2>1 DEF FetchUnaligned, NoHostMemory, DivideFault, Unaligned
<1>2. CASE RType \/ IType \/ Lui \/ Auipc \/ Ecall \/ BType
  BY <1>2 DEF RType, IType, Lui, Auipc, Ecall, BType, BranchFlag, Executing
<1>3. CASE Unknown
  BY <1>3 DEF Unknown, Ignored
<1>4. CASE Load \/ Store
  BY <1>4 DEF Load, Store, Unaligned, Abort, Executing
<1>5. CASE Jal \/ Jalr
  BY <1>5 DEF Jal, Jalr, Jump, Executing
<1> QED
  BY <1>1, <1>2, <1>3, <1>4, <1>5 DEF Next

\* The newline adds one to the length where it fits, and leaves the mark.
LEMMA NewlineFits ==
  ASSUME NEW marked, NEW strlen, strlen + 1 < BufSize
  PROVE  /\ Ended([marked |-> marked, strlen |-> strlen]).marked = marked
         /\ Ended([marked |-> marked, strlen |-> strlen]).strlen = strlen + 1
<1> DEFINE buffer == [marked |-> marked, strlen |-> strlen]
<1>1. buffer.marked = marked /\ buffer.strlen = strlen
  OBVIOUS
<1>2. Ended(buffer) = [buffer EXCEPT !.strlen = @ + 1]
  BY <1>1 DEF Ended
<1>3. Ended(buffer) = [marked |-> marked, strlen |-> strlen + 1]
  BY <1>2
<1> QED
  BY <1>3

\* The text of an instruction is short enough for its mark and its newline.
LEMMA TextFits ==
  ASSUME NEW buffer \in [marked : BOOLEAN, strlen : Nat], NEW flag \in {0, 2},
         NEW f, Text(f) # Nothing
  PROVE  LET end == Ended(Marked(Disassembled(buffer, f), flag))
         IN  end.strlen < BufSize /\ (end.marked <=> flag = 2)
<1>1. /\ BufSize \in Nat /\ TextLen \in Nat /\ MarkLen \in Nat
      /\ TextLen + 1 < BufSize /\ (TextLen + MarkLen) + 1 < BufSize
      /\ TextLen + MarkLen < BufSize
  BY CpuAssumption
<1>2. Disassembled(buffer, f) = [marked |-> FALSE, strlen |-> TextLen]
  BY DEF Disassembled
<1>3. CASE flag = 0
  <2>1. Marked(Disassembled(buffer, f), flag) = [marked |-> FALSE, strlen |-> TextLen]
    BY <1>2, <1>3 DEF Marked
  <2> QED
    BY <1>1, <1>3, <2>1, NewlineFits
<1>4. CASE flag = 2
  <2>1. Marked(Disassembled(buffer, f), flag)
          = [marked |-> TRUE, strlen |-> TextLen + MarkLen]
    BY <1>1, <1>2, <1>4 DEF Marked
  <2> QED
    BY <1>1, <1>4, <2>1, NewlineFits
<1> QED
  BY <1>3, <1>4

\* What is left from earlier lines grows only while there is room.
LEMMA RestFits ==
  ASSUME NEW buffer \in [marked : BOOLEAN, strlen : Nat], NEW flag, NEW f,
         Text(f) = Nothing, buffer.strlen < BufSize
  PROVE  Ended(Marked(Disassembled(buffer, f), flag)).strlen < BufSize
<1>1. BufSize \in Nat /\ MarkLen \in Nat
  BY CpuAssumption
<1>2. Disassembled(buffer, f) = buffer
  BY DEF Disassembled
<1>3. /\ Marked(buffer, flag) \in [marked : BOOLEAN, strlen : Nat]
      /\ Marked(buffer, flag).strlen < BufSize
  BY <1>1 DEF Marked
<1> QED
  BY <1>1, <1>2, <1>3 DEF Ended

\* No program makes the log write past its buffer, however many unknown encodings
\* it executes.
THEOREM Terminated == Spec => StaysTerminated
<1> DEFINE Terminates ==
             result.strlen < BufSize \/ (insns' # insns /\ Text(Instruction) # Nothing)
               => result'.strlen < BufSize
<1>1. TypeOK /\ [Next]_vars => [Terminates]_vars
  <2> SUFFICES ASSUME TypeOK, Next PROVE Terminates
    OBVIOUS
  <2>1. result \in [marked : BOOLEAN, strlen : Nat]
    BY DEF TypeOK
  <2>2. CASE insns' = insns /\ result' = result
    BY <2>2
  <2>3. CASE Retire(0) \/ Retire(2)
    <3>1. PICK flag \in {0, 2} :
            result' = Ended(Marked(Disassembled(result, Instruction), flag))
      BY <2>3 DEF Retire
    <3> QED
      BY <2>1, <3>1, TextFits, RestFits
  <2> QED
    BY <2>2, <2>3, TurnsEnd
<1> QED
  BY <1>1, TypeCorrect, PTL DEF Spec, StaysTerminated

\* In every program the log marks the jumps, and no other instruction it can print.
THEOREM Marks == Spec => MarksAreJumps
<1> DEFINE Marking ==
             insns' # insns /\ Text(Instruction) # Nothing
               => (result'.marked <=> Instruction.opcode \in {\h6F, \h67})
<1>1. TypeOK /\ [Next]_vars => [Marking]_vars
  <2> SUFFICES ASSUME TypeOK, Next, insns' # insns, Text(Instruction) # Nothing
               PROVE  result'.marked <=> Instruction.opcode \in {\h6F, \h67}
    OBVIOUS
  <2>1. result \in [marked : BOOLEAN, strlen : Nat]
    BY DEF TypeOK
  <2>2. CASE Retire(0) /\ Instruction.opcode \notin {\h6F, \h67}
    <3>1. ~result'.marked
      BY <2>1, <2>2, TextFits DEF Retire
    <3> QED
      BY <2>2, <3>1
  <2>3. CASE Retire(2) /\ Instruction.opcode \in {\h6F, \h67}
    <3>1. result'.marked
      BY <2>1, <2>3, TextFits DEF Retire
    <3> QED
      BY <2>3, <3>1
  <2> QED
    BY <2>2, <2>3, TurnsEnd
<1> QED
  BY <1>1, TypeCorrect, PTL DEF Spec, MarksAreJumps

-----------------------------------------------------------------------------
\* The never-taken predictor is charged for the branches that are taken, and for
\* no other; only an unknown one stays where it is.
LEMMA BranchDeparts ==
  ASSUME TypeOK, BType
  PROVE  /\ stat'.branches = stat.branches + 1
         /\ \/ stat'.wrong_nt = stat.wrong_nt + 1 /\ pc' = Plus(pc, Instruction.imm)
            \/ stat'.wrong_nt = stat.wrong_nt /\ (pc' = Plus(pc, 4) \/ Stuck)
<1> DEFINE f == Instruction
           holds == Holds(f.funct3, registers[f.rs1], registers[f.rs2])
           taken == IF BranchKnown(f.funct3) THEN Bool(holds) ELSE 0
           target == IF ~BranchKnown(f.funct3) THEN pc
                     ELSE Plus(pc, IF taken = 1 THEN f.imm ELSE 4)
<1>1. /\ Executing(\h63) /\ pc' = target /\ Branch(target, f.imm, taken)
  BY DEF BType
<1>2. /\ stat'.branches = stat.branches + 1
      /\ stat'.wrong_nt = stat.wrong_nt + Wrong(0, taken)
  BY <1>1 DEF Branch
<1>3. stat.wrong_nt \in Nat
  BY DEF TypeOK, PredictorTypeOK, Stat
<1>4. CASE taken = 1
  <2>1. BranchKnown(f.funct3)
    BY <1>4
  <2> QED
    BY <1>1, <1>2, <1>4, <2>1 DEF Wrong
<1>5. CASE taken = 0
  <2>1. stat'.wrong_nt = stat.wrong_nt
    BY <1>2, <1>3, <1>5 DEF Wrong
  <2>2. CASE BranchKnown(f.funct3)
    BY <1>1, <1>2, <1>5, <2>1, <2>2
  <2>3. CASE ~BranchKnown(f.funct3)
    BY <1>1, <1>2, <2>1, <2>3 DEF Stuck, Executing, Turn
  <2> QED
    BY <2>2, <2>3
<1> QED
  BY <1>4, <1>5 DEF Bool

\* In every program the sequence of instructions is left only by a jump or by a
\* branch that the never-taken predictor is charged for, and by every such branch.
THEOREM Departures == Spec => DeparturesAreCounted
<1> DEFINE Counted ==
             /\ insns' # insns /\ pc' # Plus(pc, 4)
                  => flag1' = 2 \/ stat'.wrong_nt = stat.wrong_nt + 1 \/ Stuck
             /\ stat'.wrong_nt # stat.wrong_nt
                  => pc' = Plus(pc, Instruction.imm) /\ stat'.branches = stat.branches + 1
<1>1. TypeOK /\ [Next]_vars => [Counted]_vars
  <2> SUFFICES ASSUME TypeOK, Next PROVE Counted
    OBVIOUS
  <2>1. CASE BType
    BY <2>1, BranchDeparts
  <2>2. CASE FetchUnaligned \/ NoHostMemory \/ DivideFault
    <3>1. \A how : Abort(how) => insns' = insns /\ stat' = stat
      BY DEF Abort, predictorVars
    <3> QED
      BY <2>2, <3>1 DEF FetchUnaligned, NoHostMemory, DivideFault, Unaligned
  <2>3. CASE RType \/ IType \/ Lui \/ Auipc \/ Ecall \/ Unknown
    BY <2>3 DEF RType, IType, Lui, Auipc, Ecall, Unknown, Advance, predictorVars
  <2>4. CASE Load \/ Store
    BY <2>4 DEF Load, Store, Unaligned, Abort, Advance, predictorVars
  <2>5. CASE Jal \/ Jalr
    BY <2>5 DEF Jal, Jalr, Jump, Retire, predictorVars
  <2> QED
    BY <2>1, <2>2, <2>3, <2>4, <2>5 DEF Next
<1> QED
  BY <1>1, TypeCorrect, PTL DEF Spec, DeparturesAreCounted

-----------------------------------------------------------------------------
(***************************************************************************)
(* The word of an instruction.  It is a sum of bits at their places, so    *)
(* that each field is what is cut out of it.                               *)
(***************************************************************************)

\* The powers of two up to the bits of an immediate.
LEMMA PowersAre ==
  /\ 2^0 = 1 /\ 2^1 = 2 /\ 2^2 = 4 /\ 2^3 = 8 /\ 2^4 = 16 /\ 2^5 = 32 /\ 2^6 = 64
  /\ 2^7 = 128 /\ 2^8 = 256 /\ 2^10 = 1024 /\ 2^11 = 2048 /\ 2^12 = 4096 /\ 2^13 = 8192
  /\ 2^15 = 32768 /\ 2^19 = 524288 /\ 2^20 = 1048576 /\ 2^21 = 2097152
  /\ 2^25 = 33554432
<1>1. \A m, n \in 0 .. 30 : m + n <= 30 => 2^(m + n) = 2^m * 2^n
  BY InsnPowers
<1>2. 2^0 = 1 /\ 2^1 = 2
  BY InsnPowers
<1>3. 2^2 = 4
  <2>1. 2^(1 + 1) = 2^1 * 2^1
    BY <1>1
  <2> QED BY <1>2, <2>1
<1>4. 2^3 = 8 /\ 2^4 = 16
  <2>1. 2^(1 + 2) = 2^1 * 2^2 /\ 2^(2 + 2) = 2^2 * 2^2
    BY <1>1
  <2> QED BY <1>2, <1>3, <2>1
<1>5. 2^5 = 32 /\ 2^6 = 64 /\ 2^7 = 128 /\ 2^8 = 256
  <2>1. /\ 2^(1 + 4) = 2^1 * 2^4 /\ 2^(2 + 4) = 2^2 * 2^4
        /\ 2^(3 + 4) = 2^3 * 2^4 /\ 2^(4 + 4) = 2^4 * 2^4
    BY <1>1
  <2> QED BY <1>2, <1>3, <1>4, <2>1
<1>6. 2^10 = 1024 /\ 2^11 = 2048 /\ 2^12 = 4096 /\ 2^13 = 8192 /\ 2^15 = 32768
  <2>1. /\ 2^(2 + 8) = 2^2 * 2^8 /\ 2^(3 + 8) = 2^3 * 2^8 /\ 2^(4 + 8) = 2^4 * 2^8
        /\ 2^(5 + 8) = 2^5 * 2^8 /\ 2^(7 + 8) = 2^7 * 2^8
    BY <1>1
  <2> QED BY SMT, <1>3, <1>4, <1>5, <2>1
<1>7. 2^19 = 524288 /\ 2^20 = 1048576 /\ 2^21 = 2097152 /\ 2^25 = 33554432
  <2>1. /\ 2^(8 + 11) = 2^8 * 2^11 /\ 2^(8 + 12) = 2^8 * 2^12
        /\ 2^(8 + 13) = 2^8 * 2^13 /\ 2^(12 + 13) = 2^12 * 2^13
    BY <1>1
  <2> QED BY SMT, <1>5, <1>6, <2>1
<1> QED BY SMT, <1>2, <1>3, <1>4, <1>5, <1>6, <1>7

\* The quotient of a quotient, and the remainder by twice as much.
LEMMA DividedTwice ==
  ASSUME NEW v \in Int, NEW c \in Nat \ {0}, NEW d \in Nat \ {0}
  PROVE  /\ v \div (c * d) = (v \div c) \div d
         /\ v % (2 * d) = (v % d) + d * ((v \div d) % 2)
<1>1. c * d \in Nat \ {0} /\ 2 * d \in Nat \ {0}
  OBVIOUS
<1>2. v \div (c * d) = (v \div c) \div d
  <2> DEFINE p == v \div c
             r == v % c
             q == p \div d
             t == p % d
  <2>1. p \in Int /\ r \in 0 .. c - 1 /\ v = c * p + r
    OBVIOUS
  <2>2. q \in Int /\ t \in 0 .. d - 1 /\ p = d * q + t
    BY <2>1
  <2> HIDE DEF p, r, q, t
  <2>3. c * t + r \in 0 .. c * d - 1
    <3>1. r + c * t \in 0 .. c * d - 1
      BY <2>1, <2>2, Digit
    <3> QED BY <2>1, <2>2, <3>1
  <2>4. v = (c * d) * q + (c * t + r)
    <3>1. c * (d * q + t) = (c * d) * q + c * t
      <4>1. \A x, y, z, w \in Int : x * (y * z + w) = (x * y) * z + x * w
        OBVIOUS
      <4> QED BY <2>2, <4>1
    <3> QED BY <2>1, <2>2, <3>1
  <2>5. ((c * d) * q + (c * t + r)) \div (c * d) = q
    BY <1>1, <2>2, <2>3, DivisionUnique
  <2> QED BY <2>4, <2>5 DEF q, p
<1>3. v % (2 * d) = (v % d) + d * ((v \div d) % 2)
  <2> DEFINE q == v \div d
             r == v % d
             h == q \div 2
             t == q % 2
  <2>1. q \in Int /\ r \in 0 .. d - 1 /\ v = d * q + r
    OBVIOUS
  <2>2. h \in Int /\ t \in 0 .. 1 /\ q = 2 * h + t
    BY <2>1
  <2> HIDE DEF q, r, h, t
  <2>3. r + d * t \in 0 .. 2 * d - 1
    <3>1. t = 0 \/ t = 1
      BY <2>2
    <3> QED BY <2>1, <3>1
  <2>4. v = (2 * d) * h + (r + d * t)
    <3>1. d * (2 * h + t) = (2 * d) * h + d * t
      <4>1. \A x, y, z \in Int : x * (2 * y + z) = (2 * x) * y + x * z
        OBVIOUS
      <4> QED BY <2>2, <4>1
    <3>2. d * t \in Int /\ (2 * d) * h \in Int
      BY <2>2
    <3> QED BY <2>1, <2>2, <3>1, <3>2
  <2>5. ((2 * d) * h + (r + d * t)) % (2 * d) = r + d * t
    BY <1>1, <2>2, <2>3, DivisionUnique
  <2> QED BY <2>4, <2>5 DEF r, t, q
<1> QED BY <1>2, <1>3

\* The sum of the bits of v below bit k, each at its place.
LaidBelow(v, places, k) == SumBelow(AtPlaces(v, places), DOMAIN places, k)

\* Places of a word for at most 21 bits.
InWord(places) ==
  DOMAIN places \subseteq 0 .. 20 /\ \A k \in DOMAIN places : places[k] \in 0 .. 31

\* The places of the n bits from lo on follow one another.
Piece(places, lo, n, from) ==
  \A k \in lo .. lo + n - 1 : k \in DOMAIN places /\ places[k] = from + (k - lo)

\* The sum of the bits of v, each at its place, grows by a bit at a time.
LEMMA SumOfBits ==
  ASSUME NEW v \in Int, NEW places, InWord(places)
  PROVE  /\ LaidBelow(v, places, 0) = 0
         /\ \A k \in Nat :
              /\ LaidBelow(v, places, k) \in Int
              /\ LaidBelow(v, places, k + 1)
                   = LaidBelow(v, places, k)
                     + (IF k \in DOMAIN places THEN BitOf(v, k) * Weight(places[k]) ELSE 0)
         /\ \A k \in Nat :
              DOMAIN places \subseteq 0 .. k - 1 => Laid(v, places) = LaidBelow(v, places, k)
<1> DEFINE S == DOMAIN places
           f == AtPlaces(v, places)
<1>0. \A m \in 0 .. 30 : 2^m \in Nat \ {0}
  BY InsnPowers
<1>1. S \in SUBSET Nat /\ IsFiniteSet(S)
  <2>1. IsFiniteSet(0 .. 20)
    <3>1. \A x, y \in Int : IsFiniteSet(x .. y)
      BY ONLY FS_Interval
    <3>2. 0 \in Int /\ 20 \in Int
      OBVIOUS
    <3> QED BY <3>1, <3>2, Zenon
  <2>2. S \subseteq 0 .. 20
    BY DEF InWord
  <2> QED BY <2>1, <2>2, FS_Subset
<1>2. f = [k \in S |-> f[k]] /\ \A k \in S : f[k] = BitOf(v, k) * Weight(places[k])
  BY DEF AtPlaces
<1>3. \A k \in S : f[k] \in Int
  <2> TAKE k \in S
  <2>1. BitOf(v, k) \in Int
    <3>1. k \in 0 .. 30
      BY DEF InWord
    <3>2. 2^k \in Nat \ {0}
      BY <1>0, <3>1
    <3> QED BY <3>2 DEF BitOf
  <2>2. Weight(places[k]) \in Int
    <3>1. places[k] \in 0 .. 31
      BY DEF InWord
    <3>2. CASE places[k] = 31
      BY SMT, <3>2 DEF Weight
    <3>3. CASE places[k] # 31
      <4>1. places[k] \in 0 .. 30
        BY <3>1, <3>3
      <4> QED BY <1>0, <3>3, <4>1 DEF Weight
    <3> QED BY <3>2, <3>3
  <2> QED BY <1>2, <2>1, <2>2
<1>4. Laid(v, places) = SumOver(f, S)
  BY DEF Laid, SumOver
<1> HIDE DEF f, S
<1>5. /\ SumBelow(f, S, 0) = 0
      /\ \A k \in Nat :
           /\ SumBelow(f, S, k) \in Int
           /\ SumBelow(f, S, k + 1) = SumBelow(f, S, k) + (IF k \in S THEN f[k] ELSE 0)
      /\ \A k \in Nat : S \subseteq 0 .. k - 1 => SumOver(f, S) = SumBelow(f, S, k)
  BY <1>1, <1>2, <1>3, SumsBelow
<1>6. \A k : LaidBelow(v, places, k) = SumBelow(f, S, k)
  BY DEF LaidBelow, f, S
<1>7. S = DOMAIN places
  BY DEF S
<1> QED BY <1>2, <1>4, <1>5, <1>6, <1>7

\* The bits of v from lo on, as many as n, are put together in bit from and those above.
LEMMA PieceOfBits ==
  ASSUME NEW v \in Int, NEW places, InWord(places),
         NEW lo \in 0 .. 20, NEW n \in Nat, NEW from \in 0 .. 30,
         from + n <= 31, lo + n <= 21, Piece(places, lo, n, from)
  PROVE  LaidBelow(v, places, lo + n)
           = LaidBelow(v, places, lo) + 2^from * ((v \div 2^lo) % 2^n)
<1> DEFINE x == v \div 2^lo
           F == 2^from
           Below(k) == LaidBelow(v, places, k)
           Put(m) == Below(lo + m) = Below(lo) + F * (x % 2^m)
           Good == {m \in 0 .. n : Put(m)}
<1>1. /\ \A m \in 0 .. 30 : 2^m \in Nat \ {0}
      /\ \A m, k \in 0 .. 30 : m + k <= 30 => 2^(m + k) = 2^m * 2^k
  BY InsnPowers
<1>2. x \in Int /\ F \in Nat
  <2>1. lo \in 0 .. 30 /\ from \in 0 .. 30
    OBVIOUS
  <2>2. 2^lo \in Nat \ {0} /\ 2^from \in Nat \ {0}
    BY <1>1, <2>1
  <2>3. \A c \in Nat \ {0} : v \div c \in Int
    OBVIOUS
  <2> QED BY <2>2, <2>3
<1>3. Below(0) = 0 /\ \A k \in Nat :
        /\ Below(k) \in Int
        /\ Below(k + 1)
             = Below(k) + (IF k \in DOMAIN places THEN BitOf(v, k) * Weight(places[k]) ELSE 0)
  BY SumOfBits
<1>4. 0 \in Good
  <2>1. x % 2^0 = 0
    BY <1>2, PowersAre
  <2>2. Below(lo) \in Int /\ lo + 0 = lo /\ F * 0 = 0
    BY <1>2, <1>3
  <2> QED BY <2>1, <2>2
<1>5. ASSUME NEW m \in 0 .. n - 1, m \in Good PROVE m + 1 \in Good
  <2> DEFINE k == lo + m
             P == 2^m
             bit == (x \div P) % 2
  <2>1. /\ k \in Nat /\ k \in lo .. lo + n - 1 /\ k - lo = m /\ (lo + m) + 1 = lo + (m + 1)
        /\ m \in 0 .. 30 /\ lo \in 0 .. 30 /\ lo + m <= 30 /\ k \in 0 .. 20
        /\ from + m <= 30 /\ from + m # 31 /\ m + 1 \in 0 .. n /\ m + 1 <= 30 /\ 1 \in 0 .. 30
    OBVIOUS
  <2>2. k \in DOMAIN places /\ places[k] = from + m
    BY <2>1 DEF Piece
  <2>3. P \in Nat \ {0} /\ 2^k = 2^lo * P /\ 2^(from + m) = F * P /\ 2^(m + 1) = 2 * P
        /\ 2^lo \in Nat \ {0}
    <3>1. 2^(m + 1) = 2^m * 2^1
      BY <1>1, <2>1
    <3>2. 2^(lo + m) = 2^lo * 2^m
      BY <1>1, <2>1
    <3>3. 2^(from + m) = 2^from * 2^m
      BY <1>1, <2>1
    <3>4. 2^m \in Nat \ {0} /\ 2^lo \in Nat \ {0}
      BY <1>1, <2>1
    <3>5. 2^m * 2^1 = 2 * 2^m
      BY <3>4, PowersAre
    <3> QED BY <3>1, <3>2, <3>3, <3>4, <3>5
  <2>4. v \div 2^k = x \div P
    <3> DEFINE c == 2^lo
    <3>1. c \in Nat \ {0} /\ 2^k = c * P /\ x = v \div c
      BY <2>3
    <3> HIDE DEF c, P
    <3>2. v \div (c * P) = (v \div c) \div P
      BY <2>3, <3>1, DividedTwice
    <3> QED BY <3>1, <3>2
  <2>5. BitOf(v, k) * Weight(places[k]) = bit * (F * P)
    <3>1. Weight(places[k]) = F * P
      BY <2>1, <2>2, <2>3 DEF Weight
    <3>2. BitOf(v, k) = bit
      BY <2>4 DEF BitOf
    <3> QED BY <3>1, <3>2
  <2>6. x % (2 * P) = (x % P) + P * bit
    BY <1>2, <2>3, DividedTwice
  <2>7. Below(k + 1) = Below(k) + BitOf(v, k) * Weight(places[k])
    BY <1>3, <2>1, <2>2
  <2>8. Below(k) = Below(lo) + F * (x % P)
    BY <1>5
  <2>9. x % P \in Int /\ bit \in Int /\ Below(lo) \in Int
    BY <1>2, <1>3, <2>3
  <2> DEFINE r == x % P
  <2>10. Below(k + 1) = Below(lo) + F * (r + P * bit)
    <3> HIDE DEF bit, r, F, P
    <3>1. \A s, t, w, y \in Int : (s + t * w) + bit * (t * y) = s + t * (w + y * bit)
      BY <2>9
    <3> QED BY <1>2, <2>3, <2>5, <2>7, <2>8, <2>9, <3>1 DEF r
  <2> QED BY <2>1, <2>3, <2>6, <2>10
<1>6. n \in Good
  <2> HIDE DEF Good
  <2> QED BY <1>4, <1>5, BoundedInduction
<1> QED BY <1>6

\* The bits of a piece whose places follow one another.
LEMMA LowBitsInWord ==
  ASSUME NEW from \in 0 .. 31, NEW n \in 1 .. 7, from + n <= 32
  PROVE  /\ DOMAIN LowBits(0, n - 1, from) = 0 .. n - 1
         /\ \A k \in 0 .. n - 1 : LowBits(0, n - 1, from)[k] = from + k
         /\ InWord(LowBits(0, n - 1, from))
<1>1. /\ DOMAIN LowBits(0, n - 1, from) = 0 .. n - 1
      /\ \A k \in 0 .. n - 1 : LowBits(0, n - 1, from)[k] = from + k
  BY DEF LowBits
<1>2. 0 .. n - 1 \subseteq 0 .. 20 /\ \A k \in 0 .. n - 1 : from + k \in 0 .. 31
  OBVIOUS
<1>3. \A k \in DOMAIN LowBits(0, n - 1, from) : LowBits(0, n - 1, from)[k] \in 0 .. 31
  <2> TAKE k \in DOMAIN LowBits(0, n - 1, from)
  <2>1. k \in 0 .. n - 1
    BY <1>1
  <2>2. LowBits(0, n - 1, from)[k] = from + k /\ from + k \in 0 .. 31
    BY <1>1, <1>2, <2>1
  <2> QED BY <2>2
<1> QED BY <1>1, <1>2, <1>3, Zenon DEF InWord

\* A field that does not reach the highest bit.
LEMMA FieldPlaced ==
  ASSUME NEW v \in Int, NEW from \in 0 .. 30, NEW n \in 1 .. 7, from + n <= 31
  PROVE  Placed(v, from, n) = 2^from * (v % 2^n)
<1> DEFINE p == LowBits(0, n - 1, from)
<1>1. InWord(p) /\ DOMAIN p = 0 .. n - 1 /\ Piece(p, 0, n, from)
  <2>1. DOMAIN p = 0 .. n - 1 /\ InWord(p) /\ \A k \in 0 .. n - 1 : p[k] = from + k
    <3>1. from \in 0 .. 31 /\ from + n <= 32
      OBVIOUS
    <3> QED BY <3>1, LowBitsInWord
  <2> HIDE DEF p
  <2> QED BY <2>1 DEF Piece
<1>2. Placed(v, from, n) = Laid(v, p)
  BY DEF Placed
<1> HIDE DEF p
<1>3. LaidBelow(v, p, 0) = 0 /\ Laid(v, p) = LaidBelow(v, p, n)
  <2>1. n \in Nat /\ DOMAIN p \subseteq 0 .. n - 1
    BY <1>1
  <2> QED BY <1>1, <2>1, SumOfBits
<1>4. LaidBelow(v, p, 0 + n) = LaidBelow(v, p, 0) + 2^from * ((v \div 2^0) % 2^n)
  <2>1. 0 \in 0 .. 20 /\ n \in Nat /\ 0 + n <= 21
    OBVIOUS
  <2> QED BY <1>1, <2>1, PieceOfBits
<1>5. v \div 2^0 = v /\ 0 + n = n
  BY PowersAre
<1>6. 2^from \in Int /\ v % 2^n \in Int
  <2>1. n \in 0 .. 30
    OBVIOUS
  <2>2. 2^from \in Nat \ {0} /\ 2^n \in Nat \ {0}
    BY <2>1, InsnPowers
  <2> QED BY <2>2
<1> QED BY <1>2, <1>3, <1>4, <1>5, <1>6

\* A field lies at its place; the highest bit of a word has a negative weight.
LEMMA FieldsPlaced ==
  /\ \A v \in 0 .. 127 : Placed(v, 0, 7) = v
  /\ \A v \in 0 .. 31 : Placed(v, 7, 5) = 128 * v
  /\ \A v \in 0 .. 7 : Placed(v, 12, 3) = 4096 * v
  /\ \A v \in 0 .. 31 : Placed(v, 15, 5) = 32768 * v
  /\ \A v \in 0 .. 31 : Placed(v, 20, 5) = 1048576 * v
  /\ \A v \in 0 .. 127 :
       Placed(v, 25, 7) = 33554432 * (v % 64) - 2147483648 * (v \div 64)
<1>1. ASSUME NEW v \in 0 .. 127
      PROVE  Placed(v, 25, 7) = 33554432 * (v % 64) - 2147483648 * (v \div 64)
  <2> DEFINE p == LowBits(0, 6, 25)
  <2>1. DOMAIN p = 0 .. 6 /\ InWord(p) /\ \A k \in 0 .. 6 : p[k] = 25 + k
    <3>0. \A from \in 0 .. 31, n \in 1 .. 7 : from + n <= 32 =>
             /\ DOMAIN LowBits(0, n - 1, from) = 0 .. n - 1
             /\ \A k \in 0 .. n - 1 : LowBits(0, n - 1, from)[k] = from + k
             /\ InWord(LowBits(0, n - 1, from))
      BY ONLY LowBitsInWord
    <3>1. /\ DOMAIN LowBits(0, 7 - 1, 25) = 0 .. 7 - 1
          /\ \A k \in 0 .. 7 - 1 : LowBits(0, 7 - 1, 25)[k] = 25 + k
          /\ InWord(LowBits(0, 7 - 1, 25))
      <4>1. 25 \in 0 .. 31 /\ 7 \in 1 .. 7 /\ 25 + 7 <= 32
        OBVIOUS
      <4> QED BY <3>0, <4>1, Zenon
    <3>2. 7 - 1 = 6
      OBVIOUS
    <3> QED BY <3>1, <3>2
  <2>2. Placed(v, 25, 7) = Laid(v, p)
    <3>1. 7 - 1 = 6
      OBVIOUS
    <3> QED BY <3>1 DEF Placed
  <2> HIDE DEF p
  <2>3. Piece(p, 0, 6, 25)
    BY <2>1 DEF Piece
  <2>10. v \in Int /\ DOMAIN p \subseteq 0 .. 7 - 1 /\ 6 \in DOMAIN p
    BY <2>1
  <2>4. LaidBelow(v, p, 0) = 0 /\ Laid(v, p) = LaidBelow(v, p, 7)
    BY <2>1, <2>10, SumOfBits
  <2>5. LaidBelow(v, p, 0 + 6) = LaidBelow(v, p, 0) + 2^25 * ((v \div 2^0) % 2^6)
    <3>1. 0 \in 0 .. 20 /\ 6 \in Nat /\ 25 \in 0 .. 30 /\ 25 + 6 <= 31 /\ 0 + 6 <= 21
      OBVIOUS
    <3>2. \A lo \in 0 .. 20, n \in Nat, from \in 0 .. 30 :
            from + n <= 31 /\ lo + n <= 21 /\ Piece(p, lo, n, from)
            => LaidBelow(v, p, lo + n)
                 = LaidBelow(v, p, lo) + 2^from * ((v \div 2^lo) % 2^n)
      BY <2>1, <2>10, PieceOfBits
    <3> QED BY <2>3, <3>1, <3>2, Zenon
  <2>6. LaidBelow(v, p, 6 + 1) = LaidBelow(v, p, 6) + BitOf(v, 6) * Weight(p[6])
    BY <2>1, <2>10, SumOfBits
  <2>7. BitOf(v, 6) = v \div 64 /\ Weight(p[6]) = -2147483648
    <3>1. p[6] = 31
      BY <2>1
    <3>2. Weight(31) = -2147483648
      BY SMT DEF Weight
    <3>3. (v \div 64) % 2 = v \div 64
      OBVIOUS
    <3> QED BY SMT, <3>1, <3>2, <3>3, PowersAre DEF BitOf
  <2>8. 2^25 = 33554432 /\ 2^0 = 1 /\ 2^6 = 64
    BY SMT, PowersAre
  <2>9. v \div 1 = v
    OBVIOUS
  <2> QED BY SMT, <2>2, <2>4, <2>5, <2>6, <2>7, <2>8, <2>9
<1>2. ASSUME NEW v \in 0 .. 127
      PROVE  Placed(v, 0, 7) = v
  <2>0. v \in Int /\ 0 \in 0 .. 30 /\ 7 \in 1 .. 7 /\ 0 + 7 <= 31
    OBVIOUS
  <2>1. Placed(v, 0, 7) = 2^0 * (v % 2^7)
    BY <2>0, FieldPlaced, Zenon
  <2> QED BY SMT, <2>1, PowersAre
<1>3. ASSUME NEW v \in 0 .. 31
      PROVE  /\ Placed(v, 7, 5) = 128 * v /\ Placed(v, 15, 5) = 32768 * v
             /\ Placed(v, 20, 5) = 1048576 * v
  <2>0. /\ v \in Int /\ 5 \in 1 .. 7 /\ {7, 15, 20} \subseteq 0 .. 30
        /\ 7 + 5 <= 31 /\ 15 + 5 <= 31 /\ 20 + 5 <= 31
    OBVIOUS
  <2>1. /\ Placed(v, 7, 5) = 2^7 * (v % 2^5) /\ Placed(v, 15, 5) = 2^15 * (v % 2^5)
        /\ Placed(v, 20, 5) = 2^20 * (v % 2^5)
    BY <2>0, FieldPlaced, Zenon
  <2>2. v % 2^5 = v
    BY SMT, PowersAre
  <2> QED BY SMT, <2>1, <2>2, PowersAre
<1>4. ASSUME NEW v \in 0 .. 7
      PROVE  Placed(v, 12, 3) = 4096 * v
  <2>0. v \in Int /\ 12 \in 0 .. 30 /\ 3 \in 1 .. 7 /\ 12 + 3 <= 31
    OBVIOUS
  <2>1. Placed(v, 12, 3) = 2^12 * (v % 2^3)
    BY <2>0, FieldPlaced, Zenon
  <2> QED BY SMT, <2>1, PowersAre
<1> QED BY SMT, <1>1, <1>2, <1>3, <1>4
\* The pieces of an immediate, for literal bounds.
LEMMA PieceAdds ==
  ASSUME NEW v \in Int, NEW p, InWord(p)
  PROVE  \A lo \in 0 .. 20, n \in Nat, from \in 0 .. 30 :
           from + n <= 31 /\ lo + n <= 21 /\ Piece(p, lo, n, from)
           => LaidBelow(v, p, lo + n) = LaidBelow(v, p, lo) + 2^from * ((v \div 2^lo) % 2^n)
<1>1. ASSUME NEW lo \in 0 .. 20, NEW n \in Nat, NEW from \in 0 .. 30,
             from + n <= 31, lo + n <= 21, Piece(p, lo, n, from)
      PROVE  LaidBelow(v, p, lo + n) = LaidBelow(v, p, lo) + 2^from * ((v \div 2^lo) % 2^n)
  BY <1>1, PieceOfBits
<1> QED BY <1>1

\* The sign of an immediate is the highest bit of the word.
LEMMA SignAdds ==
  ASSUME NEW v \in Int, NEW p, InWord(p), NEW k \in 0 .. 20, DOMAIN p \subseteq 0 .. k,
         k \in DOMAIN p, p[k] = 31
  PROVE  Laid(v, p) = LaidBelow(v, p, k) + BitOf(v, k) * Weight(31)
<1>1. k \in Nat /\ k + 1 \in Nat /\ DOMAIN p \subseteq 0 .. (k + 1) - 1
  OBVIOUS
<1>2. LaidBelow(v, p, k + 1) = LaidBelow(v, p, k) + BitOf(v, k) * Weight(p[k])
  BY <1>1, SumOfBits
<1>3. Laid(v, p) = LaidBelow(v, p, k + 1)
  BY <1>1, SumOfBits
<1> QED BY <1>2, <1>3

\* Two immediates in one piece, one of 12 bits and one of 20.
LEMMA LaidWhole ==
  ASSUME NEW v \in Int, NEW n \in 1 .. 20, NEW from \in 0 .. 30, from + n = 31
  PROVE  Laid(v, LowBits(0, n, from)) = 2^from * (v % 2^n) + BitOf(v, n) * Weight(31)
<1> DEFINE p == LowBits(0, n, from)
<1>1. DOMAIN p = 0 .. n /\ \A k \in 0 .. n : p[k] = from + k
  BY DEF LowBits
<1> HIDE DEF p
<1>2. InWord(p)
  <2>1. 0 .. n \subseteq 0 .. 20
    OBVIOUS
  <2>2. ASSUME NEW k \in DOMAIN p PROVE p[k] \in 0 .. 31
    <3>1. k \in 0 .. n
      BY <1>1
    <3>2. p[k] = from + k
      BY <1>1, <3>1
    <3>3. \A j \in 0 .. n : from + j \in 0 .. 31
      OBVIOUS
    <3> QED BY <3>1, <3>2, <3>3
  <2> QED BY <1>1, <2>1, <2>2 DEF InWord
<1>3. Piece(p, 0, n, from)
  BY <1>1 DEF Piece
<1>4. n \in 0 .. 20 /\ n \in DOMAIN p /\ p[n] = 31 /\ DOMAIN p \subseteq 0 .. n
  BY <1>1
<1>5. Laid(v, p) = LaidBelow(v, p, n) + BitOf(v, n) * Weight(31)
  BY <1>2, <1>4, SignAdds
<1>6. LaidBelow(v, p, 0) = 0
  BY <1>2, SumOfBits
<1>7. LaidBelow(v, p, 0 + n) = LaidBelow(v, p, 0) + 2^from * ((v \div 2^0) % 2^n)
  <2>1. 0 \in 0 .. 20 /\ n \in Nat /\ from + n <= 31 /\ 0 + n <= 21
    OBVIOUS
  <2> QED BY <1>2, <1>3, <2>1, PieceAdds
<1>8. 0 + n = n /\ v \div 2^0 = v
  BY PowersAre
<1>9. 2^from * (v % 2^n) \in Int
  <2>1. n \in 0 .. 30
    OBVIOUS
  <2>2. 2^from \in Nat \ {0} /\ 2^n \in Nat \ {0}
    BY <2>1, InsnPowers
  <2> QED BY <2>2
<1> QED BY <1>5, <1>6, <1>7, <1>8, <1>9 DEF p
\* What is joined of pieces that do not overlap.
LEMMA JoinedPieces ==
  ASSUME NEW P, \A p, q \in P : \A k : k \in DOMAIN p /\ k \in DOMAIN q => p = q
  PROVE  /\ DOMAIN Joined(P) = UNION {DOMAIN p : p \in P}
         /\ \A p \in P : \A k \in DOMAIN p : Joined(P)[k] = p[k]
<1>1. DOMAIN Joined(P) = UNION {DOMAIN p : p \in P}
  BY DEF Joined
<1>2. ASSUME NEW p \in P, NEW k \in DOMAIN p
      PROVE  Joined(P)[k] = p[k]
  <2>1. k \in UNION {DOMAIN q : q \in P}
    OBVIOUS
  <2>2. Joined(P)[k] = (CHOOSE q \in P : k \in DOMAIN q)[k]
    BY <2>1 DEF Joined
  <2>3. (CHOOSE q \in P : k \in DOMAIN q) = p
    OBVIOUS
  <2> QED BY <2>2, <2>3
<1> QED BY <1>1, <1>2

\* A piece has its bounds for a domain.
LEMMA LowBitsAre ==
  ASSUME NEW lo \in Int, NEW hi \in Int, NEW from \in Int
  PROVE  /\ DOMAIN LowBits(lo, hi, from) = lo .. hi
         /\ \A k \in lo .. hi : LowBits(lo, hi, from)[k] = from + (k - lo)
  BY DEF LowBits

\* The immediate of a store has two pieces.
StorePlaces ==
  Joined({LowBits(0, 4, 7),
          LowBits(5, 11, 25)})
LEMMA LaidStore ==
  ASSUME NEW v \in Int
  PROVE  Laid(v, StorePlaces)
           = 2^7 * (v % 2^5) + 2^25 * ((v \div 2^5) % 2^6) + BitOf(v, 11) * Weight(31)
<1> DEFINE x == LowBits(0, 4, 7)
           y == LowBits(5, 11, 25)
           p == StorePlaces
<1>1. /\ DOMAIN x = 0 .. 4 /\ \A k \in 0 .. 4 : x[k] = 7 + (k - 0)
      /\ DOMAIN y = 5 .. 11 /\ \A k \in 5 .. 11 : y[k] = 25 + (k - 5)
  BY DEF LowBits
<1>2. p = Joined({x, y})
  BY DEF StorePlaces
<1> HIDE DEF x, y, p
<1>3. /\ \A k : k \in DOMAIN p <=> k \in 0 .. 4 \/ k \in 5 .. 11
      /\ \A k \in 0 .. 4 : p[k] = 7 + (k - 0)
      /\ \A k \in 5 .. 11 : p[k] = 25 + (k - 5)
  <2>1. \A r, s \in {x, y} : \A k : k \in DOMAIN r /\ k \in DOMAIN s => r = s
    BY <1>1
  <2>2. /\ DOMAIN p = UNION {DOMAIN r : r \in {x, y}}
        /\ \A r \in {x, y} : \A k \in DOMAIN r : p[k] = r[k]
    BY <1>2, <2>1, JoinedPieces
  <2>3. \A k : k \in DOMAIN p <=> k \in DOMAIN x \/ k \in DOMAIN y
    BY <2>2
  <2>4. \A k \in 0 .. 4 : p[k] = 7 + (k - 0)
    <3>1. \A k \in DOMAIN x : p[k] = x[k]
      BY <2>2
    <3> QED BY <1>1, <3>1
  <2>5. \A k \in 5 .. 11 : p[k] = 25 + (k - 5)
    <3>1. \A k \in DOMAIN y : p[k] = y[k]
      BY <2>2
    <3> QED BY <1>1, <3>1
  <2>6. \A k : k \in DOMAIN p <=> k \in 0 .. 4 \/ k \in 5 .. 11
    BY <1>1, <2>3
  <2> QED BY <2>4, <2>5, <2>6
<1>4. InWord(p) /\ DOMAIN p \subseteq 0 .. 11 /\ 11 \in DOMAIN p /\ p[11] = 31
  <2>1. DOMAIN p \subseteq 0 .. 11 /\ DOMAIN p \subseteq 0 .. 20 /\ 11 \in DOMAIN p
    BY <1>3
  <2>2. ASSUME NEW k \in DOMAIN p PROVE p[k] \in 0 .. 31
    <3>1. CASE k \in 0 .. 4
      BY <1>3, <3>1
    <3>2. CASE k \in 5 .. 11
      BY <1>3, <3>2
    <3> QED BY <1>3, <3>1, <3>2
  <2>3. p[11] = 31
    BY <1>3
  <2> QED BY <2>1, <2>2, <2>3 DEF InWord
<1>5. Piece(p, 0, 5, 7) /\ Piece(p, 5, 6, 25)
  BY <1>3 DEF Piece
<1>6. /\ LaidBelow(v, p, 0 + 5) = LaidBelow(v, p, 0) + 2^7 * ((v \div 2^0) % 2^5)
      /\ LaidBelow(v, p, 5 + 6) = LaidBelow(v, p, 5) + 2^25 * ((v \div 2^5) % 2^6)
  <2>1. LaidBelow(v, p, 0 + 5) = LaidBelow(v, p, 0) + 2^7 * ((v \div 2^0) % 2^5)
    <3>1. /\ 0 \in 0 .. 20 /\ 5 \in Nat /\ 7 \in 0 .. 30 /\ 7 + 5 <= 31
          /\ 0 + 5 <= 21 /\ Piece(p, 0, 5, 7)
      BY <1>5
    <3> QED BY <1>4, <3>1, PieceAdds, Zenon
  <2>2. LaidBelow(v, p, 5 + 6) = LaidBelow(v, p, 5) + 2^25 * ((v \div 2^5) % 2^6)
    <3>1. /\ 5 \in 0 .. 20 /\ 6 \in Nat /\ 25 \in 0 .. 30 /\ 25 + 6 <= 31
          /\ 5 + 6 <= 21 /\ Piece(p, 5, 6, 25)
      BY <1>5
    <3> QED BY <1>4, <3>1, PieceAdds, Zenon
  <2> QED BY <2>1, <2>2
<1>7. LaidBelow(v, p, 0) = 0 /\ Laid(v, p) = LaidBelow(v, p, 11) + BitOf(v, 11) * Weight(31)
  BY <1>4, SumOfBits, SignAdds
<1>8. 2^0 = 1 /\ v \div 1 = v
  BY PowersAre
<1> QED BY <1>6, <1>7, <1>8 DEF p

\* The offset of a branch has four pieces.
BranchPlaces ==
  Joined({LowBits(1, 4, 8),
          LowBits(5, 10, 25),
          LowBits(11, 11, 7),
          LowBits(12, 12, 31)})
LEMMA LaidBranch ==
  ASSUME NEW v \in Int
  PROVE  Laid(v, BranchPlaces)
           = 2^8 * ((v \div 2^1) % 2^4) + 2^25 * ((v \div 2^5) % 2^6)
             + 2^7 * ((v \div 2^11) % 2^1) + BitOf(v, 12) * Weight(31)
<1> DEFINE x == LowBits(1, 4, 8)
           y == LowBits(5, 10, 25)
           z == LowBits(11, 11, 7)
           t == LowBits(12, 12, 31)
           p == BranchPlaces
<1>1. /\ DOMAIN x = 1 .. 4 /\ \A k \in 1 .. 4 : x[k] = 8 + (k - 1)
      /\ DOMAIN y = 5 .. 10 /\ \A k \in 5 .. 10 : y[k] = 25 + (k - 5)
      /\ DOMAIN z = 11 .. 11 /\ \A k \in 11 .. 11 : z[k] = 7 + (k - 11)
      /\ DOMAIN t = 12 .. 12 /\ \A k \in 12 .. 12 : t[k] = 31 + (k - 12)
  BY DEF LowBits
<1>2. p = Joined({x, y, z, t})
  BY DEF BranchPlaces
<1> HIDE DEF x, y, z, t, p
<1>3. /\ \A k : k \in DOMAIN p
                 <=> k \in 1 .. 4 \/ k \in 5 .. 10 \/ k \in 11 .. 11 \/ k \in 12 .. 12
      /\ \A k \in 1 .. 4 : p[k] = 8 + (k - 1)
      /\ \A k \in 5 .. 10 : p[k] = 25 + (k - 5)
      /\ \A k \in 11 .. 11 : p[k] = 7 + (k - 11)
      /\ \A k \in 12 .. 12 : p[k] = 31 + (k - 12)
  <2>1. \A r, s \in {x, y, z, t} : \A k : k \in DOMAIN r /\ k \in DOMAIN s => r = s
    BY <1>1
  <2>2. /\ DOMAIN p = UNION {DOMAIN r : r \in {x, y, z, t}}
        /\ \A r \in {x, y, z, t} : \A k \in DOMAIN r : p[k] = r[k]
    BY <1>2, <2>1, JoinedPieces
  <2>3. \A k : k \in DOMAIN p
              <=> k \in DOMAIN x \/ k \in DOMAIN y \/ k \in DOMAIN z \/ k \in DOMAIN t
    BY <2>2
  <2>4. \A k \in 1 .. 4 : p[k] = 8 + (k - 1)
    <3>1. \A k \in DOMAIN x : p[k] = x[k]
      BY <2>2
    <3> QED BY <1>1, <3>1
  <2>5. \A k \in 5 .. 10 : p[k] = 25 + (k - 5)
    <3>1. \A k \in DOMAIN y : p[k] = y[k]
      BY <2>2
    <3> QED BY <1>1, <3>1
  <2>6. \A k \in 11 .. 11 : p[k] = 7 + (k - 11)
    <3>1. \A k \in DOMAIN z : p[k] = z[k]
      BY <2>2
    <3> QED BY <1>1, <3>1
  <2>7. \A k \in 12 .. 12 : p[k] = 31 + (k - 12)
    <3>1. \A k \in DOMAIN t : p[k] = t[k]
      BY <2>2
    <3> QED BY <1>1, <3>1
  <2>8. \A k : k \in DOMAIN p
              <=> k \in 1 .. 4 \/ k \in 5 .. 10 \/ k \in 11 .. 11 \/ k \in 12 .. 12
    BY <1>1, <2>3
  <2> QED BY <2>4, <2>5, <2>6, <2>7, <2>8
<1>4. InWord(p) /\ DOMAIN p \subseteq 0 .. 12 /\ 12 \in DOMAIN p /\ p[12] = 31
  <2>1. DOMAIN p \subseteq 0 .. 12 /\ DOMAIN p \subseteq 0 .. 20 /\ 12 \in DOMAIN p
    BY <1>3
  <2>2. ASSUME NEW k \in DOMAIN p PROVE p[k] \in 0 .. 31
    <3>1. CASE k \in 1 .. 4
      BY <1>3, <3>1
    <3>2. CASE k \in 5 .. 10
      BY <1>3, <3>2
    <3>3. CASE k \in 11 .. 11
      BY <1>3, <3>3
    <3>4. CASE k \in 12 .. 12
      BY <1>3, <3>4
    <3> QED BY <1>3, <3>1, <3>2, <3>3, <3>4
  <2>3. p[12] = 31
    BY <1>3
  <2> QED BY <2>1, <2>2, <2>3 DEF InWord
<1>5. Piece(p, 1, 4, 8) /\ Piece(p, 5, 6, 25) /\ Piece(p, 11, 1, 7)
  BY <1>3 DEF Piece
<1>6. /\ LaidBelow(v, p, 1 + 4) = LaidBelow(v, p, 1) + 2^8 * ((v \div 2^1) % 2^4)
      /\ LaidBelow(v, p, 5 + 6) = LaidBelow(v, p, 5) + 2^25 * ((v \div 2^5) % 2^6)
      /\ LaidBelow(v, p, 11 + 1) = LaidBelow(v, p, 11) + 2^7 * ((v \div 2^11) % 2^1)
  <2>1. LaidBelow(v, p, 1 + 4) = LaidBelow(v, p, 1) + 2^8 * ((v \div 2^1) % 2^4)
    <3>1. /\ 1 \in 0 .. 20 /\ 4 \in Nat /\ 8 \in 0 .. 30 /\ 8 + 4 <= 31
          /\ 1 + 4 <= 21 /\ Piece(p, 1, 4, 8)
      BY <1>5
    <3> QED BY <1>4, <3>1, PieceAdds, Zenon
  <2>2. LaidBelow(v, p, 5 + 6) = LaidBelow(v, p, 5) + 2^25 * ((v \div 2^5) % 2^6)
    <3>1. /\ 5 \in 0 .. 20 /\ 6 \in Nat /\ 25 \in 0 .. 30 /\ 25 + 6 <= 31
          /\ 5 + 6 <= 21 /\ Piece(p, 5, 6, 25)
      BY <1>5
    <3> QED BY <1>4, <3>1, PieceAdds, Zenon
  <2>3. LaidBelow(v, p, 11 + 1) = LaidBelow(v, p, 11) + 2^7 * ((v \div 2^11) % 2^1)
    <3>1. /\ 11 \in 0 .. 20 /\ 1 \in Nat /\ 7 \in 0 .. 30 /\ 7 + 1 <= 31
          /\ 11 + 1 <= 21 /\ Piece(p, 11, 1, 7)
      BY <1>5
    <3> QED BY <1>4, <3>1, PieceAdds, Zenon
  <2> QED BY <2>1, <2>2, <2>3
<1>7. LaidBelow(v, p, 0) = 0 /\ Laid(v, p) = LaidBelow(v, p, 12) + BitOf(v, 12) * Weight(31)
  BY <1>4, SumOfBits, SignAdds
<1>8. LaidBelow(v, p, 0 + 1) = LaidBelow(v, p, 0)
  <2>1. 0 \in Nat /\ 0 \notin DOMAIN p
    BY <1>3
  <2>2. LaidBelow(v, p, 0 + 1) = LaidBelow(v, p, 0) + 0
    BY <1>4, <2>1, SumOfBits
  <2> QED BY <1>7, <2>2
<1> QED BY <1>6, <1>7, <1>8 DEF p

\* So has that of a jump.
JumpPlaces ==
  Joined({LowBits(1, 10, 21),
          LowBits(11, 11, 20),
          LowBits(12, 19, 12),
          LowBits(20, 20, 31)})
LEMMA LaidJump ==
  ASSUME NEW v \in Int
  PROVE  Laid(v, JumpPlaces)
           = 2^21 * ((v \div 2^1) % 2^10) + 2^20 * ((v \div 2^11) % 2^1)
             + 2^12 * ((v \div 2^12) % 2^8) + BitOf(v, 20) * Weight(31)
<1> DEFINE x == LowBits(1, 10, 21)
           y == LowBits(11, 11, 20)
           z == LowBits(12, 19, 12)
           t == LowBits(20, 20, 31)
           p == JumpPlaces
<1>1. /\ DOMAIN x = 1 .. 10 /\ \A k \in 1 .. 10 : x[k] = 21 + (k - 1)
      /\ DOMAIN y = 11 .. 11 /\ \A k \in 11 .. 11 : y[k] = 20 + (k - 11)
      /\ DOMAIN z = 12 .. 19 /\ \A k \in 12 .. 19 : z[k] = 12 + (k - 12)
      /\ DOMAIN t = 20 .. 20 /\ \A k \in 20 .. 20 : t[k] = 31 + (k - 20)
  BY DEF LowBits
<1>2. p = Joined({x, y, z, t})
  BY DEF JumpPlaces
<1> HIDE DEF x, y, z, t, p
<1>3. /\ \A k : k \in DOMAIN p
                 <=> k \in 1 .. 10 \/ k \in 11 .. 11 \/ k \in 12 .. 19 \/ k \in 20 .. 20
      /\ \A k \in 1 .. 10 : p[k] = 21 + (k - 1)
      /\ \A k \in 11 .. 11 : p[k] = 20 + (k - 11)
      /\ \A k \in 12 .. 19 : p[k] = 12 + (k - 12)
      /\ \A k \in 20 .. 20 : p[k] = 31 + (k - 20)
  <2>1. \A r, s \in {x, y, z, t} : \A k : k \in DOMAIN r /\ k \in DOMAIN s => r = s
    BY <1>1
  <2>2. /\ DOMAIN p = UNION {DOMAIN r : r \in {x, y, z, t}}
        /\ \A r \in {x, y, z, t} : \A k \in DOMAIN r : p[k] = r[k]
    BY <1>2, <2>1, JoinedPieces
  <2>3. \A k : k \in DOMAIN p
              <=> k \in DOMAIN x \/ k \in DOMAIN y \/ k \in DOMAIN z \/ k \in DOMAIN t
    BY <2>2
  <2>4. \A k \in 1 .. 10 : p[k] = 21 + (k - 1)
    <3>1. \A k \in DOMAIN x : p[k] = x[k]
      BY <2>2
    <3> QED BY <1>1, <3>1
  <2>5. \A k \in 11 .. 11 : p[k] = 20 + (k - 11)
    <3>1. \A k \in DOMAIN y : p[k] = y[k]
      BY <2>2
    <3> QED BY <1>1, <3>1
  <2>6. \A k \in 12 .. 19 : p[k] = 12 + (k - 12)
    <3>1. \A k \in DOMAIN z : p[k] = z[k]
      BY <2>2
    <3> QED BY <1>1, <3>1
  <2>7. \A k \in 20 .. 20 : p[k] = 31 + (k - 20)
    <3>1. \A k \in DOMAIN t : p[k] = t[k]
      BY <2>2
    <3> QED BY <1>1, <3>1
  <2>8. \A k : k \in DOMAIN p
              <=> k \in 1 .. 10 \/ k \in 11 .. 11 \/ k \in 12 .. 19 \/ k \in 20 .. 20
    BY <1>1, <2>3
  <2> QED BY <2>4, <2>5, <2>6, <2>7, <2>8
<1>4. InWord(p) /\ DOMAIN p \subseteq 0 .. 20 /\ 20 \in DOMAIN p /\ p[20] = 31
  <2>1. DOMAIN p \subseteq 0 .. 20 /\ DOMAIN p \subseteq 0 .. 20 /\ 20 \in DOMAIN p
    BY <1>3
  <2>2. ASSUME NEW k \in DOMAIN p PROVE p[k] \in 0 .. 31
    <3>1. CASE k \in 1 .. 10
      BY <1>3, <3>1
    <3>2. CASE k \in 11 .. 11
      BY <1>3, <3>2
    <3>3. CASE k \in 12 .. 19
      BY <1>3, <3>3
    <3>4. CASE k \in 20 .. 20
      BY <1>3, <3>4
    <3> QED BY <1>3, <3>1, <3>2, <3>3, <3>4
  <2>3. p[20] = 31
    BY <1>3
  <2> QED BY <2>1, <2>2, <2>3 DEF InWord
<1>5. Piece(p, 1, 10, 21) /\ Piece(p, 11, 1, 20) /\ Piece(p, 12, 8, 12)
  BY <1>3 DEF Piece
<1>6. /\ LaidBelow(v, p, 1 + 10) = LaidBelow(v, p, 1) + 2^21 * ((v \div 2^1) % 2^10)
      /\ LaidBelow(v, p, 11 + 1) = LaidBelow(v, p, 11) + 2^20 * ((v \div 2^11) % 2^1)
      /\ LaidBelow(v, p, 12 + 8) = LaidBelow(v, p, 12) + 2^12 * ((v \div 2^12) % 2^8)
  <2>1. LaidBelow(v, p, 1 + 10) = LaidBelow(v, p, 1) + 2^21 * ((v \div 2^1) % 2^10)
    <3>1. /\ 1 \in 0 .. 20 /\ 10 \in Nat /\ 21 \in 0 .. 30 /\ 21 + 10 <= 31
          /\ 1 + 10 <= 21 /\ Piece(p, 1, 10, 21)
      BY <1>5
    <3> QED BY <1>4, <3>1, PieceAdds, Zenon
  <2>2. LaidBelow(v, p, 11 + 1) = LaidBelow(v, p, 11) + 2^20 * ((v \div 2^11) % 2^1)
    <3>1. /\ 11 \in 0 .. 20 /\ 1 \in Nat /\ 20 \in 0 .. 30 /\ 20 + 1 <= 31
          /\ 11 + 1 <= 21 /\ Piece(p, 11, 1, 20)
      BY <1>5
    <3> QED BY <1>4, <3>1, PieceAdds, Zenon
  <2>3. LaidBelow(v, p, 12 + 8) = LaidBelow(v, p, 12) + 2^12 * ((v \div 2^12) % 2^8)
    <3>1. /\ 12 \in 0 .. 20 /\ 8 \in Nat /\ 12 \in 0 .. 30 /\ 12 + 8 <= 31
          /\ 12 + 8 <= 21 /\ Piece(p, 12, 8, 12)
      BY <1>5
    <3> QED BY <1>4, <3>1, PieceAdds, Zenon
  <2> QED BY <2>1, <2>2, <2>3
<1>7. LaidBelow(v, p, 0) = 0 /\ Laid(v, p) = LaidBelow(v, p, 20) + BitOf(v, 20) * Weight(31)
  BY <1>4, SumOfBits, SignAdds
<1>8. LaidBelow(v, p, 0 + 1) = LaidBelow(v, p, 0)
  <2>1. 0 \in Nat /\ 0 \notin DOMAIN p
    BY <1>3
  <2>2. LaidBelow(v, p, 0 + 1) = LaidBelow(v, p, 0) + 0
    BY <1>4, <2>1, SumOfBits
  <2> QED BY <1>7, <2>2
<1> QED BY <1>6, <1>7, <1>8 DEF p

\* Six fields, the bits of the last one but its highest, and that bit.
InRange(op, d, f, r, t, g, s) ==
  /\ op \in Int /\ 0 <= op /\ op < 128 /\ d \in Int /\ 0 <= d /\ d < 32
  /\ f \in Int /\ 0 <= f /\ f < 8 /\ r \in Int /\ 0 <= r /\ r < 32
  /\ t \in Int /\ 0 <= t /\ t < 32 /\ g \in Int /\ 0 <= g /\ g < 64
  /\ s \in Int /\ 0 <= s /\ s < 2

WordOf(op, d, f, r, t, g, s) ==
  op + 128 * d + 4096 * f + 32768 * r + 1048576 * t + 33554432 * g - 2147483648 * s

\* The word of six fields and a sign is cut into them again.
LEMMA FieldsCut ==
  ASSUME NEW op, NEW d, NEW f, NEW r, NEW t, NEW g, NEW s, InRange(op, d, f, r, t, g, s),
         NEW w, w = WordOf(op, d, f, r, t, g, s)
  PROVE  /\ OpcodeOf(w) = op /\ RdOf(w) = d /\ Funct3Of(w) = f /\ Rs1Of(w) = r
         /\ Rs2Of(w) = t /\ Funct7Of(w) = g + 64 * s /\ SignBit(w) = s
         /\ Cut(w, \h100000, 4096) = t + 32 * g + 2048 * s
         /\ ImmediateU(w) = f + 8 * r + 256 * t + 8192 * g + 524288 * s
         /\ Cut(w, \h80, 2) = d % 2 /\ Cut(w, \h100, 16) = d \div 2
         /\ Cut(w, \h2000000, 64) = g
         /\ Cut(w, \h100000, 2) = t % 2 /\ Cut(w, \h200000, 1024) = t \div 2 + 16 * g
         /\ Cut(w, \h1000, 256) = f + 8 * r
<1> USE DEF InRange, WordOf
<1>1. OpcodeOf(w) = op
  BY SMT DEF OpcodeOf
<1>2. RdOf(w) = d /\ Cut(w, \h80, 2) = d % 2 /\ Cut(w, \h100, 16) = d \div 2
  BY SMT DEF RdOf, Cut
<1>3. Funct3Of(w) = f
  BY SMT DEF Funct3Of, Cut
<1>4. Rs1Of(w) = r
  BY SMT DEF Rs1Of, Cut
<1>5. Rs2Of(w) = t
  BY SMT DEF Rs2Of, Cut
<1>6. Funct7Of(w) = g + 64 * s
  BY SMT DEF Funct7Of, Cut
<1>7. SignBit(w) = s
  BY SMT DEF SignBit, Cut
<1>8. Cut(w, \h100000, 4096) = t + 32 * g + 2048 * s
  BY SMT DEF Cut
<1>9. ImmediateU(w) = f + 8 * r + 256 * t + 8192 * g + 524288 * s
  BY SMT DEF ImmediateU, Cut
<1>10. Cut(w, \h2000000, 64) = g
  BY SMT DEF Cut
<1>11. Cut(w, \h100000, 2) = t % 2
  BY SMT DEF Cut
<1>12. Cut(w, \h200000, 1024) = t \div 2 + 16 * g
  BY SMT DEF Cut
<1>13. Cut(w, \h1000, 256) = f + 8 * r
  BY SMT DEF Cut
<1> QED BY SMT, <1>1, <1>2, <1>3, <1>4, <1>5, <1>6, <1>7, <1>8, <1>9, <1>10, <1>11, <1>12,
          <1>13

\* What the assembler is given, and the word of its fields.
LEMMA WordOfFields ==
  ASSUME NEW opcode \in Opcodes, NEW i \in Insns(opcode)
  PROVE  /\ i.opcode = opcode /\ opcode \in 0 .. 127 /\ i.rd \in 0 .. 31 /\ i.rs1 \in 0 .. 31
         /\ i.rs2 \in 0 .. 31 /\ i.funct3 \in 0 .. 7 /\ i.funct7 \in 0 .. 127
         /\ i.imm \in Int /\ Holdable(opcode, i.imm)
         /\ (~HasRd(opcode) => i.rd = 0) /\ (~HasRs2(opcode) => i.rs2 = 0)
         /\ (~HasRs1(opcode) => i.rs1 = 0 /\ i.funct3 = 0)
         /\ (opcode # \h33 => i.funct7 = 0)
         /\ i = [opcode |-> opcode, rd |-> i.rd, funct3 |-> i.funct3, rs1 |-> i.rs1,
                 rs2 |-> i.rs2, funct7 |-> i.funct7, imm |-> i.imm]
         /\ Assembled(i)
              = opcode + 128 * i.rd + (4096 * i.funct3 + 32768 * i.rs1) + 1048576 * i.rs2
                + (33554432 * (i.funct7 % 64) - 2147483648 * (i.funct7 \div 64))
                + Laid(i.imm, ImmBits(opcode))
<1>1. opcode \in 0 .. 127
  BY DEF Opcodes, RegisterImmediate, UFormat
<1>2. /\ i.opcode = opcode /\ i.rd \in 0 .. 31 /\ i.rs1 \in 0 .. 31
      /\ i.rs2 \in 0 .. 31 /\ i.funct3 \in 0 .. 7 /\ i.funct7 \in 0 .. 127
      /\ i.imm \in Int /\ Holdable(opcode, i.imm)
  <2>1. /\ i.opcode = opcode
        /\ i.rd \in IF HasRd(opcode) THEN Regs ELSE {0}
        /\ i.rs1 \in IF HasRs1(opcode) THEN Regs ELSE {0}
        /\ i.rs2 \in IF HasRs2(opcode) THEN Regs ELSE {0}
        /\ i.funct3 \in IF HasRs1(opcode) THEN 0 .. 7 ELSE {0}
        /\ i.funct7 \in IF opcode = \h33 THEN Funct7s ELSE {0}
        /\ i.imm \in Imms /\ Holdable(opcode, i.imm)
    BY DEF Insns
  <2>2. /\ Regs \subseteq 0 .. 31 /\ Funct7s \subseteq 0 .. 127 /\ Imms \subseteq Int
        /\ 0 \in 0 .. 31 /\ 0 \in 0 .. 127
    BY InsnAssumption
  <2>3. i.rd \in 0 .. 31
    <3>1. i.rd \in Regs \/ i.rd = 0
      BY <2>1
    <3> QED BY <2>2, <3>1, Zenon
  <2>4. i.rs1 \in 0 .. 31
    <3>1. i.rs1 \in Regs \/ i.rs1 = 0
      BY <2>1
    <3> QED BY <2>2, <3>1, Zenon
  <2>5. i.rs2 \in 0 .. 31
    <3>1. i.rs2 \in Regs \/ i.rs2 = 0
      BY <2>1
    <3> QED BY <2>2, <3>1, Zenon
  <2>6. i.funct3 \in 0 .. 7
    BY <2>1
  <2>7. i.funct7 \in 0 .. 127
    <3>1. i.funct7 \in Funct7s \/ i.funct7 = 0
      BY <2>1
    <3> QED BY <2>2, <3>1, Zenon
  <2> QED BY <2>1, <2>2, <2>3, <2>4, <2>5, <2>6, <2>7
<1>3. /\ (~HasRd(opcode) => i.rd = 0) /\ (~HasRs2(opcode) => i.rs2 = 0)
      /\ (~HasRs1(opcode) => i.rs1 = 0 /\ i.funct3 = 0)
      /\ (opcode # \h33 => i.funct7 = 0)
  BY DEF Insns
<1>4. i = [opcode |-> opcode, rd |-> i.rd, funct3 |-> i.funct3, rs1 |-> i.rs1,
           rs2 |-> i.rs2, funct7 |-> i.funct7, imm |-> i.imm]
  BY <1>2 DEF Insns
<1> DEFINE D == IF HasRd(opcode) THEN Placed(i.rd, 7, 5) ELSE 0
           F == IF HasRs1(opcode) THEN Placed(i.funct3, 12, 3) + Placed(i.rs1, 15, 5) ELSE 0
           T == IF HasRs2(opcode) THEN Placed(i.rs2, 20, 5) ELSE 0
           G == IF opcode = \h33 THEN Placed(i.funct7, 25, 7) ELSE 0
<1>5. D = 128 * i.rd
  BY <1>2, <1>3, SMT, FieldsPlaced
<1>6. F = 4096 * i.funct3 + 32768 * i.rs1
  BY <1>2, <1>3, SMT, FieldsPlaced
<1>7. T = 1048576 * i.rs2
  BY <1>2, <1>3, SMT, FieldsPlaced
<1>8. G = 33554432 * (i.funct7 % 64) - 2147483648 * (i.funct7 \div 64)
  BY <1>2, <1>3, SMT, FieldsPlaced
<1>9. Placed(opcode, 0, 7) = opcode
  BY <1>1, SMT, FieldsPlaced
<1>10. Assembled(i) = Placed(opcode, 0, 7) + D + F + T + G + Laid(i.imm, ImmBits(opcode))
  BY <1>2, SMT DEF Assembled
<1> HIDE DEF D, F, T, G
<1>11. Assembled(i)
         = opcode + 128 * i.rd + (4096 * i.funct3 + 32768 * i.rs1) + 1048576 * i.rs2
           + (33554432 * (i.funct7 % 64) - 2147483648 * (i.funct7 \div 64))
           + Laid(i.imm, ImmBits(opcode))
  BY SMT, <1>5, <1>6, <1>7, <1>8, <1>9, <1>10
<1> QED BY SMT, <1>1, <1>2, <1>3, <1>4, <1>11

\* What each format holds.
LEMMA ImmediateHeld ==
  ASSUME NEW opcode \in Opcodes, NEW imm \in Int, Holdable(opcode, imm)
  PROVE  /\ (opcode \in RegisterImmediate \/ opcode = \h23 => -2048 <= imm /\ imm < 2048)
         /\ (opcode = \h63 => -4096 <= imm /\ imm < 4096 /\ imm % 2 = 0)
         /\ (opcode \in UFormat => 0 <= imm /\ imm < 1048576)
         /\ (opcode = \h6F => -1048576 <= imm /\ imm < 1048576 /\ imm % 2 = 0)
         /\ (opcode = \h33 \/ opcode = \h0F => imm = 0)
<1>0. \A n \in Int : imm \in Reach(n) => -n <= imm /\ imm < n
  BY DEF Reach
<1>1. ASSUME opcode \in RegisterImmediate \/ opcode = \h23
      PROVE  -2048 <= imm /\ imm < 2048
  BY <1>0, <1>1, SMT DEF Holdable
<1>2. ASSUME opcode = \h63
      PROVE  -4096 <= imm /\ imm < 4096 /\ imm % 2 = 0
  BY <1>0, <1>2, SMT DEF Holdable
<1>3. ASSUME opcode \in UFormat
      PROVE  0 <= imm /\ imm < 1048576
  BY <1>0, <1>3, SMT DEF Holdable
<1>4. ASSUME opcode = \h6F
      PROVE  -1048576 <= imm /\ imm < 1048576 /\ imm % 2 = 0
  BY <1>0, <1>4, SMT DEF Holdable
<1>5. ASSUME opcode = \h33 \/ opcode = \h0F
      PROVE  imm = 0
  BY <1>5, SMT DEF Holdable
<1> QED BY SMT, <1>1, <1>2, <1>3, <1>4, <1>5

\* The weight of the highest bit.
LEMMA HighestBit == Weight(31) = -2147483648
  BY SMT DEF Weight

\* The word of an instruction of two registers, or of none.
LEMMA RegistersDecoded ==
  ASSUME NEW opcode \in {\h33, \h0F}, NEW i \in Insns(opcode)
  PROVE  DecodeWord(Assembled(i)) = i
<1> DEFINE p == LowBits(0, -1, 0)
           w == Assembled(i)
<1>1. opcode \in Opcodes /\ ImmBits(opcode) = p
  BY DEF Opcodes, ImmBits, RegisterImmediate, UFormat
<1>2. DOMAIN p = {}
  <2>1. \A x : x \notin 0 .. -1
    OBVIOUS
  <2> QED BY <2>1 DEF LowBits
<1>3. Laid(i.imm, p) = 0
  <2> HIDE DEF p
  <2>1. InWord(p) /\ DOMAIN p \subseteq 0 .. 0 - 1 /\ 0 \in Nat
    BY <1>2 DEF InWord
  <2>2. i.imm \in Int
    BY <1>1, SMT, WordOfFields
  <2> QED BY <2>1, <2>2, SumOfBits
<1>4. /\ opcode \in 0 .. 127 /\ i.rd \in 0 .. 31 /\ i.rs1 \in 0 .. 31
      /\ i.rs2 \in 0 .. 31 /\ i.funct3 \in 0 .. 7 /\ i.funct7 \in 0 .. 127
      /\ i.imm = 0
      /\ (opcode = \h0F => i.rd = 0 /\ i.rs1 = 0 /\ i.rs2 = 0 /\ i.funct3 = 0 /\ i.funct7 = 0)
  <2>1. /\ opcode \in 0 .. 127 /\ i.rd \in 0 .. 31 /\ i.rs1 \in 0 .. 31
        /\ i.rs2 \in 0 .. 31 /\ i.funct3 \in 0 .. 7 /\ i.funct7 \in 0 .. 127
        /\ Holdable(opcode, i.imm)
        /\ (~HasRd(opcode) => i.rd = 0) /\ (~HasRs2(opcode) => i.rs2 = 0)
        /\ (~HasRs1(opcode) => i.rs1 = 0 /\ i.funct3 = 0)
        /\ (opcode # \h33 => i.funct7 = 0)
    BY <1>1, SMT, WordOfFields
  <2>2. i.imm = 0
    <3>1. i.imm \in Int /\ Holdable(opcode, i.imm)
      BY <1>1, SMT, WordOfFields
    <3> QED BY <1>1, <3>1, SMT, ImmediateHeld
  <2>3. opcode = \h0F => ~HasRd(opcode) /\ ~HasRs1(opcode) /\ ~HasRs2(opcode)
    BY DEF HasRd, HasRs1, HasRs2, RegisterImmediate, UFormat
  <2> QED BY <2>1, <2>2, <2>3
<1>5. i = [opcode |-> opcode, rd |-> i.rd, funct3 |-> i.funct3, rs1 |-> i.rs1,
           rs2 |-> i.rs2, funct7 |-> i.funct7, imm |-> i.imm]
  BY <1>1, SMT, WordOfFields
<1>6. w = opcode + 128 * i.rd + (4096 * i.funct3 + 32768 * i.rs1) + 1048576 * i.rs2
          + (33554432 * (i.funct7 % 64) - 2147483648 * (i.funct7 \div 64)) + 0
  BY <1>1, <1>3, SMT, WordOfFields
<1> HIDE DEF w, p
<1> DEFINE d == i.rd
           f == i.funct3
           r == i.rs1
           t == i.rs2
           g == i.funct7 % 64
           s == i.funct7 \div 64
<1>7. InRange(opcode, d, f, r, t, g, s) /\ g + 64 * s = i.funct7
  BY <1>4 DEF InRange
<1>8. w = opcode + 128 * d + (4096 * f + 32768 * r) + 1048576 * t
          + (33554432 * g - 2147483648 * s) + 0
  BY SMT, <1>6
<1> HIDE DEF d, f, r, t, g, s
<1>9. w = WordOf(opcode, d, f, r, t, g, s)
  BY SMT, <1>7, <1>8 DEF InRange, WordOf
<1>10. /\ OpcodeOf(w) = opcode /\ RdOf(w) = d /\ Funct3Of(w) = f /\ Rs1Of(w) = r
       /\ Rs2Of(w) = t /\ Funct7Of(w) = g + 64 * s
  BY SMT, <1>7, <1>9, FieldsCut
<1>11. /\ OpcodeOf(w) = opcode /\ RdOf(w) = i.rd /\ Funct3Of(w) = i.funct3
       /\ Rs1Of(w) = i.rs1 /\ Rs2Of(w) = i.rs2 /\ Funct7Of(w) = i.funct7
  BY SMT, <1>7, <1>10 DEF d, f, r, t
<1>12. CASE opcode = \h33
  BY <1>4, <1>5, <1>11, <1>12 DEF DecodeWord, decode_r, Filled, w
<1>13. CASE opcode = \h0F
  BY <1>4, <1>5, <1>11, <1>13 DEF DecodeWord, Undecoded, Filled, w
<1> QED BY <1>12, <1>13

\* The immediates in the word, by their pieces.
LEMMA LaidImmediates ==
  ASSUME NEW v \in Int
  PROVE  /\ Laid(v, LowBits(0, 11, 20))
              = 1048576 * (v % 2048) - 2147483648 * ((v \div 2048) % 2)
         /\ Laid(v, StorePlaces)
              = 128 * (v % 32) + 33554432 * ((v \div 32) % 64)
                - 2147483648 * ((v \div 2048) % 2)
         /\ Laid(v, BranchPlaces)
              = 256 * ((v \div 2) % 16) + 33554432 * ((v \div 32) % 64)
                + 128 * ((v \div 2048) % 2) - 2147483648 * ((v \div 4096) % 2)
         /\ Laid(v, LowBits(0, 19, 12))
              = 4096 * (v % 524288) - 2147483648 * ((v \div 524288) % 2)
         /\ Laid(v, JumpPlaces)
              = 2097152 * ((v \div 2) % 1024) + 1048576 * ((v \div 2048) % 2)
                + 4096 * ((v \div 4096) % 256) - 2147483648 * ((v \div 1048576) % 2)
<1>2. Laid(v, LowBits(0, 11, 20)) = 2^20 * (v % 2^11) + BitOf(v, 11) * Weight(31)
  <2>1. 11 \in 1 .. 20 /\ 20 \in 0 .. 30 /\ 20 + 11 = 31
    OBVIOUS
  <2> QED BY <2>1, LaidWhole, Zenon
<1>3. Laid(v, LowBits(0, 19, 12)) = 2^12 * (v % 2^19) + BitOf(v, 19) * Weight(31)
  <2>1. 19 \in 1 .. 20 /\ 12 \in 0 .. 30 /\ 12 + 19 = 31
    OBVIOUS
  <2> QED BY <2>1, LaidWhole, Zenon
<1>4. /\ BitOf(v, 11) = (v \div 2048) % 2 /\ BitOf(v, 12) = (v \div 4096) % 2
      /\ BitOf(v, 19) = (v \div 524288) % 2 /\ BitOf(v, 20) = (v \div 1048576) % 2
  BY SMT, PowersAre DEF BitOf
<1>5. Laid(v, LowBits(0, 11, 20)) = 1048576 * (v % 2048) - 2147483648 * ((v \div 2048) % 2)
  BY SMT, <1>2, <1>4, PowersAre, HighestBit
<1>6. Laid(v, LowBits(0, 19, 12)) = 4096 * (v % 524288) - 2147483648 * ((v \div 524288) % 2)
  BY SMT, <1>3, <1>4, PowersAre, HighestBit
<1>7. Laid(v, StorePlaces)
        = 128 * (v % 32) + 33554432 * ((v \div 32) % 64) - 2147483648 * ((v \div 2048) % 2)
  <2>1. Laid(v, StorePlaces)
          = 2^7 * (v % 2^5) + 2^25 * ((v \div 2^5) % 2^6) + BitOf(v, 11) * Weight(31)
    BY ONLY v \in Int, LaidStore
  <2> QED BY SMT, <1>4, <2>1, PowersAre, HighestBit
<1>8. Laid(v, BranchPlaces)
        = 256 * ((v \div 2) % 16) + 33554432 * ((v \div 32) % 64)
          + 128 * ((v \div 2048) % 2) - 2147483648 * ((v \div 4096) % 2)
  <2>1. Laid(v, BranchPlaces)
          = 2^8 * ((v \div 2^1) % 2^4) + 2^25 * ((v \div 2^5) % 2^6)
            + 2^7 * ((v \div 2^11) % 2^1) + BitOf(v, 12) * Weight(31)
    BY ONLY v \in Int, LaidBranch
  <2> QED BY SMT, <1>4, <2>1, PowersAre, HighestBit
<1>9. Laid(v, JumpPlaces)
        = 2097152 * ((v \div 2) % 1024) + 1048576 * ((v \div 2048) % 2)
          + 4096 * ((v \div 4096) % 256) - 2147483648 * ((v \div 1048576) % 2)
  <2>1. Laid(v, JumpPlaces)
          = 2^21 * ((v \div 2^1) % 2^10) + 2^20 * ((v \div 2^11) % 2^1)
            + 2^12 * ((v \div 2^12) % 2^8) + BitOf(v, 20) * Weight(31)
    BY ONLY v \in Int, LaidJump
  <2> QED BY SMT, <1>4, <2>1, PowersAre, HighestBit
<1> QED BY SMT, <1>5, <1>6, <1>7, <1>8, <1>9

\* What an instruction with an immediate is, by the fields that its format has.
LEMMA ImmediateWord ==
  ASSUME NEW opcode \in Opcodes, opcode # \h33, NEW i \in Insns(opcode)
  PROVE  /\ opcode \in 0 .. 127 /\ i.rd \in 0 .. 31 /\ i.rs1 \in 0 .. 31
         /\ i.rs2 \in 0 .. 31 /\ i.funct3 \in 0 .. 7 /\ i.imm \in Int
         /\ Holdable(opcode, i.imm)
         /\ (~HasRd(opcode) => i.rd = 0) /\ (~HasRs2(opcode) => i.rs2 = 0)
         /\ (~HasRs1(opcode) => i.rs1 = 0 /\ i.funct3 = 0)
         /\ i = [opcode |-> opcode, rd |-> i.rd, funct3 |-> i.funct3, rs1 |-> i.rs1,
                 rs2 |-> i.rs2, funct7 |-> 0, imm |-> i.imm]
         /\ Assembled(i)
              = opcode + 128 * i.rd + (4096 * i.funct3 + 32768 * i.rs1) + 1048576 * i.rs2
                + Laid(i.imm, ImmBits(opcode))
<1>1. /\ opcode \in 0 .. 127 /\ i.rd \in 0 .. 31 /\ i.rs1 \in 0 .. 31
      /\ i.rs2 \in 0 .. 31 /\ i.funct3 \in 0 .. 7 /\ i.funct7 = 0
      /\ i.imm \in Int /\ Holdable(opcode, i.imm)
      /\ (~HasRd(opcode) => i.rd = 0) /\ (~HasRs2(opcode) => i.rs2 = 0)
      /\ (~HasRs1(opcode) => i.rs1 = 0 /\ i.funct3 = 0)
  BY SMT, WordOfFields
<1>2. /\ i = [opcode |-> opcode, rd |-> i.rd, funct3 |-> i.funct3, rs1 |-> i.rs1,
              rs2 |-> i.rs2, funct7 |-> i.funct7, imm |-> i.imm]
      /\ Assembled(i)
           = opcode + 128 * i.rd + (4096 * i.funct3 + 32768 * i.rs1) + 1048576 * i.rs2
             + (33554432 * (i.funct7 % 64) - 2147483648 * (i.funct7 \div 64))
             + Laid(i.imm, ImmBits(opcode))
  BY SMT, WordOfFields
<1> DEFINE x == opcode + 128 * i.rd + (4096 * i.funct3 + 32768 * i.rs1) + 1048576 * i.rs2
<1>3. x \in Int
  <2>1. /\ opcode \in Int /\ i.rd \in Int /\ i.funct3 \in Int /\ i.rs1 \in Int
        /\ i.rs2 \in Int
    BY <1>1
  <2>2. \A y, z, m, n, k \in Int :
          y + 128 * z + (4096 * m + 32768 * n) + 1048576 * k \in Int
    BY SMT
  <2> QED BY SMT, <2>1, <2>2
<1> HIDE DEF x
<1>4. Assembled(i) = x + (33554432 * (i.funct7 % 64) - 2147483648 * (i.funct7 \div 64))
                     + Laid(i.imm, ImmBits(opcode))
  BY SMT, <1>2 DEF x
<1>5. 33554432 * (i.funct7 % 64) - 2147483648 * (i.funct7 \div 64) = 0
  BY SMT, <1>1
<1>6. Assembled(i) = x + Laid(i.imm, ImmBits(opcode))
  BY SMT, <1>3, <1>4, <1>5
<1> QED BY SMT, <1>1, <1>2, <1>6 DEF x

\* The instructions with an immediate of 12 bits in one piece.
LEMMA RegisterImmediateDecoded ==
  ASSUME NEW opcode \in RegisterImmediate, NEW i \in Insns(opcode)
  PROVE  DecodeWord(Assembled(i)) = i
<1> DEFINE v == i.imm
           w == Assembled(i)
           u == v % 2048
           t == u % 32
           g == u \div 32
           s == (v \div 2048) % 2
<1>1. /\ opcode \in Opcodes /\ opcode # \h33 /\ ~HasRs2(opcode)
      /\ ImmBits(opcode) = LowBits(0, 11, 20)
      /\ opcode \in {\h13, \h03, \h67, \h73}
  <2>1. opcode \in {\h13, \h03, \h67, \h73}
    BY DEF RegisterImmediate
  <2>2. ImmBits(opcode) = LowBits(0, 11, 20)
    BY <2>1 DEF ImmBits, RegisterImmediate, UFormat
  <2> QED BY <2>1, <2>2 DEF Opcodes, HasRs2
<1>2. /\ opcode \in 0 .. 127 /\ i.rd \in 0 .. 31 /\ i.rs1 \in 0 .. 31
      /\ i.rs2 = 0 /\ i.funct3 \in 0 .. 7 /\ v \in Int /\ Holdable(opcode, v)
      /\ i = [opcode |-> opcode, rd |-> i.rd, funct3 |-> i.funct3, rs1 |-> i.rs1,
              rs2 |-> i.rs2, funct7 |-> 0, imm |-> v]
      /\ w = opcode + 128 * i.rd + (4096 * i.funct3 + 32768 * i.rs1) + 1048576 * i.rs2
             + Laid(v, ImmBits(opcode))
  BY <1>1, SMT, ImmediateWord
<1>3. -2048 <= v /\ v < 2048
  BY <1>1, <1>2, SMT, ImmediateHeld
<1>4. Laid(v, ImmBits(opcode)) = 1048576 * u - 2147483648 * s
  BY <1>1, <1>2, SMT, LaidImmediates
<1> HIDE DEF w, v
<1>5. /\ InRange(opcode, i.rd, i.funct3, i.rs1, t, g, s) /\ u = t + 32 * g
      /\ t + 32 * g + 2048 * s = IF v < 0 THEN v + 4096 ELSE v
  <2>1. opcode \in Int /\ i.rd \in Int /\ i.funct3 \in Int /\ i.rs1 \in Int /\ v \in Int
    BY <1>2
  <2>2. InRange(opcode, i.rd, i.funct3, i.rs1, t, g, s)
    <3>1. u \in 0 .. 2047
      BY <2>1
    <3>2. t \in 0 .. 31 /\ g \in 0 .. 63 /\ s \in 0 .. 1
      <4> HIDE DEF u
      <4> QED BY <2>1, <3>1
    <3> HIDE DEF u, t, g, s
    <3>3. /\ 0 <= i.rd /\ i.rd < 32 /\ 0 <= i.funct3 /\ i.funct3 < 8
          /\ 0 <= i.rs1 /\ i.rs1 < 32 /\ 0 <= opcode /\ opcode < 128
      BY <1>2
    <3> QED BY <2>1, <3>2, <3>3 DEF InRange
  <2>3. u = t + 32 * g
    BY <2>1
  <2>4. t + 32 * g + 2048 * s = IF v < 0 THEN v + 4096 ELSE v
    BY <1>3, <2>1
  <2> QED BY <2>2, <2>3, <2>4
<1> HIDE DEF u, t, g, s
<1>6. w = WordOf(opcode, i.rd, i.funct3, i.rs1, t, g, s)
  BY SMT, <1>2, <1>4, <1>5 DEF InRange, WordOf
<1>7. /\ OpcodeOf(w) = opcode /\ RdOf(w) = i.rd /\ Funct3Of(w) = i.funct3
      /\ Rs1Of(w) = i.rs1 /\ Cut(w, \h100000, 4096) = t + 32 * g + 2048 * s
  BY SMT, <1>5, <1>6, FieldsCut
<1>8. ImmediateI(w) = v
  BY SMT, <1>2, <1>3, <1>5, <1>7 DEF ImmediateI, SignExtend
<1>9. DecodeWord(w) = decode_i(w)
  BY SMT, <1>1, <1>7 DEF DecodeWord
<1> QED BY <1>2, <1>7, <1>8, <1>9 DEF decode_i, Filled, w

\* The digits of an immediate in its pieces, and that they make it up.
LEMMA StoreDigits ==
  ASSUME NEW v \in Int, -2048 <= v, v < 2048
  PROVE  /\ v % 32 \in 0 .. 31 /\ (v \div 32) % 64 \in 0 .. 63 /\ (v \div 2048) % 2 \in 0 .. 1
         /\ (v % 32) + 32 * ((v \div 32) % 64) + 2048 * ((v \div 2048) % 2)
              = IF v < 0 THEN v + 4096 ELSE v
  BY SMT

LEMMA BranchDigits ==
  ASSUME NEW v \in Int, -4096 <= v, v < 4096, v % 2 = 0
  PROVE  /\ (v \div 2) % 16 \in 0 .. 15 /\ (v \div 32) % 64 \in 0 .. 63
         /\ (v \div 2048) % 2 \in 0 .. 1 /\ (v \div 4096) % 2 \in 0 .. 1
         /\ 2 * ((v \div 2) % 16) + 32 * ((v \div 32) % 64) + 2048 * ((v \div 2048) % 2)
            + 4096 * ((v \div 4096) % 2)
              = IF v < 0 THEN v + 8192 ELSE v
<1>1. /\ (v \div 2) % 16 \in 0 .. 15 /\ (v \div 32) % 64 \in 0 .. 63
      /\ (v \div 2048) % 2 \in 0 .. 1 /\ (v \div 4096) % 2 \in 0 .. 1
  OBVIOUS
<1>2. 2 * ((v \div 2) % 16) = v % 32
  BY SMT
<1>3. (v % 32) + 32 * ((v \div 32) % 64) = v % 2048
  BY SMT
<1>4. (v % 2048) + 2048 * ((v \div 2048) % 2) = v % 4096
  BY SMT
<1>5. (v % 4096) + 4096 * ((v \div 4096) % 2) = IF v < 0 THEN v + 8192 ELSE v
  BY SMT
<1> QED BY SMT, <1>1, <1>2, <1>3, <1>4, <1>5

LEMMA UpperDigits ==
  ASSUME NEW v \in Int, 0 <= v, v < 1048576
  PROVE  /\ v % 8 \in 0 .. 7 /\ (v \div 8) % 32 \in 0 .. 31 /\ (v \div 256) % 32 \in 0 .. 31
         /\ (v \div 8192) % 64 \in 0 .. 63 /\ (v \div 524288) % 2 \in 0 .. 1
         /\ v % 524288 \in Int
         /\ v % 524288
              = (v % 8) + 8 * ((v \div 8) % 32) + 256 * ((v \div 256) % 32)
                + 8192 * ((v \div 8192) % 64)
         /\ v = (v % 524288) + 524288 * ((v \div 524288) % 2)
<1>1. /\ v % 8 \in 0 .. 7 /\ (v \div 8) % 32 \in 0 .. 31 /\ (v \div 256) % 32 \in 0 .. 31
      /\ (v \div 8192) % 64 \in 0 .. 63 /\ (v \div 524288) % 2 \in 0 .. 1
      /\ v % 524288 \in Int
  OBVIOUS
<1>2. (v % 8) + 8 * ((v \div 8) % 32) = v % 256
  BY SMT
<1>3. (v % 256) + 256 * ((v \div 256) % 32) = v % 8192
  BY SMT
<1>4. (v % 8192) + 8192 * ((v \div 8192) % 64) = v % 524288
  BY SMT
<1>5. v = (v % 524288) + 524288 * ((v \div 524288) % 2)
  BY SMT
<1> QED BY SMT, <1>1, <1>2, <1>3, <1>4, <1>5

LEMMA JumpDigits ==
  ASSUME NEW v \in Int, -1048576 <= v, v < 1048576, v % 2 = 0,
         NEW y, y = (v \div 2) % 1024, NEW q, q = (v \div 4096) % 256
  PROVE  /\ y \in Int /\ q \in Int /\ y % 16 \in 0 .. 15 /\ y \div 16 \in 0 .. 63
         /\ (v \div 2048) % 2 \in 0 .. 1 /\ (v \div 1048576) % 2 \in 0 .. 1
         /\ q % 8 \in 0 .. 7 /\ q \div 8 \in 0 .. 31
         /\ y = (y % 16) + 16 * (y \div 16) /\ q = (q % 8) + 8 * (q \div 8)
         /\ 2 * y + 2048 * ((v \div 2048) % 2) + 4096 * q + 1048576 * ((v \div 1048576) % 2)
              = IF v < 0 THEN v + 2097152 ELSE v
<1>1. /\ (v \div 2048) % 2 \in 0 .. 1 /\ (v \div 1048576) % 2 \in 0 .. 1
      /\ y \in 0 .. 1023 /\ q \in 0 .. 255
  OBVIOUS
<1>2. 2 * y = v % 2048
  BY SMT
<1>3. (v % 2048) + 2048 * ((v \div 2048) % 2) = v % 4096
  BY SMT
<1>4. (v % 4096) + 4096 * q = v % 1048576
  BY SMT
<1>5. (v % 1048576) + 1048576 * ((v \div 1048576) % 2) = IF v < 0 THEN v + 2097152 ELSE v
  BY SMT
<1>6. 2 * y + 2048 * ((v \div 2048) % 2) + 4096 * q + 1048576 * ((v \div 1048576) % 2)
        = IF v < 0 THEN v + 2097152 ELSE v
  BY SMT, <1>1, <1>2, <1>3, <1>4, <1>5
<1>7. /\ y % 16 \in 0 .. 15 /\ y \div 16 \in 0 .. 63
      /\ q % 8 \in 0 .. 7 /\ q \div 8 \in 0 .. 31
      /\ y = (y % 16) + 16 * (y \div 16) /\ q = (q % 8) + 8 * (q \div 8)
  BY ONLY <1>1
<1> QED BY <1>1, <1>6, <1>7

\* A store, whose immediate has two pieces.
LEMMA StoreDecoded ==
  ASSUME NEW i \in Insns(\h23)
  PROVE  DecodeWord(Assembled(i)) = i
<1> DEFINE v == i.imm
           w == Assembled(i)
           d == v % 32
           g == (v \div 32) % 64
           s == (v \div 2048) % 2
<1>1. /\ \h23 \in Opcodes /\ \h23 # \h33 /\ ~HasRd(\h23)
      /\ ImmBits(\h23) = StorePlaces
  BY DEF Opcodes, HasRd, HasRs1, HasRs2, ImmBits, RegisterImmediate, UFormat, StorePlaces
<1>2. /\ \h23 \in 0 .. 127 /\ i.rd \in 0 .. 31 /\ i.rs1 \in 0 .. 31
      /\ i.rs2 \in 0 .. 31 /\ i.funct3 \in 0 .. 7 /\ v \in Int /\ Holdable(\h23, v)
      /\ i.rd = 0
      /\ i = [opcode |-> \h23, rd |-> i.rd, funct3 |-> i.funct3, rs1 |-> i.rs1,
              rs2 |-> i.rs2, funct7 |-> 0, imm |-> v]
      /\ w = \h23 + 128 * i.rd + (4096 * i.funct3 + 32768 * i.rs1) + 1048576 * i.rs2
             + Laid(v, ImmBits(\h23))
  BY <1>1, SMT, ImmediateWord
<1>3. -2048 <= v /\ v < 2048
  BY <1>1, <1>2, SMT, ImmediateHeld
<1>4. Laid(v, ImmBits(\h23)) = 128 * d + 33554432 * g - 2147483648 * s
  BY <1>1, <1>2, SMT, LaidImmediates
<1> HIDE DEF w, v
<1>5. /\ d \in 0 .. 31 /\ g \in 0 .. 63 /\ s \in 0 .. 1
      /\ d + 32 * g + 2048 * s = IF v < 0 THEN v + 4096 ELSE v
  BY <1>2, <1>3, StoreDigits DEF d, g, s
<1> HIDE DEF d, g, s
<1>6. InRange(\h23, d, i.funct3, i.rs1, i.rs2, g, s)
  <2>1. /\ \h23 \in Int /\ i.rd \in Int /\ i.rs1 \in Int /\ i.rs2 \in Int
        /\ i.funct3 \in Int
        /\ 0 <= \h23 /\ \h23 < 128 /\ 0 <= i.rd /\ i.rd < 32 /\ 0 <= i.rs1 /\ i.rs1 < 32
        /\ 0 <= i.rs2 /\ i.rs2 < 32 /\ 0 <= i.funct3 /\ i.funct3 < 8
    BY <1>2
  <2>2. /\ d \in Int /\ g \in Int /\ s \in Int
    BY <1>5
  <2> QED BY SMT, <1>5, <2>1, <2>2 DEF InRange
<1>7. w = WordOf(\h23, d, i.funct3, i.rs1, i.rs2, g, s)
  <2>1. /\ \h23 \in Int /\ i.rd \in Int /\ i.rs1 \in Int /\ i.rs2 \in Int
        /\ i.funct3 \in Int
    BY <1>2
  <2>2. /\ d \in Int /\ g \in Int /\ s \in Int
    BY <1>5
  <2> QED BY SMT, <1>2, <1>4, <1>5, <2>1, <2>2 DEF WordOf
<1>8. /\ OpcodeOf(w) = \h23
      /\ RdOf(w) = d /\ Funct3Of(w) = i.funct3 /\ Rs1Of(w) = i.rs1
      /\ Rs2Of(w) = i.rs2 /\ Funct7Of(w) = g + 64 * s
  BY SMT, <1>6, <1>7, FieldsCut
<1>9. ImmediateS(w) = v
  BY SMT, <1>2, <1>3, <1>5, <1>8 DEF ImmediateS, SignExtend
<1>10. DecodeWord(w) = decode_s(w)
  BY SMT, <1>1, <1>8 DEF DecodeWord
<1> QED BY <1>2, <1>8, <1>9, <1>10 DEF decode_s, Filled, w

\* A branch, whose offset has four.
LEMMA BranchDecoded ==
  ASSUME NEW i \in Insns(\h63)
  PROVE  DecodeWord(Assembled(i)) = i
<1> DEFINE v == i.imm
           w == Assembled(i)
           m == (v \div 2) % 16
           g == (v \div 32) % 64
           n == (v \div 2048) % 2
           s == (v \div 4096) % 2
<1>1. /\ \h63 \in Opcodes /\ \h63 # \h33 /\ ~HasRd(\h63)
      /\ ImmBits(\h63) = BranchPlaces
  BY DEF Opcodes, HasRd, HasRs1, HasRs2, ImmBits, RegisterImmediate, UFormat, BranchPlaces
<1>2. /\ \h63 \in 0 .. 127 /\ i.rd \in 0 .. 31 /\ i.rs1 \in 0 .. 31
      /\ i.rs2 \in 0 .. 31 /\ i.funct3 \in 0 .. 7 /\ v \in Int /\ Holdable(\h63, v)
      /\ i.rd = 0
      /\ i = [opcode |-> \h63, rd |-> i.rd, funct3 |-> i.funct3, rs1 |-> i.rs1,
              rs2 |-> i.rs2, funct7 |-> 0, imm |-> v]
      /\ w = \h63 + 128 * i.rd + (4096 * i.funct3 + 32768 * i.rs1) + 1048576 * i.rs2
             + Laid(v, ImmBits(\h63))
  BY <1>1, SMT, ImmediateWord
<1>3. -4096 <= v /\ v < 4096 /\ v % 2 = 0
  BY <1>1, <1>2, SMT, ImmediateHeld
<1>4. Laid(v, ImmBits(\h63)) = 256 * m + 33554432 * g + 128 * n - 2147483648 * s
  BY <1>1, <1>2, SMT, LaidImmediates
<1> HIDE DEF w, v
<1>5. /\ m \in 0 .. 15 /\ g \in 0 .. 63 /\ n \in 0 .. 1 /\ s \in 0 .. 1
      /\ 2 * m + 32 * g + 2048 * n + 4096 * s = IF v < 0 THEN v + 8192 ELSE v
  BY <1>2, <1>3, BranchDigits DEF m, g, n, s
<1> HIDE DEF m, g, n, s
<1>6. InRange(\h63, n + 2 * m, i.funct3, i.rs1, i.rs2, g, s)
  <2>1. /\ \h63 \in Int /\ i.rd \in Int /\ i.rs1 \in Int /\ i.rs2 \in Int
        /\ i.funct3 \in Int
        /\ 0 <= \h63 /\ \h63 < 128 /\ 0 <= i.rd /\ i.rd < 32 /\ 0 <= i.rs1 /\ i.rs1 < 32
        /\ 0 <= i.rs2 /\ i.rs2 < 32 /\ 0 <= i.funct3 /\ i.funct3 < 8
    BY <1>2
  <2>2. /\ m \in Int /\ g \in Int /\ n \in Int /\ s \in Int
    BY <1>5
  <2> QED BY SMT, <1>5, <2>1, <2>2 DEF InRange
<1>7. w = WordOf(\h63, n + 2 * m, i.funct3, i.rs1, i.rs2, g, s)
  <2>1. /\ \h63 \in Int /\ i.rd \in Int /\ i.rs1 \in Int /\ i.rs2 \in Int
        /\ i.funct3 \in Int
    BY <1>2
  <2>2. /\ m \in Int /\ g \in Int /\ n \in Int /\ s \in Int
    BY <1>5
  <2> QED BY SMT, <1>2, <1>4, <1>5, <2>1, <2>2 DEF WordOf
<1>8. /\ OpcodeOf(w) = \h63
      /\ Funct3Of(w) = i.funct3 /\ Rs1Of(w) = i.rs1 /\ Rs2Of(w) = i.rs2
      /\ SignBit(w) = s /\ Cut(w, \h80, 2) = (n + 2 * m) % 2
      /\ Cut(w, \h100, 16) = (n + 2 * m) \div 2 /\ Cut(w, \h2000000, 64) = g
  BY SMT, <1>6, <1>7, FieldsCut
<1>9. BranchOffset(w) = v
  BY SMT, <1>2, <1>3, <1>5, <1>8 DEF BranchOffset, SignExtend
<1>10. DecodeWord(w) = decode_b(w)
  BY SMT, <1>1, <1>8 DEF DecodeWord
<1> QED BY <1>2, <1>8, <1>9, <1>10 DEF decode_b, Filled, w

\* The immediate of 20 bits in one piece, which is not negative.
LEMMA UpperDecoded ==
  ASSUME NEW opcode \in UFormat, NEW i \in Insns(opcode)
  PROVE  DecodeWord(Assembled(i)) = i
<1> DEFINE v == i.imm
           w == Assembled(i)
           f == v % 8
           r == (v \div 8) % 32
           t == (v \div 256) % 32
           g == (v \div 8192) % 64
           s == (v \div 524288) % 2
           u == v % 524288
<1>1. /\ opcode \in Opcodes /\ opcode # \h33 /\ ~HasRs1(opcode) /\ ~HasRs2(opcode)
      /\ ImmBits(opcode) = LowBits(0, 19, 12)
      /\ opcode \in {\h37, \h17}
  BY DEF Opcodes, HasRd, HasRs1, HasRs2, ImmBits, RegisterImmediate, UFormat
<1>2. /\ opcode \in 0 .. 127 /\ i.rd \in 0 .. 31 /\ i.rs1 \in 0 .. 31
      /\ i.rs2 \in 0 .. 31 /\ i.funct3 \in 0 .. 7 /\ v \in Int /\ Holdable(opcode, v)
      /\ i.rs1 = 0 /\ i.rs2 = 0 /\ i.funct3 = 0
      /\ i = [opcode |-> opcode, rd |-> i.rd, funct3 |-> i.funct3, rs1 |-> i.rs1,
              rs2 |-> i.rs2, funct7 |-> 0, imm |-> v]
      /\ w = opcode + 128 * i.rd + (4096 * i.funct3 + 32768 * i.rs1) + 1048576 * i.rs2
             + Laid(v, ImmBits(opcode))
  BY <1>1, SMT, ImmediateWord
<1>3. 0 <= v /\ v < 1048576
  BY <1>1, <1>2, SMT, ImmediateHeld
<1>4. Laid(v, ImmBits(opcode)) = 4096 * u - 2147483648 * s
  BY <1>1, <1>2, SMT, LaidImmediates
<1> HIDE DEF w, v
<1>5. /\ f \in 0 .. 7 /\ r \in 0 .. 31 /\ t \in 0 .. 31 /\ g \in 0 .. 63 /\ s \in 0 .. 1
      /\ u = f + 8 * r + 256 * t + 8192 * g /\ v = u + 524288 * s
  BY <1>2, <1>3, UpperDigits DEF f, r, t, g, s, u
<1> HIDE DEF f, r, t, g, s, u
<1>6. InRange(opcode, i.rd, f, r, t, g, s)
  <2>1. /\ opcode \in Int /\ i.rd \in Int /\ i.rs1 \in Int /\ i.rs2 \in Int
        /\ i.funct3 \in Int
        /\ 0 <= opcode /\ opcode < 128 /\ 0 <= i.rd /\ i.rd < 32 /\ 0 <= i.rs1 /\ i.rs1 < 32
        /\ 0 <= i.rs2 /\ i.rs2 < 32 /\ 0 <= i.funct3 /\ i.funct3 < 8
    BY <1>2
  <2>2. /\ f \in Int /\ r \in Int /\ t \in Int /\ g \in Int /\ s \in Int /\ u \in Int
    BY <1>5
  <2> QED BY SMT, <1>5, <2>1, <2>2 DEF InRange
<1>7. w = WordOf(opcode, i.rd, f, r, t, g, s)
  <2>1. /\ opcode \in Int /\ i.rd \in Int /\ i.rs1 \in Int /\ i.rs2 \in Int
        /\ i.funct3 \in Int
    BY <1>2
  <2>2. /\ f \in Int /\ r \in Int /\ t \in Int /\ g \in Int /\ s \in Int /\ u \in Int
    BY <1>5
  <2> QED BY SMT, <1>2, <1>4, <1>5, <2>1, <2>2 DEF WordOf
<1>8. /\ OpcodeOf(w) = opcode
      /\ RdOf(w) = i.rd
      /\ ImmediateU(w) = f + 8 * r + 256 * t + 8192 * g + 524288 * s
  BY SMT, <1>6, <1>7, FieldsCut
<1>9. ImmediateU(w) = v
  BY SMT, <1>2, <1>3, <1>5, <1>8 DEF ImmediateU
<1>10. DecodeWord(w) = decode_u(w)
  BY SMT, <1>1, <1>8 DEF DecodeWord
<1> QED BY <1>2, <1>8, <1>9, <1>10 DEF decode_u, Filled, w

\* A jump, whose offset has four pieces.
LEMMA JumpDecoded ==
  ASSUME NEW i \in Insns(\h6F)
  PROVE  DecodeWord(Assembled(i)) = i
<1> DEFINE v == i.imm
           w == Assembled(i)
           y == (v \div 2) % 1024
           m == y % 16
           g == y \div 16
           n == (v \div 2048) % 2
           q == (v \div 4096) % 256
           f == q % 8
           r == q \div 8
           s == (v \div 1048576) % 2
<1>1. /\ \h6F \in Opcodes /\ \h6F # \h33 /\ ~HasRs1(\h6F) /\ ~HasRs2(\h6F)
      /\ ImmBits(\h6F) = JumpPlaces
  BY DEF Opcodes, HasRd, HasRs1, HasRs2, ImmBits, RegisterImmediate, UFormat, JumpPlaces
<1>2. /\ \h6F \in 0 .. 127 /\ i.rd \in 0 .. 31 /\ i.rs1 \in 0 .. 31
      /\ i.rs2 \in 0 .. 31 /\ i.funct3 \in 0 .. 7 /\ v \in Int /\ Holdable(\h6F, v)
      /\ i.rs1 = 0 /\ i.rs2 = 0 /\ i.funct3 = 0
      /\ i = [opcode |-> \h6F, rd |-> i.rd, funct3 |-> i.funct3, rs1 |-> i.rs1,
              rs2 |-> i.rs2, funct7 |-> 0, imm |-> v]
      /\ w = \h6F + 128 * i.rd + (4096 * i.funct3 + 32768 * i.rs1) + 1048576 * i.rs2
             + Laid(v, ImmBits(\h6F))
  BY <1>1, SMT, ImmediateWord
<1>3. -1048576 <= v /\ v < 1048576 /\ v % 2 = 0
  BY <1>1, <1>2, SMT, ImmediateHeld
<1>4. Laid(v, ImmBits(\h6F)) = 2097152 * y + 1048576 * n + 4096 * q - 2147483648 * s
  BY <1>1, <1>2, SMT, LaidImmediates
<1> HIDE DEF w, v
<1>5. /\ m \in 0 .. 15 /\ g \in 0 .. 63 /\ n \in 0 .. 1 /\ s \in 0 .. 1
      /\ f \in 0 .. 7 /\ r \in 0 .. 31
      /\ y = m + 16 * g /\ q = f + 8 * r
      /\ 2 * y + 2048 * n + 4096 * q + 1048576 * s = IF v < 0 THEN v + 2097152 ELSE v
  BY <1>2, <1>3, JumpDigits DEF y, m, g, n, q, f, r, s
<1> HIDE DEF y, m, g, n, q, f, r, s
<1>6. InRange(\h6F, i.rd, f, r, n + 2 * m, g, s)
  <2>1. /\ \h6F \in Int /\ i.rd \in Int /\ i.rs1 \in Int /\ i.rs2 \in Int
        /\ i.funct3 \in Int
        /\ 0 <= \h6F /\ \h6F < 128 /\ 0 <= i.rd /\ i.rd < 32 /\ 0 <= i.rs1 /\ i.rs1 < 32
        /\ 0 <= i.rs2 /\ i.rs2 < 32 /\ 0 <= i.funct3 /\ i.funct3 < 8
    BY <1>2
  <2>2. /\ y \in Int /\ q \in Int /\ m \in Int /\ g \in Int /\ n \in Int /\ s \in Int
        /\ f \in Int /\ r \in Int
    BY <1>5
  <2> QED BY SMT, <1>5, <2>1, <2>2 DEF InRange
<1>7. w = WordOf(\h6F, i.rd, f, r, n + 2 * m, g, s)
  <2>1. /\ \h6F \in Int /\ i.rd \in Int /\ i.rs1 \in Int /\ i.rs2 \in Int
        /\ i.funct3 \in Int
    BY <1>2
  <2>2. /\ y \in Int /\ q \in Int /\ m \in Int /\ g \in Int /\ n \in Int /\ s \in Int
        /\ f \in Int /\ r \in Int
    BY <1>5
  <2> QED BY SMT, <1>2, <1>4, <1>5, <2>1, <2>2 DEF WordOf
<1>8. /\ OpcodeOf(w) = \h6F
      /\ RdOf(w) = i.rd /\ SignBit(w) = s /\ Cut(w, \h100000, 2) = (n + 2 * m) % 2
      /\ Cut(w, \h200000, 1024) = (n + 2 * m) \div 2 + 16 * g
      /\ Cut(w, \h1000, 256) = f + 8 * r
  BY SMT, <1>6, <1>7, FieldsCut
<1>9. JumpOffset(w) = v
  <2>1. /\ y \in Int /\ q \in Int /\ m \in Int /\ g \in Int /\ n \in Int /\ s \in Int
        /\ 0 <= n /\ n < 2 /\ 0 <= m /\ m < 16
    BY <1>5
  <2>2. (n + 2 * m) % 2 = n /\ (n + 2 * m) \div 2 = m
    BY SMT, <2>1
  <2>3. /\ Cut(w, \h200000, 1024) = y /\ Cut(w, \h100000, 2) = n
        /\ Cut(w, \h1000, 256) = q /\ SignBit(w) = s
    BY SMT, <1>5, <1>8, <2>2
  <2>4. JumpOffset(w)
          = SignExtend(2 * y + 2048 * n + 4096 * q + 1048576 * s, 2097152)
    BY <2>3 DEF JumpOffset
  <2>5. v \in Int /\ -1048576 <= v /\ v < 1048576
    BY SMT, <1>2, <1>3
  <2>6. SignExtend(IF v < 0 THEN v + 2097152 ELSE v, 2097152) = v
    BY SMT, <2>5 DEF SignExtend
  <2> QED BY SMT, <1>5, <2>4, <2>6
<1>10. DecodeWord(w) = decode_j(w)
  BY SMT, <1>1, <1>8 DEF DecodeWord
<1> QED BY <1>2, <1>8, <1>9, <1>10 DEF decode_j, Filled, w

\* In every format, the word of an instruction is decoded to the instruction.
LEMMA AssembledDecoded ==
  ASSUME NEW opcode \in Opcodes, NEW i \in Insns(opcode)
  PROVE  DecodeWord(Assembled(i)) = i
<1>1. \/ opcode \in {\h33, \h0F} \/ opcode \in RegisterImmediate \/ opcode = \h23
      \/ opcode = \h63 \/ opcode \in UFormat \/ opcode = \h6F
  BY DEF Opcodes
<1>2. CASE opcode \in {\h33, \h0F}
  BY <1>2, RegistersDecoded
<1>3. CASE opcode \in RegisterImmediate
  BY <1>3, RegisterImmediateDecoded
<1>4. CASE opcode = \h23
  BY <1>4, StoreDecoded
<1>5. CASE opcode = \h63
  BY <1>5, BranchDecoded
<1>6. CASE opcode \in UFormat
  BY <1>6, UpperDecoded
<1>7. CASE opcode = \h6F
  BY <1>7, JumpDecoded
<1> QED BY <1>1, <1>2, <1>3, <1>4, <1>5, <1>6, <1>7

\* The word is that of the instruction; before there is one, it is 0.
InsnInv ==
  /\ a \in Value /\ b \in Value
  /\ \/ insn = Blank /\ word = 0
     \/ \E opcode \in Opcodes : \E i \in Insns(opcode) : insn = i /\ word = Assembled(i)

\* Every word is assembled from the instruction it stands for.
THEOREM InsnAssembled == InsnSpec => []InsnInv
<1>1. 0 \in Value
  BY AluBits DEF Value
<1>2. InsnInit => InsnInv
  BY <1>1 DEF InsnInit, InsnInv
<1>3. InsnInv /\ [InsnNext]_insnVars => InsnInv'
  <2> SUFFICES ASSUME InsnInv, [InsnNext]_insnVars
               PROVE  InsnInv'
    OBVIOUS
  <2>1. CASE Assemble
    BY <2>1 DEF InsnInv, Assemble
  <2>2. CASE Operate
    <3>1. b' \in Value
      BY <1>1, <2>2 DEF Operate
    <3> QED BY <2>2, <3>1 DEF InsnInv, Operate
  <2>3. CASE Discard
    BY <1>1, <2>3 DEF InsnInv, Discard
  <2>4. CASE UNCHANGED insnVars
    BY <2>4 DEF InsnInv, insnVars
  <2> QED BY <2>1, <2>2, <2>3, <2>4 DEF InsnNext
<1> QED BY <1>2, <1>3, PTL DEF InsnSpec

\* The fields of the word are those of the instruction.
LEMMA AssembledIsDecoded == InsnInv => DecodeWord(word) = insn
<1> SUFFICES ASSUME InsnInv
             PROVE  DecodeWord(word) = insn
  OBVIOUS
<1>1. CASE insn = Blank /\ word = 0
  <2>1. OpcodeOf(0) = 0
    BY DEF OpcodeOf
  <2> QED BY <1>1, <2>1 DEF DecodeWord, Blank
<1>2. ASSUME NEW opcode \in Opcodes, NEW i \in Insns(opcode),
             insn = i, word = Assembled(i)
      PROVE  DecodeWord(word) = insn
  BY <1>2, AssembledDecoded
<1> QED BY <1>1, <1>2 DEF InsnInv

\* The word of an instruction decodes to the instruction, for every value of its
\* fields that its format can hold.
THEOREM DecodedBack == InsnSpec => []DecodesWhatWasAssembled
<1>1. InsnInv => DecodesWhatWasAssembled
  BY AssembledIsDecoded DEF DecodesWhatWasAssembled
<1> QED BY <1>1, InsnAssembled, PTL

-----------------------------------------------------------------------------
(***************************************************************************)
(* What is printed is what runs: the names of disassemble.c against the    *)
(* switches of simulate.c, and the operations against each other.          *)
(***************************************************************************)

\* Whole turns do not change a remainder.
LEMMA WholeTurns ==
  ASSUME NEW x \in Int, NEW y \in Nat \ {0}, NEW n \in Int
  PROVE  (x + y * n) % y = x % y /\ (x + y * n) \div y = x \div y + n
<1> DEFINE q == x \div y
           r == x % y
<1>1. q \in Int /\ r \in Int /\ 0 <= r /\ r < y /\ x = y * q + r
  OBVIOUS
<1> HIDE DEF q, r
<1>2. x + y * n = y * (q + n) + r /\ q + n \in Int
  BY <1>1
<1>3. (y * (q + n) + r) % y = r /\ (y * (q + n) + r) \div y = q + n
  BY <1>1, <1>2
<1> QED BY <1>1, <1>2, <1>3 DEF q, r


\* What each name means, one at a time.
LEMMA Meanings ==
  ASSUME NEW v, NEW w
  PROVE  /\ Meaning("add", v, w) = Unsigned(v + w) /\ Meaning("addi", v, w) = Unsigned(v + w)
         /\ Meaning("sub", v, w) = Unsigned(v - w)
         /\ Meaning("sll", v, w) = ShiftLeft(v, Shamt(w))
         /\ Meaning("slli", v, w) = ShiftLeft(v, Shamt(w))
         /\ Meaning("slt", v, w) = Bool(Signed(v) < Signed(w))
         /\ Meaning("slti", v, w) = Bool(Signed(v) < Signed(w))
         /\ Meaning("sltu", v, w) = Bool(v < w) /\ Meaning("sltiu", v, w) = Bool(v < w)
         /\ Meaning("xor", v, w) = BitXor(v, w) /\ Meaning("xori", v, w) = BitXor(v, w)
         /\ Meaning("srl", v, w) = ShiftRight(v, Shamt(w))
         /\ Meaning("srli", v, w) = ShiftRight(v, Shamt(w))
         /\ Meaning("sra", v, w) = ShiftRightSigned(v, Shamt(w))
         /\ Meaning("or", v, w) = BitOr(v, w) /\ Meaning("ori", v, w) = BitOr(v, w)
         /\ Meaning("and", v, w) = BitAnd(v, w) /\ Meaning("andi", v, w) = BitAnd(v, w)
         /\ Meaning("mul", v, w) = Unsigned(v * w)
         /\ Meaning("mulhu", v, w) = (v * w) \div W
         /\ Meaning("div", v, w) = Unsigned(Quotient(Signed(v), Signed(w)))
         /\ Meaning("divu", v, w) = v \div w
         /\ Meaning("rem", v, w) = Unsigned(Remainder(Signed(v), Signed(w)))
         /\ Meaning("remu", v, w) = v % w
         /\ Meaning("beq", v, w) = Bool(v = w) /\ Meaning("bne", v, w) = Bool(v # w)
         /\ Meaning("blt", v, w) = Bool(Signed(v) < Signed(w))
         /\ Meaning("bge", v, w) = Bool(Signed(v) >= Signed(w))
         /\ Meaning("bltu", v, w) = Bool(v < w) /\ Meaning("bgeu", v, w) = Bool(v >= w)
  BY DEF Meaning

LEMMA RegisterNames ==
  /\ RName(0, 0) = "add" /\ RName(0, 1) = "sll" /\ RName(0, 2) = "slt" /\ RName(0, 3) = "sltu"
  /\ RName(0, 4) = "xor" /\ RName(0, 5) = "srl" /\ RName(0, 6) = "or" /\ RName(0, 7) = "and"
  /\ RName(1, 0) = "mul" /\ RName(1, 1) = "mulh" /\ RName(1, 2) = "mulhsu"
  /\ RName(1, 3) = "mulhu" /\ RName(1, 4) = "div" /\ RName(1, 5) = "divu"
  /\ RName(1, 6) = "rem" /\ RName(1, 7) = "remu"
  /\ RName(\h20, 0) = "sub" /\ RName(\h20, 5) = "sra"
  BY DEF RName


\* What runs under each name.
LEMMA ExecutedNames ==
  /\ \A name \in {"add", "sll", "slt", "sltu", "xor", "srl", "or", "and", "mul", "mulhu",
                  "div", "divu", "rem", "remu", "sub", "sra", "addi", "slli", "slti",
                  "sltiu", "xori", "srli", "ori", "andi"} : Executed(name) = name
  /\ Executed("mulh") = "mulhu" /\ Executed("mulhsu") = "mulhu" /\ Executed("srai") = "srli"
  BY DEF Executed

\* The operations of two registers: the 18 encodings that are printed are those that
\* are executed, and each does what its name means.
LEMMA RegistersAgree ==
  ASSUME NEW funct7 \in Int, NEW funct3 \in 0 .. 7, NEW v \in Value, NEW w \in Value
  PROVE  /\ RName(funct7, funct3) # NoName <=> RKnown(funct7, funct3)
         /\ RKnown(funct7, funct3)
              /\ ~(IsDivision(funct7, funct3) /\ Undefined(funct3, v, w))
              => RResult(funct7, funct3, v, w)
                   = Meaning(Executed(RName(funct7, funct3)), v, w)
<1>1. CASE funct7 = 0
  <2>1. /\ RKnown(0, funct3) /\ RName(0, funct3) # NoName
    <3>1. funct3 = 0 \/ funct3 = 1 \/ funct3 = 2 \/ funct3 = 3 \/ funct3 = 4 \/ funct3 = 5
          \/ funct3 = 6 \/ funct3 = 7
      OBVIOUS
    <3> QED BY <3>1, RegisterNames DEF RKnown, NoName
  <2>2. RResult(0, funct3, v, w) = Meaning(Executed(RName(0, funct3)), v, w)
    <3>1. CASE funct3 = 0
      BY <3>1, RegisterNames, ExecutedNames, Meanings DEF RResult, BaseResult
    <3>2. CASE funct3 = 1
      BY <3>2, RegisterNames, ExecutedNames, Meanings DEF RResult, BaseResult
    <3>3. CASE funct3 = 2
      BY <3>3, RegisterNames, ExecutedNames, Meanings DEF RResult, BaseResult
    <3>4. CASE funct3 = 3
      BY <3>4, RegisterNames, ExecutedNames, Meanings DEF RResult, BaseResult
    <3>5. CASE funct3 = 4
      BY <3>5, RegisterNames, ExecutedNames, Meanings DEF RResult, BaseResult
    <3>6. CASE funct3 = 5
      BY <3>6, RegisterNames, ExecutedNames, Meanings DEF RResult, BaseResult
    <3>7. CASE funct3 = 6
      BY <3>7, RegisterNames, ExecutedNames, Meanings DEF RResult, BaseResult
    <3>8. CASE funct3 = 7
      BY <3>8, RegisterNames, ExecutedNames, Meanings DEF RResult, BaseResult
    <3> QED BY <3>1, <3>2, <3>3, <3>4, <3>5, <3>6, <3>7, <3>8
  <2> QED BY <1>1, <2>1, <2>2
<1>2. CASE funct7 = 1
  <2>1. /\ RKnown(1, funct3) /\ RName(1, funct3) # NoName
    <3>1. funct3 = 0 \/ funct3 = 1 \/ funct3 = 2 \/ funct3 = 3 \/ funct3 = 4 \/ funct3 = 5
          \/ funct3 = 6 \/ funct3 = 7
      OBVIOUS
    <3> QED BY <3>1, RegisterNames DEF RKnown, NoName
  <2>2. ASSUME ~(IsDivision(1, funct3) /\ Undefined(funct3, v, w))
        PROVE  RResult(1, funct3, v, w) = Meaning(Executed(RName(1, funct3)), v, w)
    <3>0. IsDivision(1, 4) /\ IsDivision(1, 5) /\ IsDivision(1, 6) /\ IsDivision(1, 7)
      BY DEF IsDivision
    <3>1. CASE funct3 = 0
      BY <3>1, RegisterNames, ExecutedNames, Meanings DEF RResult, ProductResult
    <3>2. CASE funct3 = 1
      BY <3>2, RegisterNames, ExecutedNames, Meanings DEF RResult, ProductResult
    <3>3. CASE funct3 = 2
      BY <3>3, RegisterNames, ExecutedNames, Meanings DEF RResult, ProductResult
    <3>4. CASE funct3 = 3
      BY <3>4, RegisterNames, ExecutedNames, Meanings DEF RResult, ProductResult
    <3>5. CASE funct3 = 4
      BY <2>2, <3>0, <3>5, RegisterNames, ExecutedNames, Meanings DEF RResult, DivisionResult
    <3>6. CASE funct3 = 5
      BY <2>2, <3>0, <3>6, RegisterNames, ExecutedNames, Meanings DEF RResult, DivisionResult
    <3>7. CASE funct3 = 6
      BY <2>2, <3>0, <3>7, RegisterNames, ExecutedNames, Meanings DEF RResult, DivisionResult
    <3>8. CASE funct3 = 7
      BY <2>2, <3>0, <3>8, RegisterNames, ExecutedNames, Meanings DEF RResult, DivisionResult
    <3> QED BY <3>1, <3>2, <3>3, <3>4, <3>5, <3>6, <3>7, <3>8
  <2> QED BY <1>2, <2>1, <2>2
<1>3. CASE funct7 = \h20
  <2>1. CASE funct3 = 0
    BY <1>3, <2>1, RegisterNames, ExecutedNames, Meanings DEF RResult, SubOrSra, RKnown, NoName
  <2>2. CASE funct3 = 5
    BY <1>3, <2>2, RegisterNames, ExecutedNames, Meanings DEF RResult, SubOrSra, RKnown, NoName
  <2>3. CASE funct3 \notin {0, 5}
    BY <1>3, <2>3 DEF RKnown, RName
  <2> QED BY <2>1, <2>2, <2>3
<1>4. CASE funct7 \notin {0, 1, \h20}
  BY <1>4 DEF RKnown, RName
<1> QED BY <1>1, <1>2, <1>3, <1>4

\* Half of the register values are negative ones.
LEMMA Halves == W % 2 = 0 /\ W \div 2 \in Nat /\ W = 2 * (W \div 2)
<1>1. W = 2 * 2^(XLEN - 1) /\ 2^(XLEN - 1) \in Nat
  <2>1. /\ XLEN - 1 \in 0 .. XLEN - 1 /\ 1 \in 0 .. XLEN /\ XLEN - 1 \in 0 .. XLEN
        /\ 1 + (XLEN - 1) = XLEN /\ 1 + (XLEN - 1) <= XLEN
    BY AluWidth
  <2>2. 2^(1 + (XLEN - 1)) = 2^1 * 2^(XLEN - 1)
    BY <2>1, AluPowers
  <2>3. 2^(XLEN - 1) \in Nat
    BY <2>1, AluWidth
  <2> QED BY <2>1, <2>2, <2>3, InsnPowers DEF W
<1> DEFINE H == 2^(XLEN - 1)
<1> HIDE DEF H
<1>2. W = 2 * H /\ H \in Nat
  BY <1>1 DEF H
<1> QED BY <1>2

\* A register holds an immediate that fits it.
LEMMA ImmediateFits ==
  ASSUME NEW v \in Int, Fits(v)
  PROVE  Unsigned(v) \in Value /\ Signed(Unsigned(v)) = v /\ (0 <= v => Unsigned(v) = v)
<1> DEFINE H == W \div 2
<1>1. H \in Int /\ W = 2 * H /\ 0 < H
  BY Halves, AluBits
<1> HIDE DEF H
<1>2. -H <= v /\ v <= H - 1
  BY <1>1 DEF Fits, H
<1>3. v % W = IF v < 0 THEN v + W ELSE v
  BY <1>1, <1>2
<1> QED BY <1>1, <1>2, <1>3 DEF Unsigned, Signed, Value

\* Truncating an operand does not change the truncated sum.
LEMMA UnsignedSum ==
  ASSUME NEW v \in Int, NEW imm \in Int
  PROVE  Unsigned(v + imm) = Unsigned(v + Unsigned(imm))
<1> DEFINE q == imm \div W
           r == imm % W
<1>1. W \in Nat \ {0} /\ q \in Int /\ r \in Int /\ imm = r + W * q
  BY AluBits
<1> HIDE DEF q, r
<1>2. v + imm = (v + r) + W * q /\ v + r \in Int
  BY <1>1
<1>3. ((v + r) + W * q) % W = (v + r) % W
  BY ONLY <1>1, <1>2, WholeTurns, Zenon
<1> QED BY <1>2, <1>3 DEF r, Unsigned

\* The shifts look at the bits of the amount that are printed.
LEMMA ShownAmount ==
  ASSUME NEW imm \in Int, Fits(imm % 32)
  PROVE  Shamt(Unsigned(imm % 32)) = imm % XLEN
<1>1. Unsigned(imm % 32) = imm % 32
  <2>1. imm % 32 \in Int /\ 0 <= imm % 32
    OBVIOUS
  <2> QED BY <2>1, ImmediateFits
<1>2. (imm % 32) % XLEN = imm % XLEN
  <2>1. XLEN \in Nat \ {0} /\ 32 % XLEN = 0
    BY AluWidth, InsnWidth
  <2> DEFINE k == 32 \div XLEN
             q == imm \div 32
             r == imm % 32
  <2>2. k \in Int /\ 32 = XLEN * k
    BY <2>1
  <2>3. q \in Int /\ r \in Int /\ imm = 32 * q + r
    OBVIOUS
  <2> HIDE DEF k, q, r
  <2>4. k * q \in Int /\ imm = r + XLEN * (k * q)
    <3>1. (XLEN * k) * q = XLEN * (k * q) /\ k * q \in Int /\ XLEN * (k * q) \in Int
      BY <2>1, <2>2, <2>3
    <3> QED BY <2>2, <2>3, <3>1
  <2>5. r % XLEN = imm % XLEN
    <3> DEFINE n == k * q
    <3>1. XLEN \in Nat \ {0} /\ r \in Int /\ n \in Int /\ imm = r + XLEN * n
      BY <2>1, <2>3, <2>4
    <3> HIDE DEF n
    <3> QED BY <3>1, WholeTurns, Zenon
  <2> QED BY <2>5 DEF r
<1> QED BY <1>1, <1>2 DEF Shamt

\* The operations of a register and an immediate: each is printed, and does what the
\* name that runs means for the immediate that is printed.
LEMMA ImmediatesRun ==
  ASSUME NEW funct3 \in 0 .. 7, NEW imm \in Int, NEW v \in Value,
         NEW shown, shown = IF funct3 \in {1, 5} THEN imm % 32 ELSE imm, Fits(shown)
  PROVE  IResult(funct3, v, imm) = Meaning(Executed(IName(funct3, imm)), v, Unsigned(shown))
<1>1. CASE funct3 \in {1, 5}
  <2>1. shown = imm % 32 /\ Shamt(Unsigned(shown)) = imm % XLEN
    BY <1>1, ShownAmount
  <2>2. CASE funct3 = 1
    <3>1. IName(1, imm) = "slli"
      BY DEF IName
    <3>2. IResult(1, v, imm) = ShiftLeft(v, imm % XLEN)
      BY DEF IResult
    <3> QED BY <2>1, <2>2, <3>1, <3>2, ExecutedNames, Meanings
  <2>3. CASE funct3 = 5
    <3>1. IName(5, imm) \in {"srli", "srai"}
      BY DEF IName
    <3>2. Executed(IName(5, imm)) = "srli"
      BY <3>1, ExecutedNames
    <3>3. IResult(5, v, imm) = ShiftRight(v, imm % XLEN)
      BY DEF IResult
    <3> QED BY <2>1, <2>3, <3>2, <3>3, Meanings
  <2> QED BY <1>1, <2>2, <2>3
<1>2. CASE funct3 \notin {1, 5}
  <2>1. shown = imm /\ Signed(Unsigned(imm)) = imm /\ Unsigned(imm) \in Value
    BY <1>2, ImmediateFits
  <2>2. /\ IName(0, imm) = "addi" /\ IName(2, imm) = "slti" /\ IName(3, imm) = "sltiu"
        /\ IName(4, imm) = "xori" /\ IName(6, imm) = "ori" /\ IName(7, imm) = "andi"
    BY DEF IName
  <2>3. CASE funct3 = 0
    <3>1. Unsigned(v + imm) = Unsigned(v + Unsigned(imm))
      BY UnsignedSum DEF Value
    <3>2. IResult(0, v, imm) = Unsigned(v + imm)
      BY DEF IResult
    <3> QED BY <2>1, <2>2, <2>3, <3>1, <3>2, ExecutedNames, Meanings
  <2>4. CASE funct3 = 2
    <3>1. IResult(2, v, imm) = Bool(Signed(v) < imm)
      BY DEF IResult
    <3> QED BY <2>1, <2>2, <2>4, <3>1, ExecutedNames, Meanings
  <2>5. CASE funct3 = 3
    <3>1. IResult(3, v, imm) = Bool(v < Unsigned(imm))
      BY DEF IResult
    <3> QED BY <2>1, <2>2, <2>5, <3>1, ExecutedNames, Meanings
  <2>6. CASE funct3 \in {4, 6, 7}
    <3>1. /\ IResult(4, v, imm) = BitXor(v, Unsigned(imm))
          /\ IResult(6, v, imm) = BitOr(v, Unsigned(imm))
          /\ IResult(7, v, imm) = BitAnd(v, Unsigned(imm))
      BY DEF IResult
    <3> QED BY <2>1, <2>2, <2>6, <3>1, ExecutedNames, Meanings
  <2> QED BY <1>2, <2>3, <2>4, <2>5, <2>6
<1> QED BY <1>1, <1>2

\* The conditions of the branches.
LEMMA BranchesAgree ==
  ASSUME NEW funct3 \in 0 .. 7, NEW v \in Value, NEW w \in Value
  PROVE  /\ BName(funct3) # NoName <=> BranchKnown(funct3)
         /\ BranchKnown(funct3) => Bool(Holds(funct3, v, w)) = Meaning(BName(funct3), v, w)
<1>1. /\ BName(0) = "beq" /\ BName(1) = "bne" /\ BName(2) = NoName /\ BName(3) = NoName
      /\ BName(4) = "blt" /\ BName(5) = "bge" /\ BName(6) = "bltu" /\ BName(7) = "bgeu"
  BY DEF BName
<1>2. funct3 = 0 \/ funct3 = 1 \/ funct3 = 2 \/ funct3 = 3 \/ funct3 = 4 \/ funct3 = 5
      \/ funct3 = 6 \/ funct3 = 7
  OBVIOUS
<1>3. BName(funct3) # NoName <=> BranchKnown(funct3)
  BY <1>1, <1>2 DEF BranchKnown, NoName
<1>4. ASSUME BranchKnown(funct3)
      PROVE  Bool(Holds(funct3, v, w)) = Meaning(BName(funct3), v, w)
  <2>1. /\ Holds(0, v, w) = (v = w) /\ Holds(1, v, w) = (v # w)
        /\ Holds(4, v, w) = (Signed(v) < Signed(w)) /\ Holds(5, v, w) = (Signed(v) >= Signed(w))
        /\ Holds(6, v, w) = (v < w) /\ Holds(7, v, w) = (v >= w)
    BY DEF Holds
  <2> QED BY <1>1, <1>4, <2>1, Meanings DEF BranchKnown
<1> QED BY <1>3, <1>4

\* The low bytes of a register value are a number of so many bytes.
LEMMA LowBytesRange ==
  ASSUME NEW v \in Value
  PROVE  /\ v % ByteMod \in 0 .. ByteMod - 1
         /\ v % (ByteMod * ByteMod) \in 0 .. ByteMod * ByteMod - 1
         /\ ByteMod \in Nat \ {0} /\ ByteMod * ByteMod \in Nat \ {0}
<1>1. v \in Int /\ ByteMod \in Nat \ {0}
  BY AluBits, AluBytes DEF Value
<1> DEFINE n == ByteMod * ByteMod
<1>2. n \in Nat \ {0}
  BY <1>1
<1> HIDE DEF n
<1>3. v % n \in 0 .. n - 1
  BY <1>1, <1>2
<1>4. v % ByteMod \in 0 .. ByteMod - 1
  BY <1>1
<1> QED BY <1>1, <1>2, <1>3, <1>4 DEF n

\* A cast to a narrower signed type keeps the number that its bits are.
LEMMA ExtendKeeps ==
  ASSUME NEW n \in Nat \ {0}, NEW v \in 0 .. n - 1, v \in Value
  PROVE  Extend(v, n) = Unsigned(SignedOf(v, n))
<1> DEFINE h == n \div 2
<1>1. h \in Nat /\ (n = 2 * h \/ n = 2 * h + 1)
  OBVIOUS
<1> HIDE DEF h
<1>2. CASE 2 * v >= n
  <2>1. v + h = (v + h - n) + n * 1 /\ v + h - n \in 0 .. n - 1
    BY <1>1, <1>2
  <2>2. (v + h) % n = v + h - n
    BY <1>1, <2>1
  <2>3. SignedOf(v, n) = v - n
    BY <1>1, <2>2 DEF SignedOf, h
  <2> QED BY <1>2, <2>3 DEF Extend
<1>3. CASE ~(2 * v >= n)
  <2>1. (v + h) % n = v + h
    BY <1>1, <1>3
  <2>2. SignedOf(v, n) = v
    BY <1>1, <2>1 DEF SignedOf, h
  <2>3. Unsigned(v) = v
    BY AluBits DEF Unsigned, Value
  <2> QED BY <1>3, <2>2, <2>3 DEF Extend
<1> QED BY <1>2, <1>3

\* The loads that are executed have a name of their own, and give the bytes they read
\* with the sign that the name says.
LEMMA LoadsAgree ==
  ASSUME NEW funct3 \in 0 .. 7, NEW v \in Value, NEW w
  PROVE  /\ LoadName(funct3) # "unknown" <=> LoadKnown(funct3)
         /\ LoadKnown(funct3)
              => LoadResult(funct3, LowBytes(funct3, v))
                   = Meaning(LoadName(funct3), LowBytes(funct3, v), w)
<1>1. /\ LoadName(0) = "lb" /\ LoadName(1) = "lh" /\ LoadName(2) = "lw"
      /\ LoadName(3) = "unknown" /\ LoadName(4) = "lbu" /\ LoadName(5) = "lhu"
      /\ LoadName(6) = "unknown" /\ LoadName(7) = "unknown"
  BY DEF LoadName
<1>2. funct3 = 0 \/ funct3 = 1 \/ funct3 = 2 \/ funct3 = 3 \/ funct3 = 4 \/ funct3 = 5
      \/ funct3 = 6 \/ funct3 = 7
  OBVIOUS
<1>3. LoadName(funct3) # "unknown" <=> LoadKnown(funct3)
  BY <1>1, <1>2 DEF LoadKnown
<1> DEFINE n == ByteMod * ByteMod
<1>4. /\ v % ByteMod \in 0 .. ByteMod - 1 /\ v % n \in 0 .. n - 1
      /\ ByteMod \in Nat \ {0} /\ n \in Nat \ {0}
  BY LowBytesRange
<1>5. v % ByteMod \in Value /\ v % n \in Value
  <2>1. v \in 0 .. W - 1 /\ W \in Nat
    BY AluBits DEF Value
  <2>2. \A m \in Nat \ {0} : v % m <= v
    BY <2>1
  <2> HIDE DEF n
  <2> QED BY <1>4, <2>1, <2>2 DEF Value
<1> HIDE DEF n
<1>6. \A x : /\ Meaning("lb", x, w) = Unsigned(SignedOf(x, ByteMod))
             /\ Meaning("lh", x, w) = Unsigned(SignedOf(x, n))
             /\ Meaning("lw", x, w) = x /\ Meaning("lbu", x, w) = x /\ Meaning("lhu", x, w) = x
  BY DEF Meaning, n
<1>7. /\ LowBytes(0, v) = v % ByteMod /\ LowBytes(1, v) = v % n
      /\ \A x : /\ LoadResult(0, x) = Extend(x, ByteMod) /\ LoadResult(1, x) = Extend(x, n)
                /\ LoadResult(2, x) = x /\ LoadResult(4, x) = x /\ LoadResult(5, x) = x
  BY DEF LowBytes, LoadResult, n
<1>8. CASE funct3 = 0
  <2>1. Extend(v % ByteMod, ByteMod) = Unsigned(SignedOf(v % ByteMod, ByteMod))
    BY <1>4, <1>5, ExtendKeeps
  <2> QED BY <1>1, <1>3, <1>6, <1>7, <1>8, <2>1
<1>9. CASE funct3 = 1
  <2>1. Extend(v % n, n) = Unsigned(SignedOf(v % n, n))
    BY <1>4, <1>5, ExtendKeeps
  <2> QED BY <1>1, <1>3, <1>6, <1>7, <1>9, <2>1
<1>10. CASE funct3 \in {2, 4, 5}
  BY <1>1, <1>3, <1>6, <1>7, <1>10
<1>11. CASE funct3 \in {3, 6, 7}
  BY <1>3, <1>11 DEF LoadKnown
<1> QED BY <1>2, <1>3, <1>8, <1>9, <1>10, <1>11

\* What a text consists of.
LEMMA Texts ==
  /\ \A x, y, z, t : /\ <<x, y, z, t>> # Nothing /\ Head(<<x, y, z, t>>) = x
                     /\ Tail(<<x, y, z, t>>) = <<y, z, t>>
                     /\ <<x, y, z, t>>[1] = x /\ <<x, y, z, t>>[4] = t
  /\ \A x, y, z : /\ <<x, y, z>> # Nothing /\ Head(<<x, y, z>>) = x
                  /\ Tail(<<x, y, z>>) = <<y, z>>
  /\ \A x : <<x>> # Nothing /\ Head(<<x>>) = x /\ Tail(<<x>>) = <<>>
  BY DEF Nothing

\* The name of a load that is not known is no other name.
LEMMA NoNameIsUnknown ==
  ASSUME NEW funct7 \in Int, NEW funct3 \in 0 .. 7, NEW imm
  PROVE  /\ RName(funct7, funct3) # "unknown" /\ BName(funct3) # "unknown"
         /\ IName(funct3, imm) # "unknown"
         /\ funct3 <= 2 => <<"sb", "sh", "sw">>[funct3 + 1] # "unknown"
<1>1. funct3 = 0 \/ funct3 = 1 \/ funct3 = 2 \/ funct3 = 3 \/ funct3 = 4 \/ funct3 = 5
      \/ funct3 = 6 \/ funct3 = 7
  OBVIOUS
<1>2. RName(funct7, funct3) # "unknown"
  <2>1. CASE funct7 = 0
    BY <1>1, <2>1, RegisterNames
  <2>2. CASE funct7 = 1
    BY <1>1, <2>2, RegisterNames
  <2>3. CASE funct7 = \h20 /\ funct3 \in {0, 5}
    BY <2>3, RegisterNames
  <2>4. CASE funct7 \notin {0, 1} /\ ~(funct7 = \h20 /\ funct3 \in {0, 5})
    BY <2>4 DEF RName, NoName
  <2> QED BY <2>1, <2>2, <2>3, <2>4
<1>3. BName(funct3) # "unknown"
  <2>1. /\ BName(0) = "beq" /\ BName(1) = "bne" /\ BName(2) = "none" /\ BName(3) = "none"
        /\ BName(4) = "blt" /\ BName(5) = "bge" /\ BName(6) = "bltu" /\ BName(7) = "bgeu"
    BY DEF BName, NoName
  <2> QED BY <1>1, <2>1
<1>4. IName(funct3, imm) # "unknown"
  <2>1. /\ IName(0, imm) = "addi" /\ IName(1, imm) = "slli" /\ IName(2, imm) = "slti"
        /\ IName(3, imm) = "sltiu" /\ IName(4, imm) = "xori" /\ IName(6, imm) = "ori"
        /\ IName(7, imm) = "andi" /\ IName(5, imm) \in {"srli", "srai"}
    BY DEF IName
  <2> QED BY <1>1, <2>1
<1>5. ASSUME funct3 <= 2 PROVE <<"sb", "sh", "sw">>[funct3 + 1] # "unknown"
  <2>1. funct3 = 0 \/ funct3 = 1 \/ funct3 = 2
    BY <1>5
  <2> QED BY <2>1
<1> QED BY <1>2, <1>3, <1>4, <1>5

\* What PrintsWhatRuns says of the fields of an instruction and what is printed for them.
Told(f, text) ==
  LET printed == text # Nothing /\ Head(text) # "unknown"
  IN  /\ printed <=> Acts(f) \/ f.opcode \in {\h67, \h73}
      /\ printed => Tail(text) = Operands(f)
      /\ Acts(f) /\ f.opcode \in {\h33, \h13, \h03, \h63} => ResultsMean(f, text[1], text[4])

\* The operations with results.
LEMMA ResultsTold ==
  ASSUME NEW f, f.opcode \in {\h33, \h13, \h03, \h63}, f.funct7 \in Int, f.funct3 \in 0 .. 7,
         f.imm \in Int, a \in Value, b \in Value
  PROVE  Told(f, Text(f))
<1>1. CASE f.opcode = \h33
  <2> DEFINE name == RName(f.funct7, f.funct3)
             text == <<name, Register(f.rd), Register(f.rs1), Register(f.rs2)>>
  <2>1. Text(f) = IF name = NoName THEN Nothing ELSE text
    BY <1>1 DEF Text, disas_r_type
  <2>2. /\ name # NoName <=> RKnown(f.funct7, f.funct3)
        /\ RKnown(f.funct7, f.funct3) /\ ~(IsDivision(f.funct7, f.funct3) /\ Undefined(f.funct3, a, b))
             => RResult(f.funct7, f.funct3, a, b) = Meaning(Executed(name), a, b)
    BY RegistersAgree
  <2>3. Acts(f) <=> RKnown(f.funct7, f.funct3)
    BY <1>1 DEF Acts, UFormat
  <2>4. name # "unknown"
    BY NoNameIsUnknown
  <2>5. /\ text # Nothing /\ Head(text) = name /\ text[1] = name
        /\ Tail(text) = <<Register(f.rd), Register(f.rs1), Register(f.rs2)>>
    <3> HIDE DEF name
    <3> QED BY Texts
  <2>6. Operands(f) = <<Register(f.rd), Register(f.rs1), Register(f.rs2)>>
    BY <1>1 DEF Operands, UFormat
  <2> HIDE DEF name, text
  <2>7. RKnown(f.funct7, f.funct3) => ResultsMean(f, name, text[4])
    BY <1>1, <2>2 DEF ResultsMean
  <2> QED BY <1>1, <2>1, <2>2, <2>3, <2>4, <2>5, <2>6, <2>7 DEF Told
<1>2. CASE f.opcode = \h13
  <2> DEFINE name == IName(f.funct3, f.imm)
             shown == IF f.funct3 \in {1, 5} THEN f.imm % 32 ELSE f.imm
             text == <<name, Register(f.rd), Register(f.rs1), shown>>
  <2>1. Text(f) = text
    BY <1>2 DEF Text, disas_i_type
  <2>2. Fits(shown) => IResult(f.funct3, a, f.imm) = Meaning(Executed(name), a, Unsigned(shown))
    BY ImmediatesRun
  <2>3. Acts(f)
    BY <1>2 DEF Acts
  <2>4. name # "unknown"
    BY NoNameIsUnknown
  <2>5. Operands(f) = <<Register(f.rd), Register(f.rs1), shown>>
    BY <1>2 DEF Operands, UFormat
  <2>6. /\ text # Nothing /\ Head(text) = name /\ text[1] = name /\ text[4] = shown
        /\ Tail(text) = <<Register(f.rd), Register(f.rs1), shown>>
    <3> HIDE DEF name, shown
    <3> QED BY Texts
  <2> HIDE DEF name, shown, text
  <2>7. ResultsMean(f, name, shown)
    BY <1>2, <2>2 DEF ResultsMean
  <2> QED BY <2>1, <2>3, <2>4, <2>5, <2>6, <2>7 DEF Told
<1>3. CASE f.opcode = \h03
  <2> DEFINE name == LoadName(f.funct3)
             text == <<name, Register(f.rd), f.imm, Register(f.rs1)>>
  <2>1. Text(f) = text
    BY <1>3 DEF Text, disas_load_type
  <2>2. /\ name # "unknown" <=> LoadKnown(f.funct3)
        /\ LoadKnown(f.funct3) => LoadResult(f.funct3, LowBytes(f.funct3, a))
                                    = Meaning(name, LowBytes(f.funct3, a), b)
    BY LoadsAgree
  <2>3. Acts(f) <=> LoadKnown(f.funct3)
    BY <1>3 DEF Acts, UFormat
  <2>4. Operands(f) = <<Register(f.rd), f.imm, Register(f.rs1)>>
    BY <1>3 DEF Operands, UFormat
  <2>5. /\ text # Nothing /\ Head(text) = name /\ text[1] = name
        /\ Tail(text) = <<Register(f.rd), f.imm, Register(f.rs1)>>
    <3> HIDE DEF name
    <3> QED BY Texts
  <2> HIDE DEF name, text
  <2>6. LoadKnown(f.funct3) => ResultsMean(f, name, text[4])
    BY <1>3, <2>2 DEF ResultsMean
  <2> QED BY <1>3, <2>1, <2>2, <2>3, <2>4, <2>5, <2>6 DEF Told
<1>4. CASE f.opcode = \h63
  <2> DEFINE name == BName(f.funct3)
             text == <<name, Register(f.rs1), Register(f.rs2), f.imm>>
  <2>1. Text(f) = IF name = NoName THEN Nothing ELSE text
    BY <1>4 DEF Text, disas_b_type
  <2>2. /\ name # NoName <=> BranchKnown(f.funct3)
        /\ BranchKnown(f.funct3) => Bool(Holds(f.funct3, a, b)) = Meaning(name, a, b)
    BY BranchesAgree
  <2>3. Acts(f) <=> BranchKnown(f.funct3)
    BY <1>4 DEF Acts, UFormat
  <2>4. name # "unknown"
    BY NoNameIsUnknown
  <2>5. Operands(f) = <<Register(f.rs1), Register(f.rs2), f.imm>>
    BY <1>4 DEF Operands, UFormat
  <2>6. /\ text # Nothing /\ Head(text) = name /\ text[1] = name
        /\ Tail(text) = <<Register(f.rs1), Register(f.rs2), f.imm>>
    <3> HIDE DEF name
    <3> QED BY Texts
  <2> HIDE DEF name, text
  <2>7. BranchKnown(f.funct3) => ResultsMean(f, name, text[4])
    BY <1>4, <2>2 DEF ResultsMean
  <2> QED BY <1>4, <2>1, <2>2, <2>3, <2>4, <2>5, <2>6, <2>7 DEF Told
<1> QED BY <1>1, <1>2, <1>3, <1>4

\* The others.
LEMMA OthersTold ==
  ASSUME NEW f, f.opcode \notin {\h33, \h13, \h03, \h63}, f.funct3 \in 0 .. 7
  PROVE  Told(f, Text(f))
<1>0. ~(Acts(f) /\ f.opcode \in {\h33, \h13, \h03, \h63})
  OBVIOUS
<1>1. CASE f.opcode = \h23
  <2> DEFINE name == <<"sb", "sh", "sw">>[f.funct3 + 1]
             text == <<name, Register(f.rs2), f.imm, Register(f.rs1)>>
  <2>1. Text(f) = IF f.funct3 > 2 THEN Nothing ELSE text
    BY <1>1 DEF Text, disas_s_type
  <2>2. Acts(f) <=> f.funct3 <= 2
    BY <1>1 DEF Acts, UFormat, StoreKnown
  <2>3. f.funct3 <= 2 => name # "unknown"
    BY NoNameIsUnknown, 0 \in Int
  <2>4. Operands(f) = <<Register(f.rs2), f.imm, Register(f.rs1)>>
    BY <1>1 DEF Operands, UFormat
  <2>5. /\ text # Nothing /\ Head(text) = name
        /\ Tail(text) = <<Register(f.rs2), f.imm, Register(f.rs1)>>
    <3> HIDE DEF name
    <3> QED BY Texts
  <2>6. f.funct3 > 2 <=> ~(f.funct3 <= 2)
    OBVIOUS
  <2> HIDE DEF name, text
  <2> QED BY <1>0, <1>1, <2>1, <2>2, <2>3, <2>4, <2>5, <2>6 DEF Told
<1>2. CASE f.opcode \in {\h37, \h17, \h6F}
  <2>1. PICK name \in {"lui", "auipc", "jal"} : Text(f) = <<name, Register(f.rd), f.imm>>
    BY <1>2 DEF Text
  <2>2. Acts(f) /\ Operands(f) = <<Register(f.rd), f.imm>>
    BY <1>2 DEF Acts, Operands, UFormat
  <2>3. name # "unknown"
    OBVIOUS
  <2>4. Text(f) # Nothing /\ Head(Text(f)) = name /\ Tail(Text(f)) = <<Register(f.rd), f.imm>>
    BY <2>1, Texts
  <2> QED BY <1>0, <2>2, <2>3, <2>4 DEF Told
<1>3. CASE f.opcode = \h67
  <2>1. Text(f) = <<"jalr", Register(f.rd), Register(f.rs1), f.imm>>
    BY <1>3 DEF Text
  <2>2. Operands(f) = <<Register(f.rd), Register(f.rs1), f.imm>>
    BY <1>3 DEF Operands, UFormat
  <2>3. /\ Text(f) # Nothing /\ Head(Text(f)) = "jalr"
        /\ Tail(Text(f)) = <<Register(f.rd), Register(f.rs1), f.imm>>
    BY <2>1, Texts
  <2> QED BY <1>0, <1>3, <2>2, <2>3 DEF Told
<1>4. CASE f.opcode = \h73
  <2>1. Text(f) = <<"ecall">> /\ Operands(f) = <<>>
    BY <1>4 DEF Text, Operands, UFormat
  <2>2. Text(f) # Nothing /\ Head(Text(f)) = "ecall" /\ Tail(Text(f)) = <<>>
    BY <2>1, Texts
  <2> QED BY <1>0, <1>4, <2>1, <2>2 DEF Told
<1>5. CASE f.opcode \notin {\h23, \h37, \h17, \h6F, \h67, \h73}
  <2>1. Text(f) = Nothing
    BY <1>5 DEF Text
  <2>2. ~Acts(f)
    BY <1>5 DEF Acts, UFormat
  <2> QED BY <1>0, <1>5, <2>1, <2>2 DEF Told
<1> QED BY <1>1, <1>2, <1>3, <1>4, <1>5

\* PrintsWhatRuns, for every instruction of a format, every register and every value of
\* the operands: what is printed under a name is what is executed, but for the jalr and
\* the ecall that are only printed; its operands are those of the instruction, and the
\* results of the register, immediate, load and branch operations are what the name
\* means, for srai, mulh and mulhsu what srli and mulhu mean.
THEOREM NamesMean == InsnSpec => []PrintsWhatRuns
<1>1. InsnInv => PrintsWhatRuns
  <2> SUFFICES ASSUME InsnInv
               PROVE  PrintsWhatRuns
    OBVIOUS
  <2>1. DecodeWord(word) = insn
    BY AssembledIsDecoded
  <2>2. a \in Value /\ b \in Value
    BY DEF InsnInv
  <2>3. insn.funct7 \in Int /\ insn.funct3 \in 0 .. 7 /\ insn.imm \in Int
    <3>1. CASE insn = Blank
      BY <3>1 DEF Blank, Undecoded, Filled
    <3>2. ASSUME NEW opcode \in Opcodes, NEW i \in Insns(opcode), insn = i
          PROVE  insn.funct7 \in Int /\ insn.funct3 \in 0 .. 7 /\ insn.imm \in Int
      <4>1. i.funct3 \in 0 .. 7 /\ i.funct7 \in 0 .. 127 /\ i.imm \in Int
        BY SMT, WordOfFields
      <4> QED BY <3>2, <4>1
    <3> QED BY <3>1, <3>2 DEF InsnInv
  <2>4. Told(insn, Text(insn))
    BY <2>2, <2>3, ResultsTold, OthersTold
  <2> QED BY <2>1, <2>4 DEF PrintsWhatRuns, Told
<1> QED BY <1>1, InsnAssembled, PTL

\* A register value read as signed, and how truncation gives it back.
LEMMA SignedRange ==
  ASSUME NEW x \in Value
  PROVE  /\ Signed(x) \in Int /\ Fits(Signed(x)) /\ Unsigned(Signed(x)) = x
         /\ (Signed(x) = 0 <=> x = 0) /\ (Signed(x) < 0 <=> W \div 2 <= x)
<1> DEFINE H == W \div 2
<1>1. H \in Int /\ W = 2 * H /\ 0 < H
  BY Halves, AluBits
<1>2. x \in Int /\ 0 <= x /\ x < W
  BY <1>1 DEF Value
<1> HIDE DEF H
<1>3. Signed(x) = IF x < H THEN x ELSE x - W
  BY <1>1, <1>2 DEF Signed
<1>4. Signed(x) \in Int /\ -H <= Signed(x) /\ Signed(x) <= H - 1
  BY <1>1, <1>2, <1>3
<1>5. Fits(Signed(x))
  BY <1>1, <1>4 DEF Fits, H
<1>6. Unsigned(Signed(x)) = x
  BY <1>1, <1>2, <1>3 DEF Unsigned
<1> QED BY <1>1, <1>2, <1>3, <1>4, <1>5, <1>6 DEF H

\* Dividing towards zero: the remainder has the sign of the dividend and is smaller than
\* the divisor, and both results fit a register but for the smallest number by -1.
LEMMA DividesTowardsZero ==
  ASSUME NEW v \in Int, NEW w \in Int \ {0}
  PROVE  /\ Quotient(v, w) \in Int /\ Remainder(v, w) \in Int
         /\ Quotient(v, w) * w + Remainder(v, w) = v
         /\ Magnitude(Remainder(v, w)) < Magnitude(w)
         /\ Remainder(v, w) = 0 \/ (Remainder(v, w) < 0) = (v < 0)
         /\ Fits(v) /\ ~(v = -(W \div 2) /\ w = -1)
              => Fits(Quotient(v, w)) /\ Fits(Remainder(v, w))
<1> DEFINE mv == Magnitude(v)
           mw == Magnitude(w)
           q == mv \div mw
           r == mv % mw
           Q == Quotient(v, w)
           R == Remainder(v, w)
<1>1. mv \in Nat /\ mw \in Nat \ {0} /\ mv = (IF v < 0 THEN -v ELSE v)
      /\ mw = (IF w < 0 THEN -w ELSE w)
  BY DEF Magnitude
<1> HIDE DEF mv, mw
<1>2. q \in Int /\ r \in Int /\ 0 <= r /\ r < mw /\ mv = mw * q + r /\ 0 <= q
  <2>1. q \in Int /\ r \in Int /\ 0 <= r /\ r < mw /\ mv = mw * q + r
    <3>1. \A x \in Nat, y \in Nat \ {0} :
            /\ x \div y \in Int /\ x % y \in Int /\ 0 <= x % y /\ x % y < y
            /\ x = y * (x \div y) + (x % y)
      OBVIOUS
    <3> QED BY <1>1, <3>1, Zenon
  <2> HIDE DEF q, r
  <2>2. \A y, z \in Int : 0 < y /\ z <= -1 => y * z <= -y /\ y * z \in Int
    OBVIOUS
  <2>3. 0 <= q
    BY <1>1, <2>1, <2>2
  <2> QED BY <2>1, <2>3
<1>3. Q = IF (v < 0) = (w < 0) THEN q ELSE -q
  BY DEF Quotient, mv, mw
<1> HIDE DEF q, r
<1>4. mw * q \in Int /\ (-mw) * q = -(mw * q) /\ mw * (-q) = -(mw * q)
      /\ (-mw) * (-q) = mw * q
  BY <1>1, <1>2
<1>5. Q \in Int /\ w * Q = IF v < 0 THEN -(mw * q) ELSE mw * q
  <2>1. CASE w < 0
    <3>1. w = -mw
      BY <1>1, <2>1
    <3> QED BY <1>2, <1>3, <1>4, <2>1, <3>1
  <2>2. CASE ~(w < 0)
    <3>1. w = mw
      BY <1>1, <2>2
    <3> QED BY <1>2, <1>3, <1>4, <2>2, <3>1
  <2> QED BY <2>1, <2>2
<1>6. R = v - w * Q
  BY DEF Remainder
<1> HIDE DEF Q, R
<1>7. R = IF v < 0 THEN -r ELSE r
  BY <1>1, <1>2, <1>4, <1>5, <1>6
<1>8. Q * w + R = v /\ R \in Int
  <2>1. Q * w = w * Q /\ w * Q \in Int
    BY <1>5
  <2> QED BY <1>6, <2>1
<1>9. Magnitude(R) = r
  BY <1>2, <1>7 DEF Magnitude
<1>10. R = 0 \/ (R < 0) = (v < 0)
  BY <1>2, <1>7
<1>11. ASSUME Fits(v), ~(v = -(W \div 2) /\ w = -1)
       PROVE  Fits(Q) /\ Fits(R)
  <2> DEFINE H == W \div 2
  <2>1. H \in Int /\ 0 < H
    BY Halves, AluBits
  <2>2. -H <= v /\ v <= H - 1 /\ ~(v = -H /\ w = -1)
    BY <1>11, <2>1 DEF Fits
  <2> HIDE DEF H
  <2>3. q <= mw * q
    <3>1. \A y, z \in Int : 1 <= y /\ 0 <= z => z <= y * z
      OBVIOUS
    <3> QED BY <1>1, <1>2, <3>1
  <2>4. q <= mv - r /\ mv <= H /\ 0 <= r
    BY <1>1, <1>2, <1>4, <2>1, <2>2, <2>3
  <2>5. ASSUME q = H, (v < 0) = (w < 0) PROVE FALSE
    <3>1. mv = H /\ v = -H /\ w < 0 /\ r = 0
      BY <1>1, <1>2, <2>1, <2>2, <2>4, <2>5
    <3>2. mw * q = q /\ 0 < q
      BY <1>2, <1>4, <2>1, <2>5, <3>1
    <3>3. mw = 1
      <4>1. \A y, z \in Int : 0 < z /\ y * z = z /\ 1 <= y => y = 1
        OBVIOUS
      <4> QED BY <1>1, <1>2, <3>2, <4>1
    <3> QED BY <1>1, <2>2, <3>1, <3>3
  <2>6. -H <= Q /\ Q <= H - 1
    BY <1>2, <1>3, <2>1, <2>4, <2>5
  <2>7. -H <= R /\ R <= H - 1
    BY <1>1, <1>2, <1>7, <2>1, <2>2, <2>3, <2>4
  <2> QED BY <1>5, <1>8, <2>1, <2>6, <2>7 DEF Fits, H
<1> QED BY <1>1, <1>2, <1>5, <1>8, <1>9, <1>10, <1>11 DEF Q, R, mw

\* The operands satisfy the division identity.
LEMMA Divisions == a \in Value /\ b \in Value => DivisionIdentity
<1> SUFFICES ASSUME a \in Value, b \in Value
             PROVE  DivisionIdentity
  OBVIOUS
<1> DEFINE sa == Signed(a)
           sb == Signed(b)
           Q == Quotient(sa, sb)
           R == Remainder(sa, sb)
<1>1. a \in Nat /\ b \in Nat
  BY AluBits DEF Value
<1>2. ASSUME ~Undefined(4, a, b)
      PROVE  LET q == Signed(RResult(1, 4, a, b))
                 r == Signed(RResult(1, 6, a, b))
             IN  /\ q * sb + r = sa
                 /\ Magnitude(r) < Magnitude(sb)
                 /\ r = 0 \/ (r < 0) = (sa < 0)
  <2>1. b # 0 /\ ~(sa = -(W \div 2) /\ sb = -1) /\ ~Undefined(6, a, b)
    BY <1>2 DEF Undefined
  <2>2. sa \in Int /\ Fits(sa) /\ sb \in Int \ {0}
    BY <2>1, SignedRange
  <2> HIDE DEF sa, sb
  <2>3. /\ Q \in Int /\ R \in Int /\ Q * sb + R = sa /\ Magnitude(R) < Magnitude(sb)
        /\ R = 0 \/ (R < 0) = (sa < 0)
        /\ Fits(Q) /\ Fits(R)
    BY <2>1, <2>2, DividesTowardsZero
  <2>4. RResult(1, 4, a, b) = Unsigned(Q) /\ RResult(1, 6, a, b) = Unsigned(R)
    BY <1>2, <2>1 DEF RResult, DivisionResult, sa, sb
  <2>5. Signed(Unsigned(Q)) = Q /\ Signed(Unsigned(R)) = R
    <3> HIDE DEF Q, R
    <3> QED BY <2>3, ImmediateFits
  <2> HIDE DEF Q, R
  <2> QED BY <2>3, <2>4, <2>5
<1>3. ASSUME ~Undefined(5, a, b)
      PROVE  /\ RResult(1, 5, a, b) * b + RResult(1, 7, a, b) = a
             /\ RResult(1, 7, a, b) < b
  <2>1. b # 0 /\ ~Undefined(7, a, b)
    BY <1>3 DEF Undefined
  <2>2. RResult(1, 5, a, b) = a \div b /\ RResult(1, 7, a, b) = a % b
    BY <1>3, <2>1 DEF RResult, DivisionResult
  <2>3. (a \div b) * b + (a % b) = a /\ a % b < b
    BY <1>1, <2>1
  <2> QED BY <2>2, <2>3
<1> HIDE DEF Q, R
<1> QED BY <1>2, <1>3 DEF DivisionIdentity, sa, sb

\* The halves of the product.
LEMMA Products == a \in Value /\ b \in Value => ProductHalves
<1> SUFFICES ASSUME a \in Value, b \in Value
             PROVE  ProductHalves
  OBVIOUS
<1> DEFINE p == a * b
<1>1. p \in Int /\ W \in Nat \ {0}
  BY AluBits DEF Value
<1>2. RResult(1, 3, a, b) = p \div W /\ RResult(1, 0, a, b) = p % W
  BY DEF RResult, ProductResult, Unsigned
<1> HIDE DEF p
<1>3. (p \div W) * W + (p % W) = p
  BY <1>1
<1> QED BY <1>2, <1>3 DEF ProductHalves, p

\* The orders and their opposites.
LEMMA Orders == a \in Value /\ b \in Value => OrdersAgree
<1> SUFFICES ASSUME a \in Value, b \in Value
             PROVE  OrdersAgree
  OBVIOUS
<1> DEFINE H == W \div 2
<1>1. H \in Int /\ W = 2 * H /\ 0 < H
  BY Halves, AluBits
<1>2. a \in Int /\ 0 <= a /\ a < W /\ b \in Int /\ 0 <= b /\ b < W
  BY <1>1 DEF Value
<1> HIDE DEF H
<1>3. \A x, y : /\ Holds(0, x, y) = (x = y) /\ Holds(1, x, y) = (x # y)
                /\ Holds(4, x, y) = (Signed(x) < Signed(y))
                /\ Holds(5, x, y) = (Signed(x) >= Signed(y))
                /\ Holds(6, x, y) = (x < y) /\ Holds(7, x, y) = (x >= y)
  BY DEF Holds
<1>4. Signed(a) \in Int /\ Signed(b) \in Int
  BY SignedRange
<1>5. \A funct3 \in {0, 4, 6} : Holds(funct3, a, b) = ~Holds(funct3 + 1, a, b)
  <2>1. /\ Holds(0, a, b) = ~Holds(1, a, b) /\ Holds(4, a, b) = ~Holds(5, a, b)
        /\ Holds(6, a, b) = ~Holds(7, a, b)
    <3>1. Holds(0, a, b) = ~Holds(1, a, b)
      BY DEF Holds
    <3>2. Holds(4, a, b) = ~Holds(5, a, b)
      BY <1>4 DEF Holds
    <3>3. Holds(6, a, b) = ~Holds(7, a, b)
      BY <1>2 DEF Holds
    <3> QED BY <3>1, <3>2, <3>3
  <2>2. 0 + 1 = 1 /\ 4 + 1 = 5 /\ 6 + 1 = 7
    OBVIOUS
  <2> QED BY <2>1, <2>2
<1>6. /\ RResult(0, 2, a, b) = Bool(Holds(4, a, b))
      /\ RResult(0, 3, a, b) = Bool(Holds(6, a, b))
  BY <1>3 DEF RResult, BaseResult
<1>7. Holds(4, a, b) = Holds(6, Unsigned(a + H), Unsigned(b + H))
  <2>1. \A x \in Int : 0 <= x /\ x < W => Unsigned(x + H) = IF x < H THEN x + H ELSE x - H
    BY <1>1 DEF Unsigned
  <2>2. \A x \in Int : 0 <= x /\ x < W => Signed(x) = IF x < H THEN x ELSE x - W
    BY <1>1 DEF Signed
  <2>3. Unsigned(a + H) = Signed(a) + H /\ Unsigned(b + H) = Signed(b) + H
    BY <1>1, <1>2, <2>1, <2>2
  <2>4. (Signed(a) < Signed(b)) = (Signed(a) + H < Signed(b) + H)
    BY <1>1, <1>4
  <2> QED BY <1>3, <2>3, <2>4
<1>8. RResult(\h20, 0, a, b) = 0 <=> Holds(0, a, b)
  <2>1. RResult(\h20, 0, a, b) = (a - b) % W
    BY DEF RResult, SubOrSra, Unsigned
  <2>2. (a - b) % W = IF a < b THEN (a - b) + W ELSE a - b
    BY <1>1, <1>2
  <2>3. (a - b) % W = 0 <=> a = b
    BY <1>1, <1>2, <2>2
  <2>4. Holds(0, a, b) <=> a = b
    BY DEF Holds
  <2> QED BY <2>1, <2>3, <2>4
<1> QED BY <1>5, <1>6, <1>7, <1>8 DEF OrdersAgree, H

\* An immediate in a register.
LEMMA ImmediatesInRegisters == a \in Value => ImmediatesAgree
<1> SUFFICES ASSUME a \in Value, NEW funct3 \in 0 .. 7, NEW imm \in Immediates
             PROVE  IResult(funct3, a, imm) = RResult(0, funct3, a, Unsigned(imm))
  BY DEF ImmediatesAgree
<1>1. imm \in Int /\ Fits(imm)
  <2>1. W \div 2 \in Int
    BY Halves
  <2> QED BY <2>1 DEF Immediates, Fits
<1>2. Signed(Unsigned(imm)) = imm
  BY <1>1, ImmediateFits
<1>3. Unsigned(a + imm) = Unsigned(a + Unsigned(imm))
  BY <1>1, AluBits, UnsignedSum DEF Value
<1>4. Shamt(Unsigned(imm)) = imm % XLEN
  <2> DEFINE q == imm \div W
             r == imm % W
             k == W \div XLEN
  <2>1. /\ XLEN \in Nat \ {0} /\ W \in Nat \ {0} /\ q \in Int /\ r \in Int
        /\ imm = r + W * q
    BY <1>1, AluWidth, AluBits
  <2>2. k \in Int /\ W = XLEN * k
    BY <2>1, InsnWidth
  <2> HIDE DEF q, r, k
  <2> DEFINE n == k * q
  <2>3. n \in Int /\ imm = r + XLEN * n
    <3>1. (XLEN * k) * q = XLEN * (k * q) /\ k * q \in Int
      BY <2>1, <2>2
    <3> QED BY <2>1, <2>2, <3>1
  <2> HIDE DEF n
  <2>4. (r + XLEN * n) % XLEN = r % XLEN
    BY ONLY <2>1, <2>3, WholeTurns, Zenon
  <2> QED BY <2>3, <2>4 DEF Shamt, Unsigned, r
<1>5. /\ IResult(0, a, imm) = Unsigned(a + imm)
      /\ IResult(1, a, imm) = ShiftLeft(a, imm % XLEN)
      /\ IResult(2, a, imm) = Bool(Signed(a) < imm)
      /\ IResult(3, a, imm) = Bool(a < Unsigned(imm))
      /\ IResult(4, a, imm) = BitXor(a, Unsigned(imm))
      /\ IResult(5, a, imm) = ShiftRight(a, imm % XLEN)
      /\ IResult(6, a, imm) = BitOr(a, Unsigned(imm))
      /\ IResult(7, a, imm) = BitAnd(a, Unsigned(imm))
  BY DEF IResult
<1>6. LET u == Unsigned(imm)
      IN  /\ RResult(0, 0, a, u) = Unsigned(a + u)
          /\ RResult(0, 1, a, u) = ShiftLeft(a, Shamt(u))
          /\ RResult(0, 2, a, u) = Bool(Signed(a) < Signed(u))
          /\ RResult(0, 3, a, u) = Bool(a < u)
          /\ RResult(0, 4, a, u) = BitXor(a, u)
          /\ RResult(0, 5, a, u) = ShiftRight(a, Shamt(u))
          /\ RResult(0, 6, a, u) = BitOr(a, u)
          /\ RResult(0, 7, a, u) = BitAnd(a, u)
  BY DEF RResult, BaseResult
<1>7. funct3 = 0 \/ funct3 = 1 \/ funct3 = 2 \/ funct3 = 3 \/ funct3 = 4 \/ funct3 = 5
      \/ funct3 = 6 \/ funct3 = 7
  OBVIOUS
<1> QED BY <1>2, <1>3, <1>4, <1>5, <1>6, <1>7

\* The powers of two that a register has.
LEMMA RegisterPowers ==
  /\ \A m \in 0 .. XLEN : 2^m \in Nat \ {0}
  /\ \A m \in 0 .. XLEN - 1 : 2^(m + 1) = 2 * 2^m
  /\ \A m, n \in 0 .. XLEN : m + n <= XLEN => 2^(m + n) = 2^m * 2^n
<1>1. XLEN \in Nat \ {0}
  BY AluWidth
<1>2. \A m \in 0 .. XLEN : 2^m \in Nat \ {0}
  <2> SUFFICES ASSUME NEW m \in 0 .. XLEN
               PROVE  2^m \in Nat \ {0}
    OBVIOUS
  <2>1. CASE m = XLEN
    BY <2>1, AluBits DEF W
  <2>2. CASE m \in 0 .. XLEN - 1
    BY <2>2, AluWidth
  <2> QED BY <1>1, <2>1, <2>2
<1>3. ASSUME NEW m \in 0 .. XLEN - 1
      PROVE  2^(m + 1) = 2 * 2^m
  <2>1. m \in 0 .. XLEN /\ 1 \in 0 .. XLEN /\ 1 + m <= XLEN /\ 1 + m = m + 1
    BY <1>1
  <2>2. 2^(1 + m) = 2^1 * 2^m
    BY <2>1, AluPowers
  <2> QED BY <2>1, <2>2, InsnPowers
<1> QED BY <1>2, <1>3, AluPowers

\* Truncation keeps the bits of the word.
LEMMA TruncatedBits ==
  ASSUME NEW v \in Int, NEW k \in 0 .. XLEN - 1
  PROVE  Bit(Unsigned(v), k) = Bit(v, k)
<1> DEFINE q == v \div W
           r == v % W
           P == 2^k
           n == XLEN - 1 - k
           R == 2^n
<1>1. W \in Nat \ {0} /\ XLEN \in Nat \ {0} /\ P \in Nat \ {0}
  BY AluBits, AluWidth
<1>2. q \in Int /\ r \in Int /\ v = r + W * q
  BY <1>1
<1>3. n \in 0 .. XLEN - 1 /\ n + 1 \in 0 .. XLEN /\ k \in 0 .. XLEN /\ k + (n + 1) = XLEN
  BY <1>1
<1>4. W = P * (2 * R) /\ R \in Nat \ {0}
  <2> HIDE DEF n
  <2>1. 2^(k + (n + 1)) = 2^k * 2^(n + 1)
    <3>1. k + (n + 1) <= XLEN
      BY <1>1, <1>3
    <3> QED BY <1>3, <3>1, RegisterPowers
  <2>2. 2^(n + 1) = 2 * 2^n /\ 2^n \in Nat \ {0}
    BY <1>3, AluWidth, RegisterPowers
  <2> QED BY <1>3, <2>1, <2>2 DEF W
<1> HIDE DEF q, r, P, n, R
<1> DEFINE t == R * q
<1>5. t \in Int /\ 2 * t \in Int /\ W * q = P * (2 * t)
  <2>1. \A x, y, z \in Int : (x * (2 * y)) * z = x * (2 * (y * z)) /\ y * z \in Int
    OBVIOUS
  <2> QED BY <1>1, <1>2, <1>4, <2>1
<1> HIDE DEF t
<1>6. (r + P * (2 * t)) \div P = (r \div P) + 2 * t
  <2> DEFINE u == 2 * t
  <2>1. u \in Int
    BY <1>5
  <2> HIDE DEF u
  <2>2. (r + P * u) \div P = r \div P + u
    BY ONLY <1>1, <1>2, <2>1, WholeTurns, Zenon
  <2> QED BY <2>2 DEF u
<1> DEFINE s == r \div P
<1>7. s \in Int
  BY <1>1, <1>2
<1> HIDE DEF s
<1>8. (s + 2 * t) % 2 = s % 2
  BY <1>5, <1>7
<1>9. (v \div P) % 2 = s % 2
  BY <1>2, <1>5, <1>6, <1>8 DEF s
<1> QED BY <1>9 DEF Bit, Unsigned, s, r, P

\* A shift to the left moves bit k - n to bit k.
LEMMA LeftBits ==
  ASSUME NEW x \in Int, NEW n \in 0 .. XLEN - 1, NEW k \in 0 .. XLEN - 1
  PROVE  Bit(ShiftLeft(x, n), k) = IF k < n THEN 0 ELSE Bit(x, k - n)
<1> DEFINE N == 2^n
           K == 2^k
<1>1. XLEN \in Nat \ {0} /\ N \in Nat \ {0} /\ K \in Nat \ {0}
  BY AluWidth
<1>2. Bit(ShiftLeft(x, n), k) = ((x * N) \div K) % 2
  <2>1. x * N \in Int
    BY <1>1
  <2> HIDE DEF N
  <2>2. Bit(Unsigned(x * N), k) = Bit(x * N, k)
    BY ONLY <2>1, k \in 0 .. XLEN - 1, TruncatedBits, Zenon
  <2> QED BY <2>2 DEF ShiftLeft, Bit, N
<1>3. CASE k < n
  <2> DEFINE m == n - 1 - k
             M == 2^m
  <2>1. m \in 0 .. XLEN - 1 /\ m + 1 \in 0 .. XLEN /\ k \in 0 .. XLEN /\ k + (m + 1) = n
        /\ k + (m + 1) <= XLEN
    BY <1>1, <1>3
  <2>2. N = K * (2 * M) /\ M \in Nat
    <3> HIDE DEF m
    <3>1. 2^(k + (m + 1)) = 2^k * 2^(m + 1)
      BY <2>1, RegisterPowers
    <3>2. 2^(m + 1) = 2 * 2^m /\ 2^m \in Nat
      BY <2>1, AluWidth, RegisterPowers
    <3> QED BY <2>1, <3>1, <3>2
  <2> HIDE DEF m, M, N, K
  <2> DEFINE t == x * M
  <2>3. t \in Int /\ 2 * t \in Int /\ x * N = K * (2 * t)
    <3>1. \A w, y, z \in Int : w * (y * (2 * z)) = y * (2 * (w * z)) /\ w * z \in Int
      OBVIOUS
    <3> QED BY <1>1, <2>2, <3>1
  <2> HIDE DEF t
  <2>4. (K * (2 * t)) \div K = 2 * t
    <3> DEFINE u == 2 * t
               z == K * u
    <3>1. u \in Int /\ z \in Int
      BY <1>1, <2>3
    <3> HIDE DEF u
    <3>2. z = K * u
      OBVIOUS
    <3> HIDE DEF z
    <3>3. z \div K = u
      BY <1>1, <3>1, <3>2, DivisionExact
    <3> QED BY <3>3 DEF u, z
  <2>5. (2 * t) % 2 = 0
    BY <2>3
  <2> QED BY <1>2, <1>3, <2>3, <2>4, <2>5
<1>4. CASE ~(k < n)
  <2> DEFINE m == k - n
             M == 2^m
  <2>1. m \in 0 .. XLEN /\ m \in 0 .. XLEN - 1 /\ n \in 0 .. XLEN /\ n + m = k /\ n + m <= XLEN
    BY <1>1, <1>4
  <2>2. K = N * M /\ M \in Nat \ {0}
    <3> HIDE DEF m
    <3>1. 2^(n + m) = 2^n * 2^m
      BY <2>1, RegisterPowers
    <3>2. 2^m \in Nat \ {0}
      BY <2>1, AluWidth
    <3> QED BY <2>1, <3>1, <3>2
  <2> HIDE DEF m, M, N, K
  <2> DEFINE y == x * N
  <2>3. y \in Int /\ y = N * x
    BY <1>1
  <2>4. y \div N = x
    BY <1>1, <2>3, DivisionExact
  <2> HIDE DEF y
  <2>5. y \div (N * M) = (y \div N) \div M
    BY ONLY <1>1, <2>2, <2>3, DividedTwice, Zenon
  <2>6. (y \div K) % 2 = (x \div M) % 2
    BY <2>2, <2>4, <2>5
  <2> QED BY <1>2, <1>4, <2>6 DEF Bit, y, M, m
<1> QED BY <1>3, <1>4

\* A shift to the right moves bit k + n to bit k; from above the word come the bits of
\* the quotient by W.
LEMMA RightBits ==
  ASSUME NEW x \in Int, NEW n \in 0 .. XLEN - 1, NEW k \in 0 .. XLEN - 1
  PROVE  /\ k + n < XLEN => Bit(x \div 2^n, k) = Bit(x, k + n)
         /\ ~(k + n < XLEN) => \E d \in Nat \ {0} : Bit(x \div 2^n, k) = ((x \div W) \div d) % 2
<1> DEFINE N == 2^n
           K == 2^k
<1>1. XLEN \in Nat \ {0} /\ N \in Nat \ {0} /\ K \in Nat \ {0} /\ n \in 0 .. XLEN
      /\ k \in 0 .. XLEN
  BY AluWidth
<1>2. ASSUME k + n < XLEN
      PROVE  Bit(x \div 2^n, k) = Bit(x, k + n)
  <2>1. 2^(n + k) = N * K
    <3>1. n + k <= XLEN
      BY <1>1, <1>2
    <3> QED BY <1>1, <3>1, RegisterPowers
  <2>2. n + k = k + n
    BY <1>1
  <2> HIDE DEF N, K
  <2>3. x \div (N * K) = (x \div N) \div K
    BY ONLY <1>1, x \in Int, DividedTwice, Zenon
  <2> QED BY <2>1, <2>2, <2>3 DEF Bit, N, K
<1>3. ASSUME ~(k + n < XLEN)
      PROVE  \E d \in Nat \ {0} : Bit(x \div 2^n, k) = ((x \div W) \div d) % 2
  <2> DEFINE m == XLEN - n
             j == k - m
             M == 2^m
             J == 2^j
  <2>1. /\ m \in 0 .. XLEN /\ j \in 0 .. XLEN /\ j \in 0 .. XLEN - 1 /\ m + j = k
        /\ m + j <= XLEN /\ n + m = XLEN /\ n + m <= XLEN
    BY <1>1, <1>3
  <2>2. M \in Nat \ {0} /\ J \in Nat \ {0}
    <3> HIDE DEF m, j
    <3> QED BY <2>1, RegisterPowers
  <2>3. K = M * J /\ W = N * M
    <3> HIDE DEF m, j
    <3>1. 2^(m + j) = 2^m * 2^j
      BY <2>1, RegisterPowers
    <3>2. 2^(n + m) = 2^n * 2^m
      BY <1>1, <2>1, RegisterPowers
    <3> QED BY <2>1, <3>1, <3>2 DEF W
  <2> HIDE DEF m, j, M, J, N, K
  <2> DEFINE y == x \div N
  <2>4. y \in Int
    BY <1>1
  <2>5. x \div (N * M) = (x \div N) \div M
    BY ONLY <1>1, <2>2, x \in Int, DividedTwice, Zenon
  <2> HIDE DEF y
  <2>6. y \div (M * J) = (y \div M) \div J
    BY ONLY <2>2, <2>4, DividedTwice, Zenon
  <2>7. y \div K = (x \div W) \div J
    BY <2>3, <2>5, <2>6 DEF y
  <2>8. Bit(x \div 2^n, k) = ((x \div W) \div J) % 2
    BY <2>7 DEF Bit, y, N, K
  <2> QED BY <2>2, <2>8
<1> QED BY <1>2, <1>3

\* The register shifts.
LEMMA Shifts == a \in Value /\ b \in Value => ShiftsMoveBits
<1> SUFFICES ASSUME a \in Value, b \in Value
             PROVE  ShiftsMoveBits
  OBVIOUS
<1> DEFINE n == Shamt(b)
           s == Signed(a)
           H == W \div 2
<1>1. XLEN \in Nat \ {0} /\ W \in Nat \ {0} /\ a \in Int /\ 0 <= a /\ a < W /\ b \in Int
  BY AluWidth, AluBits DEF Value
<1>2. n \in 0 .. XLEN - 1
  BY <1>1 DEF Shamt
<1>3. s \in Int /\ Unsigned(s) = a /\ (s < 0 <=> H <= a)
  BY SignedRange
<1>4. /\ RResult(0, 1, a, b) = ShiftLeft(a, n) /\ RResult(0, 5, a, b) = a \div 2^n
      /\ RResult(\h20, 5, a, b) = Unsigned(s \div 2^n)
  BY DEF RResult, BaseResult, SubOrSra, ShiftRight, ShiftRightSigned
<1>5. H \in Int /\ W = 2 * H /\ 0 < H /\ H = 2^(XLEN - 1)
  <2>1. H \in Int /\ W = 2 * H /\ 0 < H
    BY Halves, AluBits
  <2>2. W = 2 * 2^(XLEN - 1) /\ 2^(XLEN - 1) \in Nat
    <3> DEFINE m == XLEN - 1
    <3>1. m \in 0 .. XLEN - 1 /\ m + 1 = XLEN
      BY <1>1
    <3> HIDE DEF m
    <3>2. 2^(m + 1) = 2 * 2^m /\ 2^m \in Nat
      BY <3>1, AluWidth, RegisterPowers
    <3> QED BY <3>1, <3>2 DEF W, m
  <2> HIDE DEF H
  <2> QED BY <2>1, <2>2
<1>6. -W <= s /\ s < W
  BY <1>1 DEF Signed
<1> HIDE DEF n, s, H
<1>7. ASSUME NEW k \in 0 .. XLEN - 1
      PROVE  /\ Bit(ShiftLeft(a, n), k) = IF k < n THEN 0 ELSE Bit(a, k - n)
             /\ Bit(a \div 2^n, k) = IF k + n < XLEN THEN Bit(a, k + n) ELSE 0
             /\ Bit(Unsigned(s \div 2^n), k)
                  = Bit(a, IF k + n < XLEN THEN k + n ELSE XLEN - 1)
  <2>1. Bit(ShiftLeft(a, n), k) = IF k < n THEN 0 ELSE Bit(a, k - n)
    BY ONLY <1>1, <1>2, k \in 0 .. XLEN - 1, LeftBits, Zenon
  <2>2. /\ k + n < XLEN => Bit(a \div 2^n, k) = Bit(a, k + n)
        /\ ~(k + n < XLEN) => \E d \in Nat \ {0} : Bit(a \div 2^n, k) = ((a \div W) \div d) % 2
    BY ONLY <1>1, <1>2, k \in 0 .. XLEN - 1, RightBits, Zenon
  <2>3. ~(k + n < XLEN) => Bit(a \div 2^n, k) = 0
    <3>1. a \div W = 0
      BY <1>1
    <3>2. \A d \in Nat \ {0} : (0 \div d) % 2 = 0
      OBVIOUS
    <3> QED BY <2>2, <3>1, <3>2
  <2>4. Bit(Unsigned(s \div 2^n), k) = Bit(s \div 2^n, k)
    <3>1. s \div 2^n \in Int
      <4>1. 2^n \in Nat \ {0}
        BY <1>2, AluWidth
      <4> QED BY <1>3, <4>1
    <3> QED BY ONLY <3>1, k \in 0 .. XLEN - 1, TruncatedBits, Zenon
  <2>5. /\ k + n < XLEN => Bit(s \div 2^n, k) = Bit(s, k + n)
        /\ ~(k + n < XLEN) => \E d \in Nat \ {0} : Bit(s \div 2^n, k) = ((s \div W) \div d) % 2
    BY ONLY <1>2, <1>3, k \in 0 .. XLEN - 1, RightBits, Zenon
  <2>6. ASSUME k + n < XLEN
        PROVE  Bit(s, k + n) = Bit(a, k + n)
    <3> DEFINE j == k + n
    <3>1. j \in 0 .. XLEN - 1
      BY <1>1, <1>2, <2>6
    <3> HIDE DEF j
    <3>2. Bit(Unsigned(s), j) = Bit(s, j)
      BY ONLY <1>3, <3>1, TruncatedBits, Zenon
    <3> QED BY <1>3, <3>2 DEF j
  <2>7. ASSUME ~(k + n < XLEN)
        PROVE  Bit(s \div 2^n, k) = Bit(a, XLEN - 1)
    <3>1. Bit(a, XLEN - 1) = IF s < 0 THEN 1 ELSE 0
      <4>1. a \div H = IF H <= a THEN 1 ELSE 0
        BY <1>1, <1>5
      <4>2. Bit(a, XLEN - 1) = (a \div H) % 2
        BY <1>5 DEF Bit
      <4> QED BY <1>3, <4>1, <4>2
    <3>2. s \div W = IF s < 0 THEN -1 ELSE 0
      BY <1>1, <1>3, <1>6
    <3>3. \A d \in Nat \ {0} : (0 \div d) % 2 = 0 /\ ((-1) \div d) % 2 = 1
      <4> SUFFICES ASSUME NEW d \in Nat \ {0}
                   PROVE  0 \div d = 0 /\ (-1) \div d = -1
        OBVIOUS
      <4>1. d - 1 \in 0 .. d - 1 /\ d * (-1) + (d - 1) = -1 /\ -1 \in Int
        OBVIOUS
      <4>2. (d * (-1) + (d - 1)) \div d = -1
        BY <4>1, DivisionUnique
      <4> QED BY <4>1, <4>2
    <3>4. PICK d \in Nat \ {0} : Bit(s \div 2^n, k) = ((s \div W) \div d) % 2
      BY <2>5, <2>7
    <3> QED BY <3>1, <3>2, <3>3, <3>4
  <2> QED BY <2>1, <2>2, <2>3, <2>4, <2>5, <2>6, <2>7
<1>8. b % XLEN = n
  BY DEF n, Shamt
<1> QED BY <1>4, <1>7, <1>8 DEF ShiftsMoveBits

\* The operations of the instruction set are related as arithmetic relates them.
THEOREM OperationsRelated == InsnSpec => []OperationsAgree
<1>1. InsnInv => OperationsAgree
  BY Divisions, Products, Shifts, ImmediatesInRegisters, Orders DEF InsnInv, OperationsAgree
<1> QED BY <1>1, InsnAssembled, PTL
=============================================================================
