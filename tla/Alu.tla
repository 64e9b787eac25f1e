-------------------------------- MODULE Alu ---------------------------------
(***************************************************************************)
(* The arithmetic of simulate.c: what an R-type, I-type or branch          *)
(* instruction computes from two register values, which are unsigned       *)
(* XLEN-bit integers, as cpu.registers holds them, and what a load makes   *)
(* of the bytes it reads.                                                  *)
(***************************************************************************)
EXTENDS Integers, Bits

CONSTANTS
  XLEN,    \* bits of a register (32)
  ByteMod  \* values of a byte (256)

ASSUME AluWidth ==
  /\ XLEN \in Nat \ {0}
  /\ \A n \in 0 .. XLEN - 1 : 2^n \in Nat \ {0}

\* The number of values of a register.
W == 2^XLEN
Value == 0 .. W - 1

ASSUME AluBits ==
  /\ W \in Nat /\ W > 1
  /\ \A a, b \in Value : {BitAnd(a, b), BitOr(a, b), BitXor(a, b)} \subseteq Value

ASSUME AluBytes ==
  /\ ByteMod \in Nat \ {0}
  /\ W = ByteMod * ByteMod * ByteMod * ByteMod

\* The casts (int32_t) and (uint32_t).
Signed(a) == IF 2 * a >= W THEN a - W ELSE a
Unsigned(v) == v % W

Bool(p) == IF p THEN 1 ELSE 0

Shamt(b) == b % XLEN

ShiftLeft(a, n) == Unsigned(a * 2^n)
ShiftRight(a, n) == a \div 2^n
ShiftRightSigned(a, n) == Unsigned(Signed(a) \div 2^n)

\* Mutant: a quotient rounded down.
QuotientFloor(v, w) == IF w > 0 THEN v \div w ELSE (-v) \div (-w)

\* C divides towards zero.
Magnitude(v) == IF v < 0 THEN -v ELSE v
Quotient(v, w) ==
  IF (v < 0) = (w < 0) THEN Magnitude(v) \div Magnitude(w)
                       ELSE -(Magnitude(v) \div Magnitude(w))
Remainder(v, w) == v - w * Quotient(v, w)

\* The divisions C leaves undefined: by zero, and INT_MIN by -1.
Undefined(funct3, a, b) ==
  \/ b = 0
  \/ funct3 \in {4, 6} /\ Signed(a) = -(W \div 2) /\ Signed(b) = -1

\* What a host that does not trap leaves for them.
UndefinedResult(funct3, a, b) ==
  CASE funct3 = 4 -> IF b = 0 THEN 0 ELSE a
    [] funct3 = 5 -> 0
    [] funct3 = 6 -> IF b = 0 THEN a ELSE 0
    [] funct3 = 7 -> a

DivisionResult(funct3, a, b) ==
  CASE funct3 = 4 -> Unsigned(Quotient(Signed(a), Signed(b)))
    [] funct3 = 5 -> a \div b
    [] funct3 = 6 -> Unsigned(Remainder(Signed(a), Signed(b)))
    [] funct3 = 7 -> a % b

\* All three high products (mulh, mulsu, mulu) multiply the unsigned register
\* values: the casts to int64_t come after they have been read as unsigned.
ProductResult(funct3, a, b) ==
  IF funct3 = 0 THEN Unsigned(a * b) ELSE (a * b) \div W

\* The encodings that execute_r_type acts on: funct7 selects the operations of
\* the base set, its sub and sra, or the multiplications and divisions.
RKnown(funct7, funct3) ==
  \/ funct7 \in {0, 1} /\ funct3 \in 0 .. 7
  \/ funct7 = \h20 /\ funct3 \in {0, 5}

IsDivision(funct7, funct3) == funct7 = 1 /\ funct3 \in 4 .. 7

BaseResult(funct3, a, b) ==
  CASE funct3 = 0 -> Unsigned(a + b)
    [] funct3 = 1 -> ShiftLeft(a, Shamt(b))
    [] funct3 = 2 -> Bool(Signed(a) < Signed(b))
    [] funct3 = 3 -> Bool(a < b)
    [] funct3 = 4 -> BitXor(a, b)
    [] funct3 = 5 -> ShiftRight(a, Shamt(b))
    [] funct3 = 6 -> BitOr(a, b)
    [] funct3 = 7 -> BitAnd(a, b)

SubOrSra(funct3, a, b) ==
  IF funct3 = 0 THEN Unsigned(a - b) ELSE ShiftRightSigned(a, Shamt(b))

RResult(funct7, funct3, a, b) ==
  IF funct7 = 0 THEN BaseResult(funct3, a, b)
  ELSE IF funct7 = \h20 THEN SubOrSra(funct3, a, b)
  ELSE IF funct3 < 4 THEN ProductResult(funct3, a, b)
  ELSE IF Undefined(funct3, a, b) THEN UndefinedResult(funct3, a, b)
  ELSE DivisionResult(funct3, a, b)

\* Immediate operands.  The shifts take the whole immediate, not its low five
\* bits: the hosts shift by it modulo XLEN.  There is no srai: srli runs.
IResult(funct3, a, imm) ==
  CASE funct3 = 0 -> Unsigned(a + imm)
    [] funct3 = 1 -> ShiftLeft(a, imm % XLEN)
    [] funct3 = 2 -> Bool(Signed(a) < imm)
    [] funct3 = 3 -> Bool(a < Unsigned(imm))
    [] funct3 = 4 -> BitXor(a, Unsigned(imm))
    [] funct3 = 5 -> ShiftRight(a, imm % XLEN)
    [] funct3 = 6 -> BitOr(a, Unsigned(imm))
    [] funct3 = 7 -> BitAnd(a, Unsigned(imm))

\* Loads and stores: funct3 holds the width, and for a load its bit 2 says that the
\* value is not sign-extended.
Bytes(funct3) == 2^(funct3 % 4)

LoadKnown(funct3) == funct3 \in {0, 1, 2, 4, 5}
StoreKnown(funct3) == funct3 \in {0, 1, 2}

\* The casts to int8_t and int16_t.
Extend(v, values) == IF 2 * v >= values THEN Unsigned(v - values) ELSE v

\* What a load leaves in its register, for the unsigned value of the bytes it reads.
LoadResult(funct3, v) ==
  CASE funct3 = 0 -> Extend(v, ByteMod)
    [] funct3 = 1 -> Extend(v, ByteMod * ByteMod)
    [] funct3 \in {2, 4, 5} -> v

\* Mutant: no case for beq.
BranchKnownButBeq(funct3) == funct3 \in {1, 4, 5, 6, 7}

\* The conditions of beq, bne, blt, bge, bltu and bgeu.
BranchKnown(funct3) == funct3 \in {0, 1, 4, 5, 6, 7}

Holds(funct3, a, b) ==
  CASE funct3 = 0 -> a = b
    [] funct3 = 1 -> a # b
    [] funct3 = 4 -> Signed(a) < Signed(b)
    [] funct3 = 5 -> Signed(a) >= Signed(b)
    [] funct3 = 6 -> a < b
    [] funct3 = 7 -> a >= b
=============================================================================
