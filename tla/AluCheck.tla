------------------------------ MODULE AluCheck ------------------------------
(***************************************************************************)
(* Two operands, and what the operations of Alu do to them, compared with  *)
(* definitions that do not use the same arithmetic.                        *)
(***************************************************************************)
EXTENDS Alu

VARIABLES a, b  \* the two operands

ASSUME AluPowers == \A m, n \in 0 .. XLEN : m + n <= XLEN => 2^(m + n) = 2^m * 2^n

\* The immediates that a register can hold.
Immediates == -(W \div 2) .. (W \div 2) - 1

-----------------------------------------------------------------------------
\* div with rem, and divu with remu, satisfy the division identity; the signed
\* remainder is smaller than the divisor and has the sign of the dividend.
DivisionIdentity ==
  LET sa == Signed(a)
      sb == Signed(b)
      q == Signed(RResult(1, 4, a, b))
      r == Signed(RResult(1, 6, a, b))
  IN  /\ ~Undefined(4, a, b)
           => /\ q * sb + r = sa
              /\ Magnitude(r) < Magnitude(sb)
              /\ r = 0 \/ (r < 0) = (sa < 0)
      /\ ~Undefined(5, a, b)
           => /\ RResult(1, 5, a, b) * b + RResult(1, 7, a, b) = a
              /\ RResult(1, 7, a, b) < b

\* mulhu and mul are the two halves of the product.
ProductHalves == RResult(1, 3, a, b) * W + RResult(1, 0, a, b) = a * b

\* The bit of a value, with zeros above the word.
Bit(v, k) == (v \div 2^k) % 2

\* The register shifts move each bit by the low bits of b; sra copies the sign.
ShiftsMoveBits ==
  LET n == b % XLEN
  IN  \A k \in 0 .. XLEN - 1 :
        /\ Bit(RResult(0, 1, a, b), k) = IF k < n THEN 0 ELSE Bit(a, k - n)
        /\ Bit(RResult(0, 5, a, b), k) = IF k + n < XLEN THEN Bit(a, k + n) ELSE 0
        /\ Bit(RResult(\h20, 5, a, b), k)
             = Bit(a, IF k + n < XLEN THEN k + n ELSE XLEN - 1)

\* An instruction with an immediate computes what its register form computes
\* from a register that holds the immediate sign-extended: also sltiu, whose
\* immediate is negative in the source and compared as unsigned.
ImmediatesAgree ==
  \A funct3 \in 0 .. 7, imm \in Immediates :
    IResult(funct3, a, imm) = RResult(0, funct3, a, Unsigned(imm))

\* The branch conditions, slt and sltu tell one story: each condition and its
\* opposite exclude each other, blt is slt, bltu is sltu, and the signed order
\* is the unsigned order with the sign bits flipped.
OrdersAgree ==
  LET sign == W \div 2
  IN  /\ \A funct3 \in {0, 4, 6} : Holds(funct3, a, b) = ~Holds(funct3 + 1, a, b)
      /\ RResult(0, 2, a, b) = Bool(Holds(4, a, b))
      /\ RResult(0, 3, a, b) = Bool(Holds(6, a, b))
      /\ Holds(4, a, b) = Holds(6, Unsigned(a + sign), Unsigned(b + sign))
      /\ RResult(\h20, 0, a, b) = 0 <=> Holds(0, a, b)

\* simulate.c:9-136 and its branch conditions: the operations of the instruction set,
\* each of them a function of its own, are related as arithmetic relates them.
OperationsAgree ==
  /\ DivisionIdentity
  /\ ProductHalves
  /\ ShiftsMoveBits
  /\ ImmediatesAgree
  /\ OrdersAgree
=============================================================================
