------------------------------- MODULE MCInsn -------------------------------
(***************************************************************************)
(* Words of 32 bits.  The registers, the function codes and the immediates *)
(* include, for every bit, one that has it and one that has not.  Operands *)
(* have 4 bits and take every value.                                       *)
(***************************************************************************)
EXTENDS InsnCheck

LOCAL INSTANCE Bitwise

MCAnd(v, w) == v & w
MCOr(v, w) == v | w
MCXor(v, w) == v ^^ w

MCRegs == {0, 1, 10, 21, 31}
MCFunct7s == {0, 1, \h20, 2, 4, 8, 16, 64, 127}

\* Each single bit, and its complement as a negative number.
MCImms == {0, -1} \cup {2^k : k \in 0 .. 19} \cup {-(2^k) : k \in 1 .. 20}
          \cup {\h55555, -\h15556, 1048575, 2047, 4094, \h405}
=============================================================================
