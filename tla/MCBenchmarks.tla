---------------------------- MODULE MCBenchmarks ----------------------------
(***************************************************************************)
(* Unsigned numbers modulo 53, so that arguments and results wrap, and     *)
(* sieves whose size is below, at and above the square of a prime.         *)
(***************************************************************************)
EXTENDS Benchmarks

String(digits) == Append([k \in DOMAIN digits |-> ZeroChar + digits[k]], NUL)

\* No argument; numbers, one with a leading zero, numbers above the width, one with
\* a character after 9; an empty argument, alone and in front of another one.
MCArguments ==
  {<<>>} \cup {<<String(<<d>>)>> : d \in 0 .. 9}
  \cup {<<String(digits)>> : digits \in {<<1, 0>>, <<0, 6>>, <<6, 0>>, <<1, 1, 5>>, <<10>>}}
  \cup {<<String(<<8>>), String(<<3>>)>>, <<String(<<>>)>>,
        <<String(<<>>), String(<<7>>)>>}

MCLimits == {1, 2, 3, 4, 5, 9, 10, 25, 26, 49, 50, 51}
=============================================================================
