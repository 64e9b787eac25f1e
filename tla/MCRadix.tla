------------------------------ MODULE MCRadix -------------------------------
(***************************************************************************)
(* Numbers of three bits and a sign.  A chunk has two nodes, a read brings *)
(* two numbers, two numbers are taken at a time.                           *)
(***************************************************************************)
EXTENDS Radix

\* Numbers that part at each of the bits, requests for fewer and for more numbers
\* than are taken at a time, and the smallest int.
MCNumbers == {0, 1, 2, 5, -1, -3, -8}
=============================================================================
