-------------------------------- MODULE Bits --------------------------------
(***************************************************************************)
(* The bitwise operators of C on unsigned words.  They are parameters: the *)
(* proofs use only their range, the models give them their values.         *)
(***************************************************************************)
CONSTANTS
  BitAnd(_, _),  \* &
  BitOr(_, _),   \* |
  BitXor(_, _)   \* ^
=============================================================================
