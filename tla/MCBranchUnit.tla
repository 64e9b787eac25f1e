---------------------------- MODULE MCBranchUnit ----------------------------
(***************************************************************************)
(* Small instances of BranchUnit: tables of four entries, addresses modulo *)
(* 32, a program of three branches.                                        *)
(***************************************************************************)
EXTENDS BranchUnit

LOCAL INSTANCE Bitwise

MCAnd(a, b) == a & b
MCOr(a, b) == a | b
MCXor(a, b) == a ^^ b

\* A loop, a forward branch whose target shares entry 3 with the loop's exit, and an
\* encoding whose condition is unknown.  Entry 0 is only a target, entry 2 only a
\* fall-through, and entry 1 is never selected.
AliasingBranches ==
  {[pc |-> 8, imm |-> -8, known |-> TRUE],
   [pc |-> 4, imm |-> 8, known |-> TRUE],
   [pc |-> 24, imm |-> 12, known |-> FALSE]}
=============================================================================
