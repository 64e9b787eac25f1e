---------------------------- MODULE BlockStore ------------------------------
(***************************************************************************)
(* What an allocator promises: blocks that lie in the heap and share no    *)
(* byte, each as large as was asked for, until they are released.          *)
(***************************************************************************)
EXTENDS Integers

CONSTANTS
  Addresses,  \* of the bytes of the heap
  Sizes,      \* what is asked for
  MaxSize,    \* the largest block that is given
  None        \* returned instead of a block

VARIABLES
  live,  \* the blocks in use: their addresses and sizes
  last   \* the last call, and what it returned

vars == <<live, last>>

Bytes(block) == block.addr .. block.addr + block.size - 1

Init == live = {} /\ last = [call |-> "none", size |-> 0, ptr |-> None]

Allocate(size) ==
  \/ /\ size \in 1 .. MaxSize
     /\ \E addr \in Addresses :
          LET block == [addr |-> addr, size |-> size]
          IN  /\ live' = live \cup {block}
              /\ Bytes(block) \subseteq Addresses
              /\ \A other \in live : Bytes(block) \cap Bytes(other) = {}
              /\ last' = [call |-> "allocate", size |-> size, ptr |-> addr]
  \/ /\ size \notin 1 .. MaxSize
     /\ last' = [call |-> "allocate", size |-> size, ptr |-> None]
     /\ UNCHANGED live

Release(block) ==
  /\ live' = live \ {block}
  /\ last' = [call |-> "release", size |-> block.size, ptr |-> block.addr]

Next == (\E size \in Sizes : Allocate(size)) \/ (\E block \in live : Release(block))

Spec == Init /\ [][Next]_vars
=============================================================================
