----------------------------- MODULE FlatMemory -----------------------------
(***************************************************************************)
(* What memory.h promises: one array of bytes, all zero at first.  An      *)
(* aligned access of 1, 2 or 4 bytes moves the bytes at its address and    *)
(* above, in little-endian order, a read is zero-extended, and the process *)
(* exits at a misaligned one.  There are no pages.                         *)
(***************************************************************************)
EXTENDS Integers

CONSTANTS
  Size,      \* number of bytes
  Byte,      \* the values of a byte
  Zero,      \* the value of a byte that was never written
  Accessed,  \* the addresses the program may use
  Data       \* the words it may write

VARIABLES
  bytes,     \* the contents, by address
  last,      \* the last call, with the word it wrote or returned
  status     \* "running", "exited", "crashed" or "deleted"

flatVars == <<bytes, last, status>>

Width == {1, 2, 4}

Call(op, n, addr, value) == [op |-> op, bytes |-> n, addr |-> addr, value |-> value]
NoBytes == [l \in 0 .. 3 |-> Zero]

FlatInit ==
  /\ bytes = [a \in 0 .. Size - 1 |-> Zero]
  /\ last = Call("create", 1, 0, NoBytes)
  /\ status = "running"

\* A write of n bytes changes those bytes, together, and no other byte.
Write(n, addr, data) ==
  /\ last' = Call("write", n, addr, data)
  /\ addr % n = 0
  /\ bytes' = [a \in 0 .. Size - 1 |->
                 IF a \in addr .. addr + n - 1 THEN data[a - addr] ELSE bytes[a]]
  /\ UNCHANGED status

Read(n, addr) ==
  /\ addr % n = 0
  /\ last' = Call("read", n, addr,
                  [l \in 0 .. 3 |-> IF l < n THEN bytes[addr + l] ELSE Zero])
  /\ UNCHANGED <<bytes, status>>

\* The process ends, and nothing in memory or in a register has changed.
Misaligned(n, addr) ==
  /\ addr % n # 0
  /\ status' = "exited"
  /\ \/ last' = Call("read", n, addr, NoBytes)
     \/ \E data \in Data : last' = Call("write", n, addr, data)
  /\ UNCHANGED bytes

\* The host refuses the memory for an access.
OutOfMemory ==
  /\ status' = "crashed"
  /\ UNCHANGED <<bytes, last>>

Delete ==
  /\ status' = "deleted"
  /\ bytes' = [a \in 0 .. Size - 1 |-> Zero]
  /\ UNCHANGED last

FlatNext ==
  /\ status = "running"
  /\ \/ \E n \in Width, addr \in Accessed :
          \/ \E data \in Data : Write(n, addr, data)
          \/ Read(n, addr)
          \/ Misaligned(n, addr)
     \/ OutOfMemory
     \/ Delete

FlatSpec == FlatInit /\ [][FlatNext]_flatVars
=============================================================================
