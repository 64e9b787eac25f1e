------------------------------- MODULE Memory -------------------------------
(***************************************************************************)
(* The simulated memory of memory.c: a table of pages that are allocated   *)
(* on first touch, each an array of 32-bit words, read and written as      *)
(* words, halfwords and bytes.                                             *)
(*                                                                         *)
(* A word is its four byte lanes, lane 0 the least significant: a mask     *)
(* such as 0xffff00ff selects lanes and a shift by 8, 16 or 24 moves data  *)
(* between them.  Like the C functions, the operators take the memory as   *)
(* an argument; a function that changes it returns the changed table.      *)
(***************************************************************************)
EXTENDS Integers

CONSTANTS
  NPages,     \* entries of the page table (0x10000)
  PageWords,  \* words of a page (0x4000)
  Byte,       \* the values of a byte
  Zero,       \* the byte that calloc leaves
  NULL        \* the entry of a page that is not allocated

ASSUME MemoryAssumption ==
  /\ NPages \in Nat \ {0}
  /\ PageWords \in Nat \ {0}
  /\ Zero \in Byte
  /\ NULL \notin [0 .. PageWords - 1 -> [0 .. 3 -> Byte]]

Lane == 0 .. 3
Word == [Lane -> Byte]
PageIndex == 0 .. PageWords - 1
Page == [PageIndex -> Word]
PageTable == [0 .. NPages - 1 -> Page \cup {NULL}]

\* The 2^32 byte addresses: the page table covers them all.
Addr == 0 .. 4 * PageWords * NPages - 1

\* Mutants: calloc of a quarter of a page, and a half chosen by bit 0.
QuarterPage == [i \in 0 .. (PageWords \div 4) - 1 |-> [l \in Lane |-> Zero]]
FirstLaneBitZero(addr) == IF addr % 2 = 0 THEN 0 ELSE 2

ZeroWord == [l \in Lane |-> Zero]
ZeroPage == [i \in PageIndex |-> ZeroWord]

PageNumber(addr) == (addr \div (4 * PageWords)) % NPages
WordIndex(addr) == (addr \div 4) % PageWords
Aligned(addr, bytes) == addr % bytes = 0

memory_create == [p \in 0 .. NPages - 1 |-> NULL]

\* Mutant: the page is allocated again at every touch.
get_page_always(mem, addr) == [mem EXCEPT ![PageNumber(addr)] = ZeroPage]

\* The memory once the page of addr is allocated.
get_page(mem, addr) ==
  [mem EXCEPT ![PageNumber(addr)] = IF @ = NULL THEN ZeroPage ELSE @]

WordAt(mem, addr) == get_page(mem, addr)[PageNumber(addr)][WordIndex(addr)]

SetWordAt(mem, addr, word) ==
  LET page == get_page(mem, addr)[PageNumber(addr)]
  IN  [mem EXCEPT ![PageNumber(addr)] = [page EXCEPT ![WordIndex(addr)] = word]]

\* The byte at an address, found without changing the memory: a page that was
\* never touched reads as zero.
ByteAt(mem, addr) ==
  IF mem[PageNumber(addr)] = NULL THEN Zero
  ELSE mem[PageNumber(addr)][WordIndex(addr)][addr % 4]

\* Bit 1 of the address chooses the half of the word.
FirstLane(addr) == IF (addr \div 2) % 2 = 0 THEN 0 ELSE 2

-----------------------------------------------------------------------------
\* The accesses, for an address that passed the alignment check.

memory_wr_w(mem, addr, data) == SetWordAt(mem, addr, data)

memory_wr_h(mem, addr, data) ==
  SetWordAt(mem, addr, [WordAt(mem, addr) EXCEPT ![FirstLane(addr)] = data[0],
                                                 ![FirstLane(addr) + 1] = data[1]])

\* Mutant: every byte goes to lane 0.
memory_wr_b_low(mem, addr, data) ==
  SetWordAt(mem, addr, [WordAt(mem, addr) EXCEPT ![0] = data[0]])

memory_wr_b(mem, addr, data) ==
  SetWordAt(mem, addr, [WordAt(mem, addr) EXCEPT ![addr % 4] = data[0]])

memory_rd_w(mem, addr) == WordAt(mem, addr)

memory_rd_h(mem, addr) ==
  [ZeroWord EXCEPT ![0] = WordAt(mem, addr)[FirstLane(addr)],
                   ![1] = WordAt(mem, addr)[FirstLane(addr) + 1]]

memory_rd_b(mem, addr) == [ZeroWord EXCEPT ![0] = WordAt(mem, addr)[addr % 4]]
=============================================================================
