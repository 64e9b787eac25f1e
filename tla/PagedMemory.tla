---------------------------- MODULE PagedMemory -----------------------------
(***************************************************************************)
(* memory.c as a machine: its callers read and write words, halfwords and  *)
(* bytes in any order.  A misaligned access ends the process; the writes   *)
(* test the address before they touch a page, the reads after.  A page     *)
(* that the host cannot allocate is dereferenced as NULL.                  *)
(***************************************************************************)
EXTENDS Memory

CONSTANTS
  Accessed,  \* the addresses the program uses
  Data       \* the words it writes

ASSUME AccessAssumption == Accessed \subseteq Addr /\ Data \subseteq Word

VARIABLES
  pages,     \* struct memory
  last,      \* the last call, with the word it wrote or returned
  status     \* "running", "exited", "crashed" or "deleted"

vars == <<pages, last, status>>

Call(op, n, addr, value) == [op |-> op, bytes |-> n, addr |-> addr, value |-> value]

Init ==
  /\ pages = memory_create
  /\ last = Call("create", 1, 0, ZeroWord)
  /\ status = "running"

\* The two halves of a write: exit(-1), or the store.
Write(n, addr, data, written) ==
  /\ last' = Call("write", n, addr, data)
  /\ \/ /\ ~Aligned(addr, n)
        /\ status' = "exited"
        /\ UNCHANGED pages
     \/ /\ Aligned(addr, n)
        /\ pages' = written
        /\ UNCHANGED status

WriteWord(addr, data) == Write(4, addr, data, memory_wr_w(pages, addr, data))
WriteHalf(addr, data) == Write(2, addr, data, memory_wr_h(pages, addr, data))
WriteByte(addr, data) == Write(1, addr, data, memory_wr_b(pages, addr, data))

\* A read asks for the page before it finds the address misaligned; it does not
\* notice then if the page could not be allocated.
Read(n, addr, value) ==
  \/ /\ ~Aligned(addr, n)
     /\ pages' \in {pages, get_page(pages, addr)}
     /\ status' = "exited"
     /\ last' = Call("read", n, addr, ZeroWord)
  \/ /\ Aligned(addr, n)
     /\ pages' = get_page(pages, addr)
     /\ last' = Call("read", n, addr, value)
     /\ UNCHANGED status

ReadWord(addr) == Read(4, addr, memory_rd_w(pages, addr))
ReadHalf(addr) == Read(2, addr, memory_rd_h(pages, addr))
ReadByte(addr) == Read(1, addr, memory_rd_b(pages, addr))

\* calloc returns NULL for the page of an access that goes on to use it.
NoHostMemory(addr) ==
  /\ pages[PageNumber(addr)] = NULL
  /\ status' = "crashed"
  /\ UNCHANGED <<pages, last>>

\* Frees every page and the table; nothing uses the memory afterwards.
memory_delete ==
  /\ pages' = [p \in 0 .. NPages - 1 |-> NULL]
  /\ status' = "deleted"
  /\ UNCHANGED last

Access(addr) ==
  \/ \E data \in Data : \/ WriteWord(addr, data)
                        \/ WriteHalf(addr, data)
                        \/ WriteByte(addr, data)
  \/ ReadWord(addr)
  \/ ReadHalf(addr)
  \/ ReadByte(addr)
  \/ NoHostMemory(addr)

Next ==
  /\ status = "running"
  /\ (\E addr \in Accessed : Access(addr)) \/ memory_delete

Spec == Init /\ [][Next]_vars

-----------------------------------------------------------------------------
\* Every page is absent or a full page of words, and the last value a word.
\* This is the typing of struct memory and of the values memory_rd_* return.
TypeOK ==
  /\ pages \in PageTable
  /\ last \in [op : {"create", "read", "write"}, bytes : {1, 2, 4}, addr : Addr,
               value : Word]
  /\ status \in {"running", "exited", "crashed", "deleted"}

\* Paging, lane masking and lazy allocation cannot be observed: whatever mix
\* of widths and addresses its callers use, memory.c behaves as the flat byte
\* array that memory.h promises (FlatMemory).
Flat == INSTANCE FlatMemory WITH
          Size <- 4 * PageWords * NPages,
          bytes <- [addr \in Addr |-> ByteAt(pages, addr)]

FlatSpec == Flat!FlatSpec
=============================================================================
