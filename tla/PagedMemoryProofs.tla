------------------------- MODULE PagedMemoryProofs --------------------------
(***************************************************************************)
(* The paged memory is well typed, and every step of it is a step of the   *)
(* flat memory that memory.h promises.                                     *)
(***************************************************************************)
EXTENDS PagedMemory, PartsProofs

\* The initial state is well typed.
LEMMA InitTypeOK == Init => TypeOK
BY FreshMemory, MemoryAssumption DEF Init, TypeOK, Call, Addr, ZeroWord, Word, Lane

\* Every access keeps the machine well typed.
LEMMA NextTypeOK == TypeOK /\ [Next]_vars => TypeOK'
<1> SUFFICES ASSUME TypeOK, [Next]_vars PROVE TypeOK'
  OBVIOUS
<1> USE DEF TypeOK
<1>1. ASSUME NEW addr \in Accessed, NEW data \in Data,
             \/ WriteWord(addr, data) \/ WriteHalf(addr, data) \/ WriteByte(addr, data)
      PROVE  TypeOK'
  <2>1. addr \in Addr /\ data \in Word
    BY AccessAssumption
  <2>2. CASE WriteWord(addr, data)
    BY <2>1, <2>2, WriteWordStores DEF WriteWord, Write, Call, StoresBytes
  <2>3. CASE WriteHalf(addr, data)
    BY <2>1, <2>3, WriteHalfStores DEF WriteHalf, Write, Call, StoresBytes
  <2>4. CASE WriteByte(addr, data)
    BY <2>1, <2>4, WriteByteStores DEF WriteByte, Write, Call, StoresBytes
  <2> QED BY <1>1, <2>2, <2>3, <2>4
<1>2. ASSUME NEW addr \in Accessed, ReadWord(addr) \/ ReadHalf(addr) \/ ReadByte(addr)
      PROVE  TypeOK'
  <2>1. addr \in Addr /\ get_page(pages, addr) \in PageTable
    BY AccessAssumption, GetPage
  <2>0. ZeroWord \in Word
    BY MemoryAssumption DEF ZeroWord, Word
  <2>2. ASSUME NEW n \in {1, 2, 4}, Aligned(addr, n)
        PROVE  BytesFrom(pages, addr, n) \in Word
    <3>1. ASSUME NEW x \in Addr PROVE ByteAt(pages, x) \in Byte
      BY AddressParts, MemoryAssumption DEF ByteAt, PageTable, Page, Word
    <3>2. \A l \in 0 .. n - 1 : addr + l \in Addr
      BY <2>1, <2>2, AccessFits
    <3>3. \A l \in 0 .. 3 : l < n => addr + l \in Addr
      BY <3>2
    <3> QED BY <3>1, <3>3, MemoryAssumption DEF BytesFrom, Word, Lane
  <2>3. CASE ReadWord(addr)
    BY <2>0, <2>1, <2>2, <2>3, ReadsReturn DEF ReadWord, Read, Call
  <2>4. CASE ReadHalf(addr)
    BY <2>0, <2>1, <2>2, <2>4, ReadsReturn DEF ReadHalf, Read, Call
  <2>5. CASE ReadByte(addr)
    BY <2>0, <2>1, <2>2, <2>5, ReadsReturn DEF ReadByte, Read, Call
  <2> QED BY <1>2, <2>3, <2>4, <2>5
<1>3. ASSUME NEW addr \in Accessed, NoHostMemory(addr) PROVE TypeOK'
  BY <1>3 DEF NoHostMemory
<1>4. CASE memory_delete
  BY <1>4 DEF memory_delete, PageTable
<1>5. CASE UNCHANGED vars
  BY <1>5 DEF vars
<1> QED BY <1>1, <1>2, <1>3, <1>4, <1>5 DEF Next, Access

\* The page table stays a table of absent or complete pages, and every value
\* that memory_rd_w, memory_rd_h and memory_rd_b return is a word.
THEOREM TypeCorrect == Spec => []TypeOK
<1>1. Init => TypeOK
  BY InitTypeOK
<1>2. TypeOK /\ [Next]_vars => TypeOK'
  BY NextTypeOK
<1> QED BY <1>1, <1>2, PTL DEF Spec

-----------------------------------------------------------------------------
\* A write that stores its bytes is a write of the flat memory.
LEMMA WriteRefines ==
  ASSUME TypeOK, status = "running",
         NEW addr \in Accessed, NEW data \in Data, NEW n \in {1, 2, 4}, NEW written,
         Aligned(addr, n) => StoresBytes(written, pages, addr, n, data),
         Write(n, addr, data, written)
  PROVE  Flat!FlatNext
<1>1. addr \in Addr /\ data \in Word /\ Addr = 0 .. (4 * PageWords * NPages) - 1
  BY AccessAssumption DEF Addr
<1>2. CASE ~Aligned(addr, n)
  <2>1. Flat!Misaligned(n, addr)
    BY <1>2 DEF Write, Aligned, Call, Flat!Misaligned, Flat!Call
  <2> QED BY <2>1 DEF Flat!FlatNext, Flat!Width
<1>3. CASE Aligned(addr, n)
  <2>1. StoresBytes(pages', pages, addr, n, data)
    BY <1>3 DEF Write
  <2>2. Flat!Write(n, addr, data)
    BY <1>1, <1>3, <2>1 DEF Write, Aligned, Call, StoresBytes, Flat!Write, Flat!Call
  <2> QED BY <2>2 DEF Flat!FlatNext, Flat!Width
<1> QED BY <1>2, <1>3

\* A read that returns its bytes is a read of the flat memory.
LEMMA ReadRefines ==
  ASSUME TypeOK, status = "running",
         NEW addr \in Accessed, NEW n \in {1, 2, 4}, NEW value,
         Aligned(addr, n) => value = BytesFrom(pages, addr, n),
         Read(n, addr, value)
  PROVE  Flat!FlatNext
<1>1. addr \in Addr /\ pages \in PageTable
  BY AccessAssumption DEF TypeOK
<1>2. \A x \in Addr : ByteAt(pages', x) = ByteAt(pages, x)
  BY <1>1, GetPage DEF Read
<1>3. CASE ~Aligned(addr, n)
  <2>1. Flat!Misaligned(n, addr)
    BY <1>2, <1>3 DEF Read, Aligned, Call, ZeroWord, Lane, Flat!Misaligned, Flat!Call,
                      Flat!NoBytes
  <2> QED BY <2>1 DEF Flat!FlatNext, Flat!Width
<1>4. CASE Aligned(addr, n)
  <2>1. \A l \in 0 .. 3 : l < n => addr + l \in Addr
    <3>1. \A l \in 0 .. n - 1 : addr + l \in Addr
      BY <1>1, <1>4, AccessFits
    <3> QED BY <3>1
  <2>2. Flat!Read(n, addr)
    BY <1>2, <1>4, <2>1 DEF Read, Aligned, Call, BytesFrom, Flat!Read, Flat!Call
  <2> QED BY <2>2 DEF Flat!FlatNext, Flat!Width
<1> QED BY <1>3, <1>4

\* memory.c implements the flat, zero-initialised, little-endian byte array of
\* memory.h, for every page size, page count and byte range, every address the
\* program uses and every word it writes.
THEOREM Refinement == Spec => FlatSpec
<1>1. Init => Flat!FlatInit
  <2> SUFFICES ASSUME Init PROVE Flat!FlatInit
    OBVIOUS
  <2>1. [addr \in Addr |-> ByteAt(pages, addr)]
          = [a \in 0 .. (4 * PageWords * NPages) - 1 |-> Zero]
    BY FreshMemory DEF Init, Addr
  <2> QED BY <2>1 DEF Init, Call, ZeroWord, Lane, Flat!FlatInit, Flat!Call, Flat!NoBytes
<1>2. TypeOK /\ [Next]_vars => [Flat!FlatNext]_(Flat!flatVars)
  <2> SUFFICES ASSUME TypeOK, [Next]_vars PROVE [Flat!FlatNext]_(Flat!flatVars)
    OBVIOUS
  <2>1. CASE UNCHANGED vars
    BY <2>1 DEF vars, Flat!flatVars
  <2>2. CASE Next
    <3>1. status = "running" /\ pages \in PageTable
      BY <2>2 DEF Next, TypeOK
    <3>2. ASSUME NEW addr \in Accessed, NEW data \in Data
          PROVE  /\ WriteWord(addr, data) => Flat!FlatNext
                 /\ WriteHalf(addr, data) => Flat!FlatNext
                 /\ WriteByte(addr, data) => Flat!FlatNext
      <4>1. addr \in Addr /\ data \in Word
        BY AccessAssumption
      <4>2. WriteWord(addr, data) => Flat!FlatNext
        BY <3>1, <4>1, WriteWordStores, WriteRefines DEF WriteWord
      <4>3. WriteHalf(addr, data) => Flat!FlatNext
        BY <3>1, <4>1, WriteHalfStores, WriteRefines DEF WriteHalf
      <4>4. WriteByte(addr, data) => Flat!FlatNext
        BY <3>1, <4>1, WriteByteStores, WriteRefines DEF WriteByte
      <4> QED BY <4>2, <4>3, <4>4
    <3>3. ASSUME NEW addr \in Accessed
          PROVE  /\ ReadWord(addr) => Flat!FlatNext
                 /\ ReadHalf(addr) => Flat!FlatNext
                 /\ ReadByte(addr) => Flat!FlatNext
      <4>1. addr \in Addr
        BY AccessAssumption
      <4> QED BY <3>1, <4>1, ReadsReturn, ReadRefines DEF ReadWord, ReadHalf, ReadByte
    <3>4. ASSUME NEW addr \in Accessed
          PROVE  NoHostMemory(addr) => Flat!FlatNext
      BY <3>1 DEF NoHostMemory, Flat!FlatNext, Flat!OutOfMemory
    <3>5. memory_delete => Flat!FlatNext
      <4> SUFFICES ASSUME memory_delete PROVE Flat!Delete
        BY <3>1 DEF Flat!FlatNext
      <4>1. \A x \in Addr : ByteAt(pages', x) = Zero
        BY AddressParts DEF memory_delete, ByteAt
      <4> QED BY <4>1 DEF memory_delete, Addr, Flat!Delete
    <3> QED BY <2>2, <3>2, <3>3, <3>4, <3>5 DEF Next, Access
  <2> QED BY <2>1, <2>2
<1> QED BY <1>1, <1>2, TypeCorrect, PTL DEF Spec, FlatSpec, Flat!FlatSpec
=============================================================================
