----------------------------- MODULE PartsProofs -----------------------------
(***************************************************************************)
(* What the parts do that the machines of the other modules are made of:   *)
(* the functions of memory.c, for every size of the page table, and one    *)
(* branch in the predictors, for every size of the tables.                 *)
(***************************************************************************)
EXTENDS Memory, Predictor, Lemmas

(***************************************************************************)
(* Memory: the arithmetic of addresses, then the effect of each access on  *)
(* the byte at every address.                                              *)
(***************************************************************************)

\* Dividing by 4 and then by PageWords is dividing by the bytes of a page.
LEMMA PageOfWord ==
  ASSUME NEW addr \in Nat
  PROVE  /\ addr \div (4 * PageWords) = (addr \div 4) \div PageWords
         /\ addr = 4 * (PageWords * (addr \div (4 * PageWords)) + WordIndex(addr)) + (addr % 4)
<1> DEFINE q == addr \div 4
           k == q \div PageWords
           i == q % PageWords
           l == addr % 4
           d == 4 * PageWords
<1>1. q \in Nat /\ l \in 0 .. 3 /\ addr = 4 * q + l
  OBVIOUS
<1>2. k \in Nat /\ i \in 0 .. PageWords - 1 /\ q = PageWords * k + i
  <2>1. PageWords \in Nat \ {0}
    BY MemoryAssumption
  <2> HIDE DEF q
  <2> QED BY <1>1, <2>1
<1>3. /\ 4 * i + l \in 0 .. d - 1
      /\ d \in Nat \ {0}
  BY <1>1, <1>2, MemoryAssumption
<1>4. addr = d * k + (4 * i + l)
  <2>1. 4 * (PageWords * k) = d * k
    BY <1>2, MemoryAssumption
  <2> HIDE DEF q, k, i, l, d
  <2> QED BY <1>1, <1>2, <1>3, <2>1, MemoryAssumption
<1>5. addr \div d = k
  <2> HIDE DEF q, k, i, l, d
  <2> QED BY <1>2, <1>3, <1>4, DivisionUnique
<1> QED BY <1>1, <1>2, <1>5 DEF WordIndex

\* An address names an entry of the page table, a word of the page, a lane.
LEMMA AddressParts ==
  ASSUME NEW addr \in Addr
  PROVE  /\ PageNumber(addr) \in 0 .. NPages - 1
         /\ PageNumber(addr) = addr \div (4 * PageWords)
         /\ WordIndex(addr) \in PageIndex
         /\ addr % 4 \in Lane
         /\ FirstLane(addr) \in {0, 2}
<1>1. addr \in Nat /\ NPages \in Nat \ {0} /\ PageWords \in Nat \ {0}
  BY MemoryAssumption DEF Addr
<1>2. addr \div 4 \in Nat /\ addr % 4 \in 0 .. 3
  BY <1>1
<1>3. WordIndex(addr) \in PageIndex
  BY <1>1, <1>2 DEF WordIndex, PageIndex
<1> DEFINE d == 4 * PageWords
           k == addr \div d
<1>4. d \in Nat \ {0} /\ addr < d * NPages
  BY <1>1 DEF Addr
<1>5. k \in Nat /\ d * k <= addr
  <2> HIDE DEF d
  <2> QED BY <1>1, <1>4
<1>6. k < NPages
  <2>1. SUFFICES ASSUME k >= NPages PROVE FALSE
    BY <1>1, <1>5
  <2>2. d * k >= d * NPages
    <3> HIDE DEF d, k
    <3> QED BY <1>1, <1>4, <1>5, <2>1
  <2> HIDE DEF d, k
  <2> QED BY <1>1, <1>4, <1>5, <2>2
<1>7. k % NPages = k
  <2> HIDE DEF k
  <2> QED BY <1>1, <1>5, <1>6
<1> QED BY <1>1, <1>2, <1>3, <1>5, <1>6, <1>7 DEF PageNumber, Lane, FirstLane

\* Two addresses share a stored word exactly when they agree above bit 1.
LEMMA SameWord ==
  ASSUME NEW x \in Addr, NEW y \in Addr
  PROVE  (PageNumber(x) = PageNumber(y) /\ WordIndex(x) = WordIndex(y))
           <=> x \div 4 = y \div 4
<1>1. x \in Nat /\ y \in Nat
  BY DEF Addr, MemoryAssumption
<1>2. x \div 4 = y \div 4 => PageNumber(x) = PageNumber(y) /\ WordIndex(x) = WordIndex(y)
  BY <1>1, PageOfWord DEF PageNumber, WordIndex
<1>3. ASSUME PageNumber(x) = PageNumber(y), WordIndex(x) = WordIndex(y)
      PROVE  x \div 4 = y \div 4
  <2> DEFINE w == PageWords * (x \div (4 * PageWords)) + WordIndex(x)
  <2>1. x = 4 * w + (x % 4) /\ y = 4 * w + (y % 4)
    BY <1>1, <1>3, AddressParts, PageOfWord
  <2>2. w \in Int
    BY <1>1, MemoryAssumption DEF WordIndex
  <2> HIDE DEF w
  <2> QED BY <1>1, <2>1, <2>2
<1> QED BY <1>2, <1>3

-----------------------------------------------------------------------------
\* get_page makes the page of addr present and changes no byte.
LEMMA GetPage ==
  ASSUME NEW mem \in PageTable, NEW addr \in Addr
  PROVE  /\ get_page(mem, addr) \in PageTable
         /\ get_page(mem, addr)[PageNumber(addr)] \in Page
         /\ WordAt(mem, addr) \in Word
         /\ \A x \in Addr : ByteAt(get_page(mem, addr), x) = ByteAt(mem, x)
<1> DEFINE p == PageNumber(addr)
           page == get_page(mem, addr)[p]
<1>1. p \in 0 .. NPages - 1 /\ WordIndex(addr) \in PageIndex
  BY AddressParts
<1>2. ZeroWord \in Word /\ ZeroPage \in Page /\ NULL \notin Page
  BY MemoryAssumption DEF ZeroWord, ZeroPage, Word, Page, PageIndex, Lane
<1>3. page = IF mem[p] = NULL THEN ZeroPage ELSE mem[p]
  BY <1>1 DEF get_page, PageTable
<1>4. page \in Page /\ get_page(mem, addr) \in PageTable
  BY <1>1, <1>2, <1>3 DEF get_page, PageTable
<1>5. WordAt(mem, addr) \in Word
  BY <1>1, <1>4 DEF WordAt, Page
<1>6. ASSUME NEW x \in Addr
      PROVE  ByteAt(get_page(mem, addr), x) = ByteAt(mem, x)
  <2>1. /\ PageNumber(x) \in 0 .. NPages - 1
        /\ WordIndex(x) \in PageIndex
        /\ x % 4 \in Lane
    BY AddressParts
  <2>2. ZeroPage[WordIndex(x)][x % 4] = Zero
    BY <2>1 DEF ZeroPage, ZeroWord
  <2>3. CASE PageNumber(x) = p
    BY <1>1, <1>2, <1>3, <1>4, <2>1, <2>2, <2>3 DEF ByteAt
  <2>4. CASE PageNumber(x) # p
    BY <1>1, <2>1, <2>4 DEF ByteAt, get_page, PageTable
  <2> QED BY <2>3, <2>4
<1> QED BY <1>4, <1>5, <1>6

\* The word that get_page finds holds the bytes of its four addresses.
LEMMA WordBytes ==
  ASSUME NEW mem \in PageTable, NEW addr \in Addr, NEW x \in Addr,
         x \div 4 = addr \div 4
  PROVE  WordAt(mem, addr)[x % 4] = ByteAt(mem, x)
<1>1. PageNumber(x) = PageNumber(addr) /\ WordIndex(x) = WordIndex(addr)
  BY SameWord
<1>2. ByteAt(get_page(mem, addr), x) = WordAt(mem, addr)[x % 4]
  BY <1>1, GetPage, MemoryAssumption DEF ByteAt, WordAt, Page, PageIndex, Word, Lane
<1> QED BY <1>2, GetPage

\* A stored word replaces the bytes of its four addresses and no other.
LEMMA SetWord ==
  ASSUME NEW mem \in PageTable, NEW addr \in Addr, NEW word \in Word
  PROVE  /\ SetWordAt(mem, addr, word) \in PageTable
         /\ \A x \in Addr :
              ByteAt(SetWordAt(mem, addr, word), x)
                = IF x \div 4 = addr \div 4 THEN word[x % 4] ELSE ByteAt(mem, x)
<1> DEFINE p == PageNumber(addr)
           i == WordIndex(addr)
           page == get_page(mem, addr)[p]
           new == [page EXCEPT ![i] = word]
<1>1. p \in 0 .. NPages - 1 /\ i \in PageIndex /\ page \in Page
  BY AddressParts, GetPage
<1>2. new \in Page /\ new[i] = word /\ \A j \in PageIndex \ {i} : new[j] = page[j]
  BY <1>1 DEF Page
<1>3. NULL \notin Page
  BY MemoryAssumption DEF Page, PageIndex, Word, Lane
<1>4. SetWordAt(mem, addr, word) = [mem EXCEPT ![p] = new]
  BY DEF SetWordAt
<1>5. SetWordAt(mem, addr, word) \in PageTable
  BY <1>1, <1>2, <1>4 DEF PageTable
<1>6. ASSUME NEW x \in Addr
      PROVE  ByteAt(SetWordAt(mem, addr, word), x)
               = IF x \div 4 = addr \div 4 THEN word[x % 4] ELSE ByteAt(mem, x)
  <2>1. PageNumber(x) \in 0 .. NPages - 1 /\ WordIndex(x) \in PageIndex
    BY AddressParts
  <2>2. CASE PageNumber(x) = p /\ WordIndex(x) = i
    <3>1. x \div 4 = addr \div 4
      BY <2>2, SameWord
    <3>2. ByteAt([mem EXCEPT ![p] = new], x) = word[x % 4]
      BY <1>1, <1>2, <1>3, <2>1, <2>2 DEF ByteAt, PageTable
    <3> QED BY <1>4, <3>1, <3>2
  <2>3. CASE PageNumber(x) = p /\ WordIndex(x) # i
    <3>1. x \div 4 # addr \div 4
      BY <2>3, SameWord
    <3>2. ByteAt([mem EXCEPT ![p] = new], x) = page[WordIndex(x)][x % 4]
      BY <1>1, <1>2, <1>3, <2>1, <2>3 DEF ByteAt, PageTable
    <3>3. ByteAt(get_page(mem, addr), x) = page[WordIndex(x)][x % 4]
      BY <1>1, <1>3, <2>3 DEF ByteAt
    <3> QED BY <1>4, <3>1, <3>2, <3>3, GetPage
  <2>4. CASE PageNumber(x) # p
    <3>1. x \div 4 # addr \div 4
      BY <2>4, SameWord
    <3>2. ByteAt([mem EXCEPT ![p] = new], x) = ByteAt(mem, x)
      BY <1>1, <2>1, <2>4 DEF ByteAt, PageTable
    <3> QED BY <1>4, <3>1, <3>2
  <2> QED BY <2>2, <2>3, <2>4
<1> QED BY <1>5, <1>6

\* The effect of an aligned write of n bytes, and the value of an aligned read.
StoresBytes(new, mem, addr, n, data) ==
  /\ new \in PageTable
  /\ \A x \in Addr : ByteAt(new, x) = IF x \in addr .. addr + n - 1
                                      THEN data[x - addr] ELSE ByteAt(mem, x)

BytesFrom(mem, addr, n) ==
  [l \in 0 .. 3 |-> IF l < n THEN ByteAt(mem, addr + l) ELSE Zero]

\* memory_wr_w stores the four bytes of a word.
LEMMA WriteWordStores ==
  ASSUME NEW mem \in PageTable, NEW addr \in Addr, NEW data \in Word, Aligned(addr, 4)
  PROVE  StoresBytes(memory_wr_w(mem, addr, data), mem, addr, 4, data)
<1>1. addr \in Nat /\ addr % 4 = 0
  BY MemoryAssumption DEF Addr, Aligned
<1>2. ASSUME NEW x \in Addr
      PROVE  /\ x \in addr .. addr + 3 <=> x \div 4 = addr \div 4
             /\ x \in addr .. addr + 3 => x - addr = x % 4
  BY <1>1, MemoryAssumption DEF Addr
<1> QED BY <1>2, SetWord DEF StoresBytes, memory_wr_w

\* memory_wr_h stores the low two, in the half that bit 1 of addr selects.
LEMMA WriteHalfStores ==
  ASSUME NEW mem \in PageTable, NEW addr \in Addr, NEW data \in Word, Aligned(addr, 2)
  PROVE  StoresBytes(memory_wr_h(mem, addr, data), mem, addr, 2, data)
<1> DEFINE f == FirstLane(addr)
           old == WordAt(mem, addr)
           word == [old EXCEPT ![f] = data[0], ![f + 1] = data[1]]
<1>1. addr \in Nat /\ addr % 2 = 0
  BY MemoryAssumption DEF Addr, Aligned
<1>2. f \in {0, 2} /\ f = addr % 4
  BY <1>1 DEF FirstLane
<1>3. old \in Word /\ word \in Word
  BY <1>2, GetPage DEF Word, Lane
<1>4. ASSUME NEW x \in Addr
      PROVE  IF x \in addr .. addr + 1
             THEN x \div 4 = addr \div 4 /\ word[x % 4] = data[x - addr]
             ELSE x \div 4 = addr \div 4 => word[x % 4] = ByteAt(mem, x)
  <2>1. x \in Nat /\ x % 4 \in Lane
    BY MemoryAssumption DEF Addr, Lane
  <2>2. CASE x \in addr .. addr + 1
    <3>1. x \div 4 = addr \div 4 /\ x % 4 = f + (x - addr) /\ x - addr \in {0, 1}
      BY <1>1, <1>2, <2>1, <2>2
    <3>2. word[f] = data[0] /\ word[f + 1] = data[1]
      BY <1>2, <1>3 DEF Word, Lane
    <3> QED BY <1>2, <2>2, <3>1, <3>2
  <2>3. CASE x \notin addr .. addr + 1 /\ x \div 4 = addr \div 4
    <3>1. x % 4 # f /\ x % 4 # f + 1
      BY <1>1, <1>2, <2>1, <2>3
    <3>2. word[x % 4] = old[x % 4]
      BY <1>2, <1>3, <2>1, <3>1 DEF Word, Lane
    <3> QED BY <2>3, <3>2, WordBytes
  <2> QED BY <2>2, <2>3
<1>5. memory_wr_h(mem, addr, data) = SetWordAt(mem, addr, word)
  BY DEF memory_wr_h
<1> HIDE DEF word
<1> QED BY <1>3, <1>4, <1>5, SetWord DEF StoresBytes

\* memory_wr_b stores the lowest, in the lane of addr.
LEMMA WriteByteStores ==
  ASSUME NEW mem \in PageTable, NEW addr \in Addr, NEW data \in Word
  PROVE  StoresBytes(memory_wr_b(mem, addr, data), mem, addr, 1, data)
<1> DEFINE old == WordAt(mem, addr)
           word == [old EXCEPT ![addr % 4] = data[0]]
<1>1. addr \in Nat /\ addr % 4 \in Lane
  BY MemoryAssumption DEF Addr, Lane
<1>2. old \in Word /\ word \in Word
  BY <1>1, GetPage DEF Word, Lane
<1>3. ASSUME NEW x \in Addr, x \div 4 = addr \div 4
      PROVE  word[x % 4] = IF x = addr THEN data[0] ELSE ByteAt(mem, x)
  <2>1. x \in Nat /\ x % 4 \in Lane /\ (x % 4 = addr % 4 <=> x = addr)
    BY <1>1, <1>3, MemoryAssumption DEF Addr, Lane
  <2>2. word[x % 4] = IF x = addr THEN data[0] ELSE old[x % 4]
    BY <1>1, <1>2, <2>1 DEF Word
  <2> QED BY <1>3, <2>2, WordBytes
<1>4. memory_wr_b(mem, addr, data) = SetWordAt(mem, addr, word)
  BY DEF memory_wr_b
<1>5. \A x \in Addr : x \in addr .. addr + 1 - 1 <=> x = addr
  BY <1>1, MemoryAssumption DEF Addr
<1> HIDE DEF word
<1> QED BY <1>1, <1>2, <1>3, <1>4, <1>5, SetWord DEF StoresBytes

\* The addresses of an aligned access lie inside the address space, in one word.
LEMMA AccessFits ==
  ASSUME NEW addr \in Addr, NEW n \in {1, 2, 4}, Aligned(addr, n),
         NEW l \in 0 .. n - 1
  PROVE  /\ addr + l \in Addr
         /\ (addr + l) \div 4 = addr \div 4
         /\ (addr + l) % 4 = (addr % 4) + l
<1> DEFINE size == PageWords * NPages
<1>1. size \in Nat /\ Addr = 0 .. 4 * size - 1 /\ l \in 0 .. 3
  BY MemoryAssumption DEF Addr
<1> HIDE DEF size
<1> QED BY <1>1 DEF Aligned

\* The reads return the bytes from addr on, little-endian, the rest zero.
LEMMA ReadsReturn ==
  ASSUME NEW mem \in PageTable, NEW addr \in Addr
  PROVE  /\ Aligned(addr, 4) => memory_rd_w(mem, addr) = BytesFrom(mem, addr, 4)
         /\ Aligned(addr, 2) => memory_rd_h(mem, addr) = BytesFrom(mem, addr, 2)
         /\ memory_rd_b(mem, addr) = BytesFrom(mem, addr, 1)
<1> DEFINE w == WordAt(mem, addr)
<1>1. w \in Word /\ addr \in Nat
  BY GetPage, MemoryAssumption DEF Addr
<1>2. ASSUME NEW n \in {1, 2, 4}, Aligned(addr, n), NEW l \in 0 .. n - 1
      PROVE  w[(addr % 4) + l] = ByteAt(mem, addr + l)
  BY <1>2, AccessFits, WordBytes
<1>3. ASSUME Aligned(addr, 4)
      PROVE  memory_rd_w(mem, addr) = BytesFrom(mem, addr, 4)
  <2>1. addr % 4 = 0
    BY <1>3 DEF Aligned
  <2>2. \A l \in 0 .. 3 : w[l] = ByteAt(mem, addr + l)
    BY <1>2, <1>3, <2>1
  <2> QED BY <1>1, <2>2 DEF memory_rd_w, BytesFrom, Word, Lane
<1>4. ASSUME Aligned(addr, 2)
      PROVE  memory_rd_h(mem, addr) = BytesFrom(mem, addr, 2)
  <2>1. FirstLane(addr) = addr % 4 /\ addr % 4 \in {0, 2}
    BY <1>1, <1>4 DEF Aligned, FirstLane
  <2>2. w[addr % 4] = ByteAt(mem, addr + 0) /\ w[(addr % 4) + 1] = ByteAt(mem, addr + 1)
    BY <1>2, <1>4, <2>1
  <2> QED BY <2>1, <2>2 DEF memory_rd_h, BytesFrom, ZeroWord, Lane
<1>5. memory_rd_b(mem, addr) = BytesFrom(mem, addr, 1)
  <2>1. Aligned(addr, 1)
    BY <1>1 DEF Aligned
  <2>2. w[addr % 4] = ByteAt(mem, addr + 0)
    BY <1>1, <1>2, <2>1
  <2> QED BY <2>2 DEF memory_rd_b, BytesFrom, ZeroWord, Lane
<1> QED BY <1>3, <1>4, <1>5

\* Whatever the address, a read returns a word.
LEMMA ReadsAreWords ==
  ASSUME NEW mem \in PageTable, NEW addr \in Addr
  PROVE  {memory_rd_w(mem, addr), memory_rd_h(mem, addr), memory_rd_b(mem, addr)}
           \subseteq Word
<1> DEFINE w == WordAt(mem, addr)
<1>1. w \in Word /\ FirstLane(addr) \in {0, 2} /\ addr % 4 \in Lane
  BY GetPage, AddressParts
<1>2. ZeroWord \in Word
  BY MemoryAssumption DEF ZeroWord, Word, Lane
<1>3. w[FirstLane(addr)] \in Byte /\ w[FirstLane(addr) + 1] \in Byte /\ w[addr % 4] \in Byte
  BY <1>1 DEF Word, Lane
<1> HIDE DEF w
<1> QED
  BY <1>1, <1>2, <1>3 DEF memory_rd_w, memory_rd_h, memory_rd_b, Word, Lane, w

\* A memory just created has no page and reads as zero everywhere.
LEMMA FreshMemory ==
  /\ memory_create \in PageTable
  /\ \A x \in Addr : ByteAt(memory_create, x) = Zero
<1>1. memory_create \in PageTable
  BY DEF memory_create, PageTable
<1>2. \A x \in Addr : ByteAt(memory_create, x) = Zero
  BY AddressParts DEF memory_create, ByteAt
<1> QED BY <1>1, <1>2

-----------------------------------------------------------------------------
(***************************************************************************)
(* Predictors: the counters stay in their scale, and what the statistics   *)
(* say of the tables stays true.                                           *)
(***************************************************************************)

\* A remainder is an entry of the tables.
LEMMA EntryOfRemainder == \A a \in Int : a % TableSize \in Index
  BY PredictorAssumption DEF Index

\* The addresses that the hardware sees select entries of both tables.
LEMMA EntriesSelected ==
  ASSUME NEW pc \in Int, ghr \in Index
  PROVE  BimodalIndex(pc) \in Index /\ GshareIndex(pc) \in Index
<1>1. pc \div 4 \in Int
  OBVIOUS
<1>2. BimodalIndex(pc) \in Index
  BY <1>1, EntryOfRemainder DEF BimodalIndex
<1>3. BitXor((pc \div 4) % TableSize, ghr) \in Nat
  BY <1>2, PredictorAssumption DEF BimodalIndex, Index
<1> QED
  BY <1>2, <1>3, EntryOfRemainder DEF GshareIndex

\* Training keeps a counter in its scale.
LEMMA CounterTrained ==
  ASSUME NEW c \in Counter, NEW taken \in {0, 1}
  PROVE  Trained(c, taken) \in Counter
  BY DEF Trained, Counter

\* A branch keeps every variable in its type.
LEMMA BranchTypeOK ==
  ASSUME PredictorTypeOK, NEW pc \in Int, NEW imm \in Int, NEW taken \in {0, 1},
         Branch(pc, imm, taken)
  PROVE  PredictorTypeOK'
<1> DEFINE b == BimodalIndex(pc)
           g == GshareIndex(pc)
<1>1. b \in Index /\ g \in Index
  BY EntriesSelected DEF PredictorTypeOK, Stat
<1>2. bimodal' \in [Index -> Counter]
  BY <1>1, CounterTrained DEF Branch, PredictorTypeOK, Stat
<1>3. gshare_table' \in [Index -> Counter]
  BY <1>1, CounterTrained DEF Branch, PredictorTypeOK, Stat
<1>4. ghr' \in Index
  <2>1. 2 * ghr + taken \in Int
    BY DEF PredictorTypeOK, Stat, Index
  <2> QED
    BY <2>1, EntryOfRemainder DEF Branch, Shifted
<1>5. stat' \in [branches : Nat, wrong_nt : Nat, wrong_btfnt : Nat,
                 wrong_bimodal : Nat, wrong_gshare : Nat]
  BY DEF Branch, Mispredicted, PredictorTypeOK, Stat, Wrong
<1> QED
  BY <1>2, <1>3, <1>4, <1>5 DEF PredictorTypeOK, Stat

\* The sets of entries are finite.
LEMMA TakenFinite ==
  ASSUME NEW table
  PROVE  IsFiniteSet(PredictTaken(table)) /\ Cardinality(PredictTaken(table)) \in Nat
<1>1. IsFiniteSet(Index)
  BY FS_Interval, PredictorAssumption DEF Index
<1>2. IsFiniteSet(PredictTaken(table))
  BY <1>1, FS_Subset DEF PredictTaken
<1> QED
  BY <1>2, FS_CardinalityType

\* Training one entry adds it to those that predict taken only when it was at
\* 2 and the branch was taken, and drops it only when it was at 3 and was not.
LEMMA TakenAfterTraining ==
  ASSUME NEW table \in [Index -> Counter], NEW i \in Index, NEW taken \in {0, 1}
  PROVE  PredictTaken([table EXCEPT ![i] = Trained(@, taken)])
           = IF table[i] = 2 /\ taken = 1 THEN PredictTaken(table) \cup {i}
             ELSE IF table[i] = 3 /\ taken = 0 THEN PredictTaken(table) \ {i}
             ELSE PredictTaken(table)
<1> DEFINE new == [table EXCEPT ![i] = Trained(@, taken)]
<1>1. \A j \in Index : new[j] = IF j = i THEN Trained(table[i], taken) ELSE table[j]
  OBVIOUS
<1>2. table[i] \in Counter
  OBVIOUS
<1>3. Trained(table[i], taken) >= 3
        <=> \/ table[i] = 2 /\ taken = 1
            \/ table[i] >= 3 /\ ~(table[i] = 3 /\ taken = 0)
  BY <1>2 DEF Trained, Counter
<1> HIDE DEF new
<1>4. \A j \in Index : j \in PredictTaken(new) <=> new[j] >= 3
  BY DEF PredictTaken
<1>5. \A j \in Index : j \in PredictTaken(table) <=> table[j] >= 3
  BY DEF PredictTaken
<1>6. PredictTaken(new) \subseteq Index /\ PredictTaken(table) \subseteq Index
  BY DEF PredictTaken
<1>7. CASE table[i] = 2 /\ taken = 1
  BY <1>1, <1>3, <1>4, <1>5, <1>6, <1>7, Zenon DEF new
<1>8. CASE table[i] = 3 /\ taken = 0
  <2>1. ~(Trained(table[i], taken) >= 3) /\ ~(table[i] = 2)
    BY <1>2, <1>3, <1>8 DEF Counter
  <2> QED
    BY <2>1, <1>1, <1>4, <1>5, <1>6, <1>8, Zenon DEF new
<1>9. CASE ~(table[i] = 2 /\ taken = 1) /\ ~(table[i] = 3 /\ taken = 0)
  <2>1. PredictTaken(new) = PredictTaken(table)
    BY <1>1, <1>3, <1>4, <1>5, <1>6, <1>9, Zenon
  <2> QED
    BY <2>1, <1>9, Zenon DEF new
<1> QED
  BY <1>7, <1>8, <1>9, Zenon

\* The entries that predict taken grow by at most the mispredictions counted.
LEMMA TakenIsPaidFor ==
  ASSUME NEW table \in [Index -> Counter], NEW i \in Index, NEW taken \in {0, 1}
  PROVE  Cardinality(PredictTaken([table EXCEPT ![i] = Trained(@, taken)]))
           <= Cardinality(PredictTaken(table)) + Wrong(Predicted(table[i]), taken)
<1> DEFINE old == PredictTaken(table)
           new == PredictTaken([table EXCEPT ![i] = Trained(@, taken)])
<1>1. IsFiniteSet(old) /\ Cardinality(old) \in Nat
  BY TakenFinite
<1>2. table[i] \in Counter
  OBVIOUS
<1>3. Wrong(Predicted(table[i]), taken) \in {0, 1}
  BY DEF Wrong
<1>4. CASE table[i] = 2 /\ taken = 1
  <2>1. i \notin old /\ new = old \cup {i}
    BY <1>4, TakenAfterTraining DEF PredictTaken
  <2>2. Cardinality(new) = Cardinality(old) + 1
    BY <1>1, <2>1, FS_AddElement
  <2>3. Wrong(Predicted(table[i]), taken) = 1
    BY <1>4 DEF Wrong, Predicted
  <2> QED
    BY <1>1, <2>2, <2>3
<1>5. CASE table[i] = 3 /\ taken = 0
  <2>1. i \in old /\ new = old \ {i}
    BY <1>5, TakenAfterTraining DEF PredictTaken
  <2>2. Cardinality(new) = Cardinality(old) - 1
    BY <1>1, <2>1, FS_RemoveElement
  <2> QED
    BY <1>1, <1>3, <2>2
<1>6. CASE ~(table[i] = 2 /\ taken = 1) /\ ~(table[i] = 3 /\ taken = 0)
  <2>1. new = old
    BY <1>6, TakenAfterTraining
  <2> QED
    BY <1>1, <1>3, <2>1
<1> QED
  BY <1>4, <1>5, <1>6

\* A branch keeps the statistics and the tables in agreement.
LEMMA BranchStatsAccount ==
  ASSUME PredictorTypeOK, StatsAccountForTables,
         NEW pc \in Int, NEW imm \in Int, NEW taken \in {0, 1},
         Branch(pc, imm, taken)
  PROVE  StatsAccountForTables'
<1> DEFINE b == BimodalIndex(pc)
           g == GshareIndex(pc)
<1>1. b \in Index /\ g \in Index
  BY EntriesSelected DEF PredictorTypeOK, Stat
<1>2. \A p, t \in Int : Wrong(p, t) \in {0, 1}
  BY DEF Wrong
<1>3. \A c \in Int : Predicted(c) \in {0, 1}
  BY DEF Predicted
<1>4. bimodal[b] \in Int /\ gshare_table[g] \in Int
  BY <1>1 DEF PredictorTypeOK, Stat, Counter
<1>5. Cardinality(PredictTaken(bimodal)') <= stat'.wrong_bimodal
  <2>1. Cardinality(PredictTaken([bimodal EXCEPT ![b] = Trained(@, taken)]))
          <= Cardinality(PredictTaken(bimodal)) + Wrong(Predicted(bimodal[b]), taken)
    BY <1>1, TakenIsPaidFor DEF PredictorTypeOK, Stat
  <2>2. stat'.wrong_bimodal = stat.wrong_bimodal + Wrong(Predicted(bimodal[b]), taken)
    BY DEF Branch, Mispredicted
  <2>3. PredictTaken(bimodal)' = PredictTaken([bimodal EXCEPT ![b] = Trained(@, taken)])
    BY DEF Branch, PredictTaken
  <2>4. /\ Cardinality(PredictTaken(bimodal)) \in Nat
        /\ Cardinality(PredictTaken(bimodal)') \in Nat
    BY <2>3, TakenFinite
  <2>5. stat.wrong_bimodal \in Nat /\ Wrong(Predicted(bimodal[b]), taken) \in {0, 1}
    BY <1>2, <1>3, <1>4 DEF PredictorTypeOK, Stat
  <2> QED
    BY <2>1, <2>2, <2>3, <2>4, <2>5 DEF StatsAccountForTables
<1>6. Cardinality(PredictTaken(gshare_table)') <= stat'.wrong_gshare
  <2>1. Cardinality(PredictTaken([gshare_table EXCEPT ![g] = Trained(@, taken)]))
          <= Cardinality(PredictTaken(gshare_table))
               + Wrong(Predicted(gshare_table[g]), taken)
    BY <1>1, TakenIsPaidFor DEF PredictorTypeOK, Stat
  <2>2. stat'.wrong_gshare = stat.wrong_gshare + Wrong(Predicted(gshare_table[g]), taken)
    BY DEF Branch, Mispredicted
  <2>3. PredictTaken(gshare_table)'
          = PredictTaken([gshare_table EXCEPT ![g] = Trained(@, taken)])
    BY DEF Branch, PredictTaken
  <2>4. /\ Cardinality(PredictTaken(gshare_table)) \in Nat
        /\ Cardinality(PredictTaken(gshare_table)') \in Nat
    BY <2>3, TakenFinite
  <2>5. stat.wrong_gshare \in Nat /\ Wrong(Predicted(gshare_table[g]), taken) \in {0, 1}
    BY <1>2, <1>3, <1>4 DEF PredictorTypeOK, Stat
  <2> QED
    BY <2>1, <2>2, <2>3, <2>4, <2>5 DEF StatsAccountForTables
<1>7. /\ stat'.wrong_nt <= stat'.branches
      /\ stat'.wrong_btfnt <= stat'.branches
      /\ stat'.wrong_bimodal <= stat'.branches
      /\ stat'.wrong_gshare <= stat'.branches
  BY <1>2, <1>3, <1>4 DEF Branch, Mispredicted, StatsAccountForTables, PredictorTypeOK, Stat
<1> QED
  BY <1>5, <1>6, <1>7 DEF StatsAccountForTables, PredictTaken

\* Before the first branch no entry predicts taken and nothing is counted.
LEMMA InitialPredictors ==
  ASSUME PredictorInit
  PROVE  PredictorTypeOK /\ StatsAccountForTables
<1>1. PredictorTypeOK
  BY PredictorAssumption DEF PredictorInit, PredictorTypeOK, Stat, Index, Counter
<1>2. PredictTaken(bimodal) = {} /\ PredictTaken(gshare_table) = {}
  BY DEF PredictorInit, PredictTaken
<1>3. Cardinality({}) = 0
  BY FS_EmptySet
<1> QED
  BY <1>1, <1>2, <1>3 DEF PredictorInit, StatsAccountForTables
=============================================================================
