----------------------------- MODULE HeapProofs ------------------------------
(***************************************************************************)
(* The allocator of the guest library and the tree of radix.c, whose nodes *)
(* are its blocks, for every size step, number of classes, chunk and heap, *)
(* every set of bits and every file of numbers: no block is lost and none  *)
(* is given twice, the blocks in use are those of a store of disjoint      *)
(* blocks, and those of radix.c are the nodes that its tree reaches.       *)
(***************************************************************************)
EXTENDS GuestHeap, Radix, Lemmas, SequenceTheorems

-----------------------------------------------------------------------------
\* What a block occupies is the least multiple of Step with room for its header.
LEMMA RoundedBytes ==
  ASSUME NEW size \in Int, size >= 1
  PROVE  /\ Rounded(size) \in Nat /\ Rounded(size) % Step = 0
         /\ size + Header <= Rounded(size) /\ Rounded(size) < size + Header + Step
         /\ Rounded(size) = Step * ClassOf(Rounded(size))
         /\ ClassOf(Rounded(size)) \in Nat \ {0}
<1> DEFINE bytes == size + Header
           q == bytes \div Step
           r == bytes % Step
<1>0. Step \in Nat /\ Step > 4
  BY AllocatorAssumption
<1>1. bytes \in Nat /\ bytes = Step * q + r /\ q \in Int /\ r \in 0 .. Step - 1
  BY <1>0 DEF Header
<1>2. \E k \in Int : Rounded(size) = Step * k /\ bytes <= Step * k /\ Step * k < bytes + Step
  <2>1. CASE r = 0
    <3>1. Rounded(size) = bytes
      BY <2>1 DEF Rounded
    <3> HIDE DEF bytes, q, r
    <3> QED BY <1>0, <1>1, <2>1, <3>1
  <2>2. CASE r # 0
    <3>1. bytes - r + Step = Step * (q + 1)
      BY <1>0, <1>1
    <3>2. Rounded(size) = bytes - r + Step
      BY <2>2 DEF Rounded
    <3> HIDE DEF bytes, q, r
    <3> QED BY <1>0, <1>1, <2>2, <3>1, <3>2
  <2> QED BY <2>1, <2>2
<1>3. PICK k \in Int : Rounded(size) = Step * k /\ bytes <= Step * k /\ Step * k < bytes + Step
  BY <1>2
<1>4. k >= 1
  <2>1. SUFFICES ASSUME k <= 0 PROVE FALSE
    OBVIOUS
  <2>2. Step * k <= 0
    BY <1>0, <2>1
  <2>3. bytes >= 1
    BY DEF Header
  <2> HIDE DEF bytes
  <2> QED BY <1>0, <1>1, <1>3, <2>2, <2>3
<1>5. (Step * k) % Step = 0 /\ (Step * k) \div Step = k
  BY <1>0, DivisionExact
<1>6. Rounded(size) % Step = 0 /\ ClassOf(Rounded(size)) = k
  BY <1>3, <1>5 DEF ClassOf
<1>7. size + Header = bytes /\ bytes \in Nat
  BY <1>1
<1> HIDE DEF bytes
<1>8. Rounded(size) \in Nat /\ bytes <= Rounded(size) /\ Rounded(size) < bytes + Step
  BY <1>0, <1>3, <1>7
<1>9. Rounded(size) = Step * ClassOf(Rounded(size)) /\ ClassOf(Rounded(size)) \in Nat \ {0}
  BY <1>3, <1>4, <1>6
<1> QED BY <1>6, <1>7, <1>8, <1>9

\* The sizes that are served are the sizes whose blocks have a class.
LEMMA ServedSizes ==
  ASSUME NEW size \in Int
  PROVE  Serves(size) <=> size \in 1 .. (NumSizes - 1) * Step - Header
<1> SUFFICES ASSUME size >= 1
             PROVE  ClassOf(Rounded(size)) < NumSizes
                      <=> size <= (NumSizes - 1) * Step - Header
  BY AllocatorAssumption DEF Serves, Header
<1> DEFINE c == ClassOf(Rounded(size))
           bytes == Rounded(size)
<1>1. c \in Nat /\ bytes = Step * c /\ size + Header <= bytes /\ bytes < size + Header + Step
  BY RoundedBytes
<1>2. c < NumSizes => Step * c <= Step * (NumSizes - 1)
  <2> HIDE DEF c
  <2> QED BY <1>1, AllocatorAssumption
<1>3. c >= NumSizes => Step * c >= Step * (NumSizes - 1) + Step
  <2> HIDE DEF c
  <2> QED BY <1>1, AllocatorAssumption
<1>4. Step * (NumSizes - 1) = (NumSizes - 1) * Step
  BY AllocatorAssumption
<1> HIDE DEF c, bytes
<1>5. (NumSizes - 1) * Step \in Int
  BY AllocatorAssumption
<1>6. ASSUME NEW m \in Int, m = Step * (NumSizes - 1) PROVE c < NumSizes <=> size <= m - Header
  BY <1>1, <1>2, <1>3, <1>6, AllocatorAssumption DEF Header
<1> QED BY <1>4, <1>5, <1>6 DEF c

\* A chunk is a number of whole blocks, at least one.
LEMMA ChunkOfBlocks ==
  ASSUME NEW bytes \in Nat \ {0}
  PROVE  /\ ChunkSize(bytes) \div bytes \in Nat \ {0}
         /\ ChunkSize(bytes) = bytes * (ChunkSize(bytes) \div bytes)
<1>1. CASE bytes * BlocksInChunk < MinAllocation
  <2> DEFINE q == MinAllocation \div bytes
             m == MinAllocation % bytes
  <2>1. q \in Int /\ m \in 0 .. bytes - 1 /\ MinAllocation = bytes * q + m
    BY AllocatorAssumption
  <2>2. q >= 1
    <3>1. SUFFICES ASSUME q <= 0 PROVE FALSE
      BY <2>1
    <3>2. bytes * q <= 0
      BY <2>1, <3>1
    <3>3. bytes * BlocksInChunk >= bytes
      BY AllocatorAssumption
    <3>4. bytes * BlocksInChunk \in Nat
      BY AllocatorAssumption
    <3> HIDE DEF q, m
    <3> QED BY <1>1, <2>1, <3>2, <3>3, <3>4, AllocatorAssumption
  <2>3. ChunkSize(bytes) = bytes * q
    <3>1. ChunkSize(bytes) = q * bytes
      BY <1>1 DEF ChunkSize
    <3> HIDE DEF q
    <3> QED BY <2>1, <3>1
  <2>4. (bytes * q) \div bytes = q
    <3> HIDE DEF q
    <3> QED BY <2>1, DivisionExact
  <2> QED BY <2>1, <2>2, <2>3, <2>4
<1>2. CASE ~(bytes * BlocksInChunk < MinAllocation)
  <2>1. ChunkSize(bytes) = bytes * BlocksInChunk
    BY <1>2 DEF ChunkSize
  <2>2. (bytes * BlocksInChunk) \div bytes = BlocksInChunk
    BY AllocatorAssumption, DivisionExact
  <2> QED BY <2>1, <2>2, AllocatorAssumption
<1> QED BY <1>1, <1>2

-----------------------------------------------------------------------------
(***************************************************************************)
(* The inductive invariant, of a heap h, the blocks in use lv and the      *)
(* blocks carved cv.                                                       *)
(***************************************************************************)

InUseIn(lv) == {b.addr - Header : b \in lv}
Free(lv, cv, c) == {b.addr : b \in {b \in cv : ClassOf(b.bytes) = c}} \ InUseIn(lv)

Disjoint(a, b) == a.addr + a.bytes <= b.addr \/ b.addr + b.bytes <= a.addr

\* Blocks lie below the free space, share no byte, and each has a class.
Layout(h, cv) ==
  /\ h \in Heaps
  /\ h.free_space >= HeapStart /\ (h.free_space - HeapStart) % Step = 0
  /\ IsFiniteSet(cv) /\ cv \subseteq [addr : HeapAddr, bytes : Nat \ {0}]
  /\ \A b \in cv : /\ b.bytes = Step * ClassOf(b.bytes) /\ ClassOf(b.bytes) \in Class \ {0}
                   /\ b.addr + b.bytes <= h.free_space /\ b.addr + b.bytes <= HeapEnd + 1
  /\ \A a, b \in cv : a # b => Disjoint(a, b)

\* A block in use knows the size of its class, and is given once.
Given(h, lv, cv) ==
  /\ lv \subseteq [addr : Nat, size : Int]
  /\ \A b \in lv : /\ Serves(b.size)
                   /\ [addr |-> b.addr - Header, bytes |-> Rounded(b.size)] \in cv
                   /\ h.word[b.addr - Header] = Rounded(b.size)
  /\ \A a, b \in lv : a.addr = b.addr => a = b

\* s is the list of class c: its n free blocks, each once, and NULL.
Chain(h, lv, cv, c, n, s) ==
  /\ s[0] = h.small_block_headers[c] /\ s[n] = NULL
  /\ \A k \in 0 .. n - 1 : s[k] \in Free(lv, cv, c) /\ h.word[s[k]] = s[k + 1]
  /\ \A addr \in Free(lv, cv, c) : \E k \in 0 .. n - 1 : s[k] = addr
  /\ \A j, k \in 0 .. n - 1 : s[j] = s[k] => j = k

Chained(h, lv, cv) ==
  \A c \in Class : \E n \in Nat : \E s : Chain(h, lv, cv, c, n, s)

Cleared(h) == ~h.initialized => \A c \in Class : h.small_block_headers[c] = NULL

Sound(h, lv, cv) == Layout(h, cv) /\ Given(h, lv, cv) /\ Chained(h, lv, cv)

-----------------------------------------------------------------------------
\* An address is one block.
LEMMA SameBlock ==
  ASSUME NEW h, NEW cv, Layout(h, cv), NEW a \in cv, NEW b \in cv, a.addr = b.addr
  PROVE  a = b
<1>1. a.addr \in Int /\ b.addr \in Int /\ a.bytes \in Nat \ {0} /\ b.bytes \in Nat \ {0}
  BY AllocatorAssumption DEF Layout, HeapAddr
<1>2. ~Disjoint(a, b)
  BY <1>1 DEF Disjoint
<1> QED BY <1>2 DEF Layout

\* The free blocks of a class.
LEMMA FreeBlocksAre ==
  ASSUME NEW lv, NEW cv, NEW c, NEW addr
  PROVE  addr \in Free(lv, cv, c)
           <=> /\ \E b \in cv : b.addr = addr /\ ClassOf(b.bytes) = c
               /\ \A b \in lv : b.addr - Header # addr
BY DEF Free, InUseIn

\* A free block can be told from NULL, and lies in the heap.
LEMMA FreeInHeap ==
  ASSUME NEW h, NEW lv, NEW cv, Layout(h, cv), NEW c, NEW addr \in Free(lv, cv, c)
  PROVE  addr \in HeapAddr /\ addr # NULL /\ addr < h.free_space
<1>1. PICK b \in cv : b.addr = addr
  BY FreeBlocksAre
<1>2. b \in [addr : HeapAddr, bytes : Nat \ {0}] /\ b.addr + b.bytes <= h.free_space
  BY DEF Layout
<1>3. h.free_space \in Nat
  BY DEF Layout, Heaps
<1> QED BY <1>1, <1>2, <1>3, AllocatorAssumption DEF HeapAddr, NULL

\* A class is without free blocks exactly when its header is NULL.
LEMMA EmptyList ==
  ASSUME NEW h, NEW lv, NEW cv, Layout(h, cv), NEW c, NEW n \in Nat, NEW s,
         Chain(h, lv, cv, c, n, s)
  PROVE  /\ h.small_block_headers[c] = NULL <=> n = 0
         /\ h.small_block_headers[c] = NULL <=> Free(lv, cv, c) = {}
<1>1. n = 0 => h.small_block_headers[c] = NULL
  BY DEF Chain
<1>2. n # 0 => h.small_block_headers[c] # NULL
  <2> SUFFICES ASSUME n # 0 PROVE s[0] # NULL
    BY DEF Chain
  <2>1. 0 \in 0 .. n - 1
    OBVIOUS
  <2> QED BY <2>1, FreeInHeap DEF Chain
<1>3. n = 0 => Free(lv, cv, c) = {}
  BY DEF Chain
<1>4. n # 0 => Free(lv, cv, c) # {}
  <2>1. n # 0 => 0 \in 0 .. n - 1
    OBVIOUS
  <2> QED BY <2>1 DEF Chain
<1> QED BY <1>1, <1>2, <1>3, <1>4

-----------------------------------------------------------------------------
CarvedFrom(chunk, bytes) ==
  {[addr |-> addr, bytes |-> bytes] : addr \in ChunkBlocks(chunk, bytes)}

\* Where the i-th block of a chunk begins.
At(chunk, bytes, i) == chunk + i * bytes

\* The blocks of a chunk lie in it one after the other.
LEMMA ChunkAddresses ==
  ASSUME NEW chunk \in Nat, NEW bytes \in Nat \ {0}
  PROVE  /\ \A i \in Nat : /\ At(chunk, bytes, i) \in Nat
                           /\ At(chunk, bytes, i + 1) = At(chunk, bytes, i) + bytes
         /\ \A i, j \in Nat : i < j => At(chunk, bytes, i) + bytes <= At(chunk, bytes, j)
         /\ At(chunk, bytes, 0) = chunk
         /\ At(chunk, bytes, ChunkSize(bytes) \div bytes) = chunk + ChunkSize(bytes)
<1>1. ASSUME NEW i \in Nat
      PROVE  /\ At(chunk, bytes, i) \in Nat
             /\ At(chunk, bytes, i + 1) = At(chunk, bytes, i) + bytes
  <2>1. i * bytes \in Nat /\ (i + 1) * bytes = i * bytes + bytes
    OBVIOUS
  <2> QED BY <2>1 DEF At
<1>2. ASSUME NEW i \in Nat, NEW j \in Nat, i < j
      PROVE  At(chunk, bytes, i) + bytes <= At(chunk, bytes, j)
  <2>1. i * bytes \in Nat /\ j * bytes \in Nat /\ i * bytes + bytes <= j * bytes
    BY <1>2
  <2> QED BY <2>1 DEF At
<1>3. At(chunk, bytes, 0) = chunk
  BY DEF At
<1>4. At(chunk, bytes, ChunkSize(bytes) \div bytes) = chunk + ChunkSize(bytes)
  <2> DEFINE q == ChunkSize(bytes) \div bytes
  <2>1. q \in Nat \ {0} /\ ChunkSize(bytes) = bytes * q
    BY ChunkOfBlocks
  <2> HIDE DEF q
  <2>2. q * bytes = ChunkSize(bytes)
    BY <2>1
  <2> QED BY <2>2 DEF At, q
<1> QED BY <1>1, <1>2, <1>3, <1>4

\* They are finitely many, and where blocks may be.
LEMMA ChunkInHeap ==
  ASSUME NEW chunk \in Nat, chunk >= HeapStart, (chunk - HeapStart) % Step = 0,
         NEW c \in Class \ {0}, NEW bytes \in Nat \ {0}, bytes = Step * c,
         chunk + ChunkSize(bytes) <= HeapEnd + 1
  PROVE  /\ IsFiniteSet(CarvedFrom(chunk, bytes))
         /\ \A addr \in ChunkBlocks(chunk, bytes) :
              /\ addr \in HeapAddr /\ chunk <= addr
              /\ addr + bytes <= chunk + ChunkSize(bytes)
         /\ (chunk + ChunkSize(bytes) - HeapStart) % Step = 0
         /\ ChunkSize(bytes) \in Nat \ {0}
<1> DEFINE q == ChunkSize(bytes) \div bytes
<1>1. q \in Nat \ {0} /\ ChunkSize(bytes) = bytes * q
  BY ChunkOfBlocks
<1>0. Step \in Nat \ {0} /\ HeapStart \in Nat /\ HeapEnd \in Nat /\ c \in Nat
  BY AllocatorAssumption DEF Class
<1> HIDE DEF q
<1>2. PICK m \in Int : chunk - HeapStart = Step * m
  <2> DEFINE n == chunk - HeapStart
  <2>1. n \in Int /\ n % Step = 0
    BY <1>0
  <2> HIDE DEF n
  <2>2. n = Step * (n \div Step) /\ n \div Step \in Int
    BY <1>0, <2>1, DivisionExact
  <2> QED BY <2>2 DEF n
<1>3. \A k \in Int : (chunk + k * bytes - HeapStart) % Step = 0
  <2> TAKE k \in Int
  <2>1. k * bytes = Step * (k * c)
    <3>1. \A u, v, w \in Int : u * (v * w) = v * (u * w)
      OBVIOUS
    <3> QED BY <1>0, <3>1
  <2>2. Step * m + Step * (k * c) = Step * (m + k * c) /\ k * bytes \in Int
    BY <1>0, <2>1
  <2>3. chunk + k * bytes - HeapStart = Step * (m + k * c) /\ m + k * c \in Int
    BY <1>0, <1>2, <2>1, <2>2
  <2>4. chunk + k * bytes - HeapStart \in Int
    BY <1>0, <2>2
  <2> QED BY <1>0, <2>3, <2>4, DivisionExact
<1>4. IsFiniteSet(CarvedFrom(chunk, bytes))
  <2> DEFINE f == [i \in 0 .. q - 1 |-> [addr |-> chunk + i * bytes, bytes |-> bytes]]
  <2>1. f \in Surjection(0 .. q - 1, CarvedFrom(chunk, bytes))
    <3>1. \A i \in 0 .. q - 1 : f[i] \in CarvedFrom(chunk, bytes)
      BY Zenon DEF CarvedFrom, ChunkBlocks, q
    <3>2. ASSUME NEW b \in CarvedFrom(chunk, bytes) PROVE \E i \in 0 .. q - 1 : f[i] = b
      <4>1. PICK addr \in ChunkBlocks(chunk, bytes) : b = [addr |-> addr, bytes |-> bytes]
        BY DEF CarvedFrom
      <4>2. PICK i \in 0 .. q - 1 : addr = chunk + i * bytes
        BY DEF ChunkBlocks, q
      <4> QED BY Zenon, <4>1, <4>2
    <3> QED BY Zenon, <3>1, <3>2 DEF Surjection
  <2>2. IsFiniteSet(0 .. q - 1)
    BY <1>1, FS_Interval
  <2> QED BY <2>1, <2>2, FS_Surjection
<1>5. ASSUME NEW addr \in ChunkBlocks(chunk, bytes)
      PROVE  addr \in HeapAddr /\ chunk <= addr /\ addr + bytes <= chunk + ChunkSize(bytes)
  <2>1. PICK i \in 0 .. q - 1 : addr = chunk + i * bytes
    BY DEF ChunkBlocks, q
  <2>2. i \in Nat /\ i < ChunkSize(bytes) \div bytes
    BY <1>1, <2>1 DEF q
  <2>3. addr \in Nat /\ chunk <= addr /\ addr + bytes <= chunk + ChunkSize(bytes)
    <3>0. i \in Nat /\ i + 1 \in Nat /\ q \in Nat /\ 0 \in Nat /\ (i = 0 \/ 0 < i)
          /\ (i + 1 = q \/ i + 1 < q) /\ ChunkSize(bytes) \in Int
      BY <1>1, <2>2 DEF q
    <3>1. addr = At(chunk, bytes, i)
      BY <2>1 DEF At
    <3>2. /\ At(chunk, bytes, i) \in Nat
          /\ At(chunk, bytes, i + 1) = At(chunk, bytes, i) + bytes
          /\ At(chunk, bytes, 0) = chunk
      <4>1. i \in Nat
        BY <3>0
      <4> QED BY ONLY <4>1, ChunkAddresses, chunk \in Nat, bytes \in Nat \ {0}
    <3>3. At(chunk, bytes, q) = chunk + ChunkSize(bytes)
      BY ChunkAddresses DEF q
    <3>4. 0 < i => At(chunk, bytes, 0) + bytes <= At(chunk, bytes, i)
      BY <3>0, ChunkAddresses
    <3>5. i + 1 < q => At(chunk, bytes, i + 1) + bytes <= At(chunk, bytes, q)
      BY <3>0, ChunkAddresses
    <3> QED BY <3>0, <3>1, <3>2, <3>3, <3>4, <3>5
  <2>4. ChunkSize(bytes) \in Int
    BY <1>1
  <2>5. addr <= HeapEnd
    <3> DEFINE size == ChunkSize(bytes)
    <3>1. size \in Int /\ addr + bytes <= chunk + size /\ chunk + size <= HeapEnd + 1
      BY <2>3, <2>4
    <3> HIDE DEF size
    <3> QED BY <1>0, <2>3, <3>1
  <2>6. (addr - HeapStart) % Step = 0
    <3>1. addr - HeapStart = chunk + i * bytes - HeapStart
      BY <1>0, <2>1, <2>2, <2>3
    <3>2. (chunk + i * bytes - HeapStart) % Step = 0
      BY <1>3, <2>2
    <3> QED BY <3>1, <3>2
  <2>7. addr \in HeapStart .. HeapEnd
    BY <1>0, <2>3, <2>5
  <2>8. addr \in HeapAddr
    BY <2>6, <2>7 DEF HeapAddr
  <2> QED BY <2>3, <2>8
<1>6. (chunk + ChunkSize(bytes) - HeapStart) % Step = 0
  <2>1. ChunkSize(bytes) = q * bytes
    BY <1>1
  <2> QED BY <1>1, <1>3, <2>1
<1>7. ChunkSize(bytes) \in Nat \ {0}
  BY <1>1
<1> QED BY <1>4, <1>5, <1>6, <1>7

-----------------------------------------------------------------------------
\* Refilling a class whose list is empty: its new blocks become its list.
LEMMA RefillKeepsSound ==
  ASSUME NEW h, NEW lv, NEW cv, Sound(h, lv, cv),
         NEW c \in Class \ {0}, NEW bytes \in Nat \ {0}, bytes = Step * c,
         ClassOf(bytes) = c,
         h.small_block_headers[c] = NULL,
         h.free_space + ChunkSize(bytes) <= HeapEnd + 1
  PROVE  /\ Sound(Refilled(h, bytes), lv, cv \cup CarvedFrom(h.free_space, bytes))
         /\ Refilled(h, bytes).small_block_headers[c] # NULL
         /\ Refilled(h, bytes).free_space = h.free_space + ChunkSize(bytes)
         /\ Refilled(h, bytes).free_space # h.free_space
         /\ Refilled(h, bytes).initialized = h.initialized
<1> DEFINE chunk == h.free_space
           r == Refilled(h, bytes)
           blocks == ChunkBlocks(chunk, bytes)
           new == CarvedFrom(chunk, bytes)
           q == ChunkSize(bytes) \div bytes
           at(i) == At(chunk, bytes, i)
           size == ChunkSize(bytes)
<1>1. /\ chunk \in Nat /\ chunk >= HeapStart /\ (chunk - HeapStart) % Step = 0
      /\ h \in Heaps /\ c \in Class
  BY DEF Sound, Layout, Heaps
<1> DEFINE headers == [h.small_block_headers EXCEPT ![c] = chunk]
           words == [addr \in HeapAddr |->
                       IF addr \notin blocks THEN h.word[addr]
                       ELSE IF addr + bytes \in blocks THEN addr + bytes ELSE NULL]
<1>2. r = [h EXCEPT !.free_space = chunk + size, !.small_block_headers[c] = chunk,
                    !.word = words]
  BY DEF Refilled
<1> HIDE DEF r
<1>3. /\ r.free_space = chunk + size
      /\ r.small_block_headers = headers
      /\ r.word = words
      /\ r.initialized = h.initialized
      /\ r = [initialized |-> h.initialized, free_space |-> chunk + size,
              small_block_headers |-> headers, word |-> words]
  <2> HIDE DEF words
  <2> QED BY <1>1, <1>2 DEF Heaps
<1> HIDE DEF headers, words
<1>4. /\ IsFiniteSet(new)
      /\ \A addr \in blocks : addr \in HeapAddr /\ chunk <= addr /\ addr + bytes <= chunk + size
      /\ (chunk + size - HeapStart) % Step = 0 /\ size \in Nat \ {0}
  BY <1>1, ChunkInHeap
<1>5. q \in Nat \ {0} /\ blocks = {at(i) : i \in 0 .. q - 1}
  BY ChunkOfBlocks DEF ChunkBlocks, At
<1>6. /\ \A i \in Nat : at(i) \in Nat /\ at(i + 1) = at(i) + bytes
      /\ \A i, j \in Nat : i < j => at(i) + bytes <= at(j)
      /\ at(0) = chunk /\ at(q) = chunk + size
  <2>1. chunk \in Nat
    BY <1>1
  <2> QED BY ONLY <2>1, bytes \in Nat \ {0}, ChunkAddresses
<1> HIDE DEF q, size, blocks, at
<1>7. HeapAddr \subseteq Nat \ {NULL}
  BY AllocatorAssumption DEF HeapAddr, NULL
<1>8. r \in Heaps
  <2>1. headers \in [Class -> Nat]
    BY <1>1 DEF Heaps, headers
  <2>2. words \in [HeapAddr -> Nat]
    BY <1>1, <1>7 DEF Heaps, words, NULL
  <2>3. h.initialized \in BOOLEAN /\ chunk + size \in Nat
    BY <1>1, <1>4 DEF Heaps
  <2> QED BY <1>3, <2>1, <2>2, <2>3 DEF Heaps
<1>9. \A b \in new : b.addr \in blocks /\ b.bytes = bytes /\ b \in [addr : HeapAddr, bytes : Nat \ {0}]
  BY <1>4 DEF CarvedFrom, blocks
<1>10. \A addr \in blocks : [addr |-> addr, bytes |-> bytes] \in new
  BY Zenon DEF CarvedFrom, blocks
<1>11. ASSUME NEW a \in cv
       PROVE  /\ a.addr + a.bytes <= chunk /\ a.addr < chunk /\ a.addr \in Nat
              /\ a.bytes \in Nat \ {0}
              /\ a.bytes = Step * ClassOf(a.bytes) /\ ClassOf(a.bytes) \in Class \ {0}
              /\ a.addr + a.bytes <= HeapEnd + 1
  <2>1. a \in [addr : HeapAddr, bytes : Nat \ {0}] /\ a.addr + a.bytes <= chunk
    BY DEF Sound, Layout
  <2>2. a.addr \in Nat /\ a.bytes \in Nat \ {0}
    BY <1>7, <2>1
  <2>3. a.addr < chunk
    <3>1. chunk \in Nat
      BY <1>1
    <3> QED BY <2>1, <2>2, <3>1
  <2> QED BY <2>1, <2>2, <2>3 DEF Sound, Layout
<1>12. Layout(r, cv \cup new)
  <2>1. IsFiniteSet(cv \cup new) /\ cv \cup new \subseteq [addr : HeapAddr, bytes : Nat \ {0}]
    BY <1>4, <1>9, FS_Union DEF Sound, Layout
  <2>2. ASSUME NEW b \in cv \cup new
        PROVE  /\ b.bytes = Step * ClassOf(b.bytes) /\ ClassOf(b.bytes) \in Class \ {0}
               /\ b.addr + b.bytes <= chunk + size /\ b.addr + b.bytes <= HeapEnd + 1
    <3>1. CASE b \in cv
      BY <1>1, <1>4, <1>11, <3>1
    <3>2. CASE b \in new
      <4>1. chunk + size <= HeapEnd + 1 /\ b.addr \in Nat /\ b.addr + bytes <= chunk + size
        BY <1>4, <1>7, <1>9, <3>2 DEF size
      <4> QED BY <1>1, <1>4, <1>9, <3>2, <4>1, AllocatorAssumption
    <3> QED BY <3>1, <3>2
  <2>3. ASSUME NEW a \in cv \cup new, NEW b \in cv \cup new, a # b PROVE Disjoint(a, b)
    <3>1. CASE a \in cv /\ b \in cv
      BY <2>3, <3>1 DEF Sound, Layout
    <3>0. ASSUME NEW old \in cv, NEW b1 \in new PROVE old.addr + old.bytes <= b1.addr
      <4>1. old.addr + old.bytes <= chunk /\ old.addr \in Nat /\ old.bytes \in Nat
        BY <1>11
      <4>2. chunk <= b1.addr /\ b1.addr \in Nat
        BY <1>4, <1>7, <1>9
      <4> QED BY <1>1, <4>1, <4>2
    <3>2. CASE a \in cv /\ b \in new
      BY <3>0, <3>2 DEF Disjoint
    <3>3. CASE a \in new /\ b \in cv
      BY <3>0, <3>3 DEF Disjoint
    <3>4. CASE a \in new /\ b \in new
      <4>1. PICK i \in 0 .. q - 1 : a.addr = at(i)
        BY <1>5, <1>9, <3>4
      <4>2. PICK j \in 0 .. q - 1 : b.addr = at(j)
        BY <1>5, <1>9, <3>4
      <4>3. a.addr # b.addr
        BY <1>9, <2>3, <3>4
      <4>4. i \in Nat /\ j \in Nat /\ (i < j \/ j < i)
        BY <1>5, <4>1, <4>2, <4>3
      <4>5. at(i) + bytes <= at(j) \/ at(j) + bytes <= at(i)
        BY <1>6, <4>4
      <4> QED BY <1>9, <3>4, <4>1, <4>2, <4>5 DEF Disjoint
    <3> QED BY <3>1, <3>2, <3>3, <3>4
  <2>4. r.free_space >= HeapStart /\ (r.free_space - HeapStart) % Step = 0
    BY <1>1, <1>3, <1>4, AllocatorAssumption
  <2> QED BY <1>3, <1>8, <2>1, <2>2, <2>3, <2>4 DEF Layout
<1>13. \A b \in lv : b.addr - Header < chunk /\ b.addr - Header \in HeapAddr
  <2> TAKE b \in lv
  <2> DEFINE block == [addr |-> b.addr - Header, bytes |-> Rounded(b.size)]
  <2>1. block \in cv /\ block \in [addr : HeapAddr, bytes : Nat \ {0}]
    BY DEF Sound, Given, Layout
  <2>2. block.addr < chunk
    BY <1>11, <2>1
  <2> QED BY <2>1, <2>2
<1>14. \A addr \in HeapAddr : addr < chunk => r.word[addr] = h.word[addr]
  <2> TAKE addr \in HeapAddr
  <2>1. addr < chunk => addr \notin blocks
    BY <1>1, <1>4, <1>7
  <2> QED BY <1>3, <2>1 DEF words
<1>15. Given(r, lv, cv \cup new)
  BY <1>13, <1>14 DEF Sound, Given
<1>16. \A d \in Class : d # c => Free(lv, cv \cup new, d) = Free(lv, cv, d)
  <2> TAKE d \in Class
  <2> HAVE d # c
  <2>1. \A b \in cv \cup new : ClassOf(b.bytes) = d => b \in cv
    BY <1>9
  <2> QED BY <2>1 DEF Free
<1>17. Free(lv, cv \cup new, c) = blocks
  <2>1. ASSUME NEW addr \in Free(lv, cv \cup new, c) PROVE addr \in blocks
    <3>1. PICK b \in cv \cup new : b.addr = addr /\ ClassOf(b.bytes) = c
      BY FreeBlocksAre
    <3>2. b \notin cv
      <4>1. Free(lv, cv, c) = {}
        BY <1>1, EmptyList DEF Sound, Chained
      <4> QED BY <2>1, <3>1, <4>1 DEF Free
    <3> QED BY <1>9, <3>1, <3>2
  <2>2. ASSUME NEW addr \in blocks PROVE addr \in Free(lv, cv \cup new, c)
    <3>1. \E b \in cv \cup new : b.addr = addr /\ ClassOf(b.bytes) = c
      <4>1. [addr |-> addr, bytes |-> bytes] \in cv \cup new
        BY Zenon, <1>10
      <4> QED BY <4>1
    <3>2. \A b \in lv : b.addr - Header # addr
      <4>1. chunk <= addr /\ addr \in Nat
        BY <1>4, <1>7
      <4>2. \A b \in lv : b.addr - Header < chunk /\ b.addr - Header \in Nat
        BY <1>7, <1>13
      <4> QED BY <1>1, <4>1, <4>2
    <3> QED BY <3>1, <3>2, FreeBlocksAre
  <2> QED BY <2>1, <2>2
<1>18. ASSUME NEW d \in Class, d # c
       PROVE  \E n \in Nat : \E s : Chain(r, lv, cv \cup new, d, n, s)
  <2>0. PICK n \in Nat : \E s : Chain(h, lv, cv, d, n, s)
    BY DEF Sound, Chained
  <2>1. PICK s : Chain(h, lv, cv, d, n, s)
    BY <2>0
  <2>2. r.small_block_headers[d] = h.small_block_headers[d]
    BY <1>1, <1>3, <1>18 DEF headers, Heaps
  <2>3. \A k \in 0 .. n - 1 : r.word[s[k]] = h.word[s[k]]
    BY <1>14, <2>1, FreeInHeap DEF Chain, Sound
  <2>4. Chain(r, lv, cv \cup new, d, n, s)
    BY <1>16, <1>18, <2>1, <2>2, <2>3 DEF Chain
  <2> QED BY <2>4
<1>19. \E n \in Nat : \E s : Chain(r, lv, cv \cup new, c, n, s)
  <2> DEFINE s == [k \in 0 .. q |-> IF k < q THEN at(k) ELSE NULL]
  <2>1. q \in Nat /\ 0 \in 0 .. q /\ q \in 0 .. q /\ 0 < q /\ ~(q < q)
        /\ \A k \in 0 .. q - 1 : k \in Nat /\ k < q /\ k \in 0 .. q /\ k + 1 \in 0 .. q
    BY <1>5
  <2>2. s[0] = at(0) /\ s[q] = NULL /\ \A k \in 0 .. q - 1 : s[k] = at(k)
    BY <2>1
  <2>3. \A k \in 0 .. q - 1 : s[k + 1] = IF k + 1 < q THEN at(k + 1) ELSE NULL
    BY <2>1
  <2> HIDE DEF s
  <2>4. r.small_block_headers[c] = chunk
    BY <1>1, <1>3 DEF headers, Heaps
  <2>5. ASSUME NEW k \in 0 .. q - 1 PROVE r.word[s[k]] = s[k + 1]
    <3>1. at(k) \in blocks /\ at(k) \in HeapAddr
      BY <1>4, <1>5
    <3>2. r.word[at(k)] = IF at(k + 1) \in blocks THEN at(k + 1) ELSE NULL
      <4>1. at(k) + bytes = at(k + 1)
        BY <1>6, <2>1
      <4>2. r.word[at(k)] = IF at(k) + bytes \in blocks THEN at(k) + bytes ELSE NULL
        BY <1>3, <3>1 DEF words
      <4> QED BY <4>1, <4>2
    <3>3. CASE k + 1 < q
      <4>1. k + 1 \in 0 .. q - 1
        BY <2>1, <3>3
      <4> QED BY <1>5, <2>2, <2>3, <3>2, <3>3, <4>1
    <3>4. CASE ~(k + 1 < q)
      <4>1. at(k + 1) = chunk + size
        <5>1. k + 1 = q
          BY <1>5, <2>1, <3>4
        <5> QED BY <1>6, <5>1
      <4>2. at(k + 1) \notin blocks
        BY <1>1, <1>4, <1>7, <4>1
      <4> QED BY <2>2, <2>3, <3>2, <3>4, <4>2
    <3> QED BY <3>3, <3>4
  <2>6. \A j, k \in 0 .. q - 1 : s[j] = s[k] => j = k
    <3> SUFFICES ASSUME NEW j \in 0 .. q - 1, NEW k \in 0 .. q - 1, j < k PROVE at(j) # at(k)
      BY <2>1, <2>2
    <3>1. at(j) + bytes <= at(k) /\ at(j) \in Nat
      BY <1>6, <2>1
    <3> QED BY <3>1
  <2>7. Chain(r, lv, cv \cup new, c, q, s)
    <3>1. \A addr \in blocks : \E k \in 0 .. q - 1 : s[k] = addr
      BY <1>5, <2>2
    <3>2. \A k \in 0 .. q - 1 : s[k] \in blocks
      BY <1>5, <2>2
    <3> QED BY <1>6, <1>17, <2>2, <2>4, <2>5, <2>6, <3>1, <3>2 DEF Chain
  <2> QED BY <2>1, <2>7
<1>20. Chained(r, lv, cv \cup new)
  BY <1>18, <1>19 DEF Chained
<1>21. r.small_block_headers[c] # NULL /\ r.free_space # chunk
  <2>1. r.small_block_headers[c] = chunk /\ chunk # NULL
    BY <1>1, <1>3, AllocatorAssumption DEF headers, Heaps, NULL
  <2> QED BY <1>1, <1>3, <1>4, <2>1
<1>22. r.free_space = h.free_space + ChunkSize(bytes) /\ r.initialized = h.initialized
  BY <1>3 DEF size
<1> QED BY <1>12, <1>15, <1>20, <1>21, <1>22 DEF Sound, r

-----------------------------------------------------------------------------
\* Taking the first free block of a class: it is no longer in the list, and knows
\* its size.
LEMMA UnlinkKeepsSound ==
  ASSUME NEW h, NEW lv, NEW cv, Sound(h, lv, cv),
         NEW size \in Int, Serves(size),
         NEW c \in Class, c = ClassOf(Rounded(size)),
         h.small_block_headers[c] # NULL
  PROVE  LET block == h.small_block_headers[c]
             given == [addr |-> block + Header, size |-> size]
         IN  /\ Sound(Unlinked(h, Rounded(size)), lv \cup {given}, cv)
             /\ [addr |-> block, bytes |-> Rounded(size)] \in cv
             /\ block \notin InUseIn(lv) /\ block \in Nat
             /\ Unlinked(h, Rounded(size)).initialized = h.initialized
             /\ Unlinked(h, Rounded(size)).free_space = h.free_space
<1> DEFINE block == h.small_block_headers[c]
           bytes == Rounded(size)
           given == [addr |-> block + Header, size |-> size]
           nowLive == lv \cup {given}
           r == Unlinked(h, bytes)
           headers == [h.small_block_headers EXCEPT ![c] = h.word[block]]
           words == [h.word EXCEPT ![block] = bytes]
<1>1. h \in Heaps /\ Layout(h, cv) /\ Given(h, lv, cv)
  BY DEF Sound, Layout
<1>0. PICK n \in Nat : \E s : Chain(h, lv, cv, c, n, s)
  BY DEF Sound, Chained
<1>2. PICK s : Chain(h, lv, cv, c, n, s)
  BY <1>0
<1>3. n # 0 /\ s[0] = block /\ block \in Free(lv, cv, c)
  <2>1. n # 0 /\ s[0] = block
    BY <1>1, <1>2, EmptyList DEF Chain
  <2>2. 0 \in 0 .. n - 1
    BY <2>1
  <2> QED BY <1>2, <2>1, <2>2 DEF Chain
<1>4. block \in HeapAddr /\ block \in Nat /\ block \notin InUseIn(lv)
  <2> HIDE DEF block
  <2>1. block \in HeapAddr
    BY <1>1, <1>3, FreeInHeap
  <2> QED BY <1>3, <2>1, AllocatorAssumption DEF HeapAddr, Free
<1>5. [addr |-> block, bytes |-> bytes] \in cv
  <2>1. PICK b \in cv : b.addr = block /\ ClassOf(b.bytes) = c
    BY <1>3, FreeBlocksAre
  <2>2. b \in [addr : HeapAddr, bytes : Nat \ {0}] /\ b.bytes = Step * c
    BY <1>1, <2>1 DEF Layout
  <2>3. size \in Int /\ size >= 1
    BY GuestHeapAssumption DEF Serves
  <2>4. bytes = Step * c
    BY <2>3, RoundedBytes
  <2>5. b = [addr |-> block, bytes |-> bytes]
    BY <2>1, <2>2, <2>4
  <2> QED BY <2>1, <2>5
<1>6. bytes \in Nat
  BY GuestHeapAssumption, RoundedBytes DEF Serves
<1>7. /\ r.small_block_headers = headers /\ r.word = words
      /\ r.initialized = h.initialized /\ r.free_space = h.free_space
      /\ r \in Heaps
  <2>1. r = [h EXCEPT !.small_block_headers[c] = h.word[block], !.word[block] = bytes]
    BY DEF Unlinked
  <2>2. headers \in [Class -> Nat] /\ words \in [HeapAddr -> Nat]
    BY <1>1, <1>4, <1>6 DEF Heaps
  <2> HIDE DEF r, bytes, block
  <2> QED BY <1>1, <2>1, <2>2 DEF Heaps
<1> HIDE DEF r, bytes
<1>8. InUseIn(nowLive) = InUseIn(lv) \cup {block}
  <2>1. given.addr - Header = block
    BY <1>4 DEF Header
  <2> HIDE DEF block, given
  <2> QED BY <2>1 DEF InUseIn
<1>9. r.word[block] = bytes /\ \A x \in HeapAddr : x # block => r.word[x] = h.word[x]
  <2>1. h.word \in [HeapAddr -> Nat] /\ r.word = words
    BY <1>1, <1>7 DEF Heaps
  <2> HIDE DEF block
  <2> QED BY <1>4, <2>1
<1>10. Layout(r, cv)
  BY <1>1, <1>7 DEF Layout
<1>11. Given(r, nowLive, cv)
  <2>1. nowLive \subseteq [addr : Nat, size : Int]
    BY <1>1, <1>4 DEF Given, Header
  <2>2. given.addr - Header = block /\ given.size = size
    BY <1>4 DEF Header
  <2> HIDE DEF given, block
  <2>3. ASSUME NEW b \in nowLive
        PROVE  /\ Serves(b.size) /\ r.word[b.addr - Header] = Rounded(b.size)
               /\ [addr |-> b.addr - Header, bytes |-> Rounded(b.size)] \in cv
    <3>1. CASE b = given
      BY <1>5, <1>9, <2>2, <3>1 DEF bytes
    <3>2. CASE b \in lv
      <4>1. [addr |-> b.addr - Header, bytes |-> Rounded(b.size)] \in cv
        BY <1>1, <3>2 DEF Given
      <4>2. b.addr - Header \in HeapAddr
        BY <1>1, <4>1 DEF Layout
      <4>3. b.addr - Header # block
        BY <1>4, <3>2 DEF InUseIn
      <4> QED BY <1>1, <1>9, <3>2, <4>1, <4>2, <4>3 DEF Given
    <3> QED BY <3>1, <3>2
  <2>4. \A b \in lv : b.addr # given.addr
    BY <1>4, <2>2 DEF InUseIn
  <2>5. \A a, b \in nowLive : a.addr = b.addr => a = b
    BY <1>1, <2>4 DEF Given
  <2> QED BY <2>1, <2>3, <2>5 DEF Given
<1>12. \A d : Free(nowLive, cv, d) = Free(lv, cv, d) \ {block}
  BY <1>8 DEF Free
<1>13. ASSUME NEW d \in Class, d # c PROVE \E m \in Nat : \E list : Chain(r, nowLive, cv, d, m, list)
  <2>0. PICK m \in Nat : \E list : Chain(h, lv, cv, d, m, list)
    BY DEF Sound, Chained
  <2>1. PICK list : Chain(h, lv, cv, d, m, list)
    BY <2>0
  <2>2. block \notin Free(lv, cv, d)
    <3>1. SUFFICES ASSUME NEW a \in cv, NEW b \in cv, a.addr = block, b.addr = block,
                          ClassOf(a.bytes) = c, ClassOf(b.bytes) = d
                   PROVE  FALSE
      BY <1>3, FreeBlocksAre
    <3> QED BY <1>1, <1>13, <3>1, SameBlock
  <2>3. Free(nowLive, cv, d) = Free(lv, cv, d)
    BY <1>12, <2>2
  <2>4. \A k \in 0 .. m - 1 : r.word[list[k]] = h.word[list[k]]
    BY <1>1, <1>9, <2>1, <2>2, FreeInHeap DEF Chain
  <2>5. r.small_block_headers[d] = h.small_block_headers[d]
    BY <1>1, <1>7, <1>13 DEF Heaps
  <2>6. Chain(r, nowLive, cv, d, m, list)
    BY <2>1, <2>3, <2>4, <2>5 DEF Chain
  <2> QED BY <2>6
<1>14. \E m \in Nat : \E list : Chain(r, nowLive, cv, c, m, list)
  <2> DEFINE list == [k \in 0 .. n - 1 |-> s[k + 1]]
             m == n - 1
  <2>1. m \in Nat /\ 0 \in 0 .. m /\ m \in 0 .. m /\ \A k \in 0 .. m - 1 : k \in 0 .. m /\ k + 1 \in 0 .. m
    BY <1>3
  <2>2. \A k \in 0 .. m : list[k] = s[k + 1]
    OBVIOUS
  <2> HIDE DEF list
  <2>3. \A k \in 0 .. m - 1 : k + 1 \in 0 .. n - 1 /\ k + 1 # 0
    BY <1>3
  <2>4. list[0] = r.small_block_headers[c]
    <3>1. 0 \in 0 .. n - 1
      BY <1>3
    <3>2. h.word[s[0]] = s[0 + 1]
      BY <1>2, <3>1 DEF Chain
    <3>3. r.small_block_headers[c] = h.word[block]
      BY <1>1, <1>7 DEF Heaps
    <3> QED BY <1>3, <2>1, <2>2, <3>2, <3>3
  <2>5. list[m] = NULL
    <3>1. m + 1 = n
      OBVIOUS
    <3> QED BY <1>2, <2>1, <2>2, <3>1 DEF Chain
  <2>6. ASSUME NEW k \in 0 .. m - 1 PROVE list[k] \in Free(nowLive, cv, c) /\ r.word[list[k]] = list[k + 1]
    <3>1. 0 \in 0 .. n - 1 /\ list[k] = s[k + 1] /\ list[k + 1] = s[(k + 1) + 1]
      BY <1>3, <2>1, <2>2
    <3>2. s[k + 1] # block /\ s[k + 1] \in Free(lv, cv, c) /\ h.word[s[k + 1]] = s[(k + 1) + 1]
      BY <1>2, <1>3, <2>3, <3>1 DEF Chain
    <3> QED BY <1>1, <1>9, <1>12, <3>1, <3>2, FreeInHeap
  <2>7. ASSUME NEW addr \in Free(nowLive, cv, c) PROVE \E k \in 0 .. m - 1 : list[k] = addr
    <3>1. addr \in Free(lv, cv, c) /\ addr # s[0]
      BY <1>3, <1>12
    <3>2. PICK k \in 0 .. n - 1 : s[k] = addr
      BY <1>2, <3>1 DEF Chain
    <3>3. k - 1 \in 0 .. m - 1 /\ (k - 1) + 1 = k
      BY <3>1, <3>2
    <3> QED BY <2>1, <2>2, <3>2, <3>3
  <2>8. \A j, k \in 0 .. m - 1 : list[j] = list[k] => j = k
    <3> TAKE j \in 0 .. m - 1, k \in 0 .. m - 1
    <3>1. s[j + 1] = s[k + 1] => j + 1 = k + 1
      BY <1>2, <2>3 DEF Chain
    <3> QED BY <2>1, <2>2, <3>1
  <2>9. Chain(r, nowLive, cv, c, m, list)
    BY <2>4, <2>5, <2>6, <2>7, <2>8 DEF Chain
  <2> QED BY <2>1, <2>9
<1>15. Chained(r, nowLive, cv)
  BY <1>13, <1>14 DEF Chained
<1> QED BY <1>4, <1>5, <1>7, <1>10, <1>11, <1>15 DEF Sound, r, bytes

\* Giving a block back: it becomes the first of the list of its class.
LEMMA ReleaseKeepsSound ==
  ASSUME NEW h, NEW lv, NEW cv, Sound(h, lv, cv), NEW gone \in lv
  PROVE  /\ Sound(release(h, gone.addr), lv \ {gone}, cv)
         /\ release(h, gone.addr).initialized = h.initialized
         /\ release(h, gone.addr).free_space = h.free_space
         /\ h.word[gone.addr - Header] = Rounded(gone.size)
<1> DEFINE block == gone.addr - Header
           kept == lv \ {gone}
           bytes == Rounded(gone.size)
           c == ClassOf(bytes)
           r == release(h, gone.addr)
           headers == [h.small_block_headers EXCEPT ![c] = block]
           words == [h.word EXCEPT ![block] = h.small_block_headers[c]]
<1>1. h \in Heaps /\ Layout(h, cv) /\ Given(h, lv, cv)
  BY DEF Sound, Layout
<1>2. /\ [addr |-> block, bytes |-> bytes] \in cv /\ h.word[block] = bytes
      /\ block \in HeapAddr /\ c \in Class
  <2>1. [addr |-> block, bytes |-> bytes] \in cv /\ h.word[block] = bytes
    BY <1>1 DEF Given
  <2> HIDE DEF block, bytes, c
  <2>2. [addr |-> block, bytes |-> bytes] \in [addr : HeapAddr, bytes : Nat \ {0}]
        /\ ClassOf([addr |-> block, bytes |-> bytes].bytes) \in Class
    BY <1>1, <2>1 DEF Layout
  <2> QED BY <2>1, <2>2 DEF c
<1>3. /\ r.small_block_headers = headers /\ r.word = words
      /\ r.initialized = h.initialized /\ r.free_space = h.free_space
      /\ r \in Heaps
  <2>1. r = [h EXCEPT !.word[block] = h.small_block_headers[c], !.small_block_headers[c] = block]
    BY <1>2 DEF release
  <2>2. headers \in [Class -> Nat] /\ words \in [HeapAddr -> Nat]
    <3>1. HeapAddr \subseteq Nat
      BY AllocatorAssumption DEF HeapAddr
    <3> HIDE DEF block, c
    <3> QED BY <1>1, <1>2, <3>1 DEF Heaps
  <2> HIDE DEF r, c, block
  <2> QED BY <1>1, <2>1, <2>2 DEF Heaps
<1> HIDE DEF r, bytes, c
<1>4. InUseIn(kept) = InUseIn(lv) \ {block}
  <2>1. ASSUME NEW b \in lv, b.addr - Header = block PROVE b = gone
    <3>1. b.addr \in Nat /\ gone.addr \in Nat
      BY <1>1 DEF Given
    <3> QED BY <1>1, <2>1, <3>1 DEF Given, Header
  <2>2. block \in InUseIn(lv)
    BY DEF InUseIn
  <2> QED BY <2>1, <2>2 DEF InUseIn
<1> HIDE DEF block
<1>5. r.word[block] = h.small_block_headers[c]
      /\ \A x \in HeapAddr : x # block => r.word[x] = h.word[x]
  <2>1. h.word \in [HeapAddr -> Nat] /\ r.word = words
    BY <1>1, <1>3 DEF Heaps
  <2> QED BY <1>2, <2>1
<1>6. Layout(r, cv)
  BY <1>1, <1>3 DEF Layout
<1>7. Given(r, kept, cv)
  <2>1. ASSUME NEW b \in kept PROVE r.word[b.addr - Header] = Rounded(b.size)
    <3>1. [addr |-> b.addr - Header, bytes |-> Rounded(b.size)] \in cv
      BY <1>1 DEF Given
    <3>2. b.addr - Header \in HeapAddr
      BY <1>1, <3>1 DEF Layout
    <3>3. b.addr - Header # block
      BY <1>4 DEF InUseIn
    <3> QED BY <1>1, <1>5, <3>2, <3>3 DEF Given
  <2> QED BY <1>1, <2>1 DEF Given
<1>8. \A d : block \notin Free(lv, cv, d)
  BY <1>4 DEF Free, InUseIn, block
<1>9. \A d : Free(kept, cv, d) = Free(lv, cv, d) \cup (IF d = c THEN {block} ELSE {})
  <2> TAKE d
  <2>1. block \in Free(kept, cv, d) <=> d = c
    <3>1. [addr |-> block, bytes |-> bytes].addr = block
          /\ [addr |-> block, bytes |-> bytes].bytes = bytes
      OBVIOUS
    <3>2. \A b \in cv : b.addr = block => b.bytes = bytes
      BY <1>1, <1>2, <3>1, SameBlock
    <3>3. block \notin InUseIn(kept)
      BY <1>4
    <3> QED BY <1>2, <3>1, <3>2, <3>3 DEF Free, c
  <2>2. \A x : x # block => (x \in Free(kept, cv, d) <=> x \in Free(lv, cv, d))
    BY <1>4 DEF Free
  <2> QED BY <1>8, <2>1, <2>2
<1>10. \A d \in Class, m \in Nat : \A list : Chain(h, lv, cv, d, m, list) =>
         \A k \in 0 .. m - 1 : list[k] # block /\ r.word[list[k]] = list[k + 1]
  BY <1>1, <1>5, <1>8, FreeInHeap DEF Chain
<1>11. ASSUME NEW d \in Class, d # c PROVE \E m \in Nat : \E list : Chain(r, kept, cv, d, m, list)
  <2>0. PICK m \in Nat : \E list : Chain(h, lv, cv, d, m, list)
    BY DEF Sound, Chained
  <2>1. PICK list : Chain(h, lv, cv, d, m, list)
    BY <2>0
  <2>2. Free(kept, cv, d) = Free(lv, cv, d)
    BY <1>9, <1>11
  <2>3. r.small_block_headers[d] = h.small_block_headers[d]
    BY <1>1, <1>3, <1>11 DEF Heaps
  <2>4. \A k \in 0 .. m - 1 : r.word[list[k]] = list[k + 1]
    BY <1>10, <2>1
  <2>5. Chain(r, kept, cv, d, m, list)
    BY <2>1, <2>2, <2>3, <2>4 DEF Chain
  <2> QED BY <2>5
<1>12. \E m \in Nat : \E list : Chain(r, kept, cv, c, m, list)
  <2>0. PICK n \in Nat : \E s : Chain(h, lv, cv, c, n, s)
    BY <1>2 DEF Sound, Chained
  <2>1. PICK s : Chain(h, lv, cv, c, n, s)
    BY <2>0
  <2> DEFINE m == n + 1
             list == [k \in 0 .. m |-> IF k = 0 THEN block ELSE s[k - 1]]
  <2>2. /\ m \in Nat /\ m # 0 /\ m - 1 = n
        /\ \A k \in 0 .. m - 1 : k \in 0 .. m /\ k + 1 \in 0 .. m /\ k + 1 # 0 /\ (k + 1) - 1 = k
        /\ \A k \in 0 .. m - 1 : k # 0 => k - 1 \in 0 .. n - 1
    OBVIOUS
  <2>3. list[0] = block /\ list[m] = s[n] /\ \A k \in 0 .. m - 1 : list[k + 1] = s[k]
    BY <2>2
  <2>4. \A k \in 0 .. m - 1 : k # 0 => list[k] = s[k - 1]
    BY <2>2
  <2> HIDE DEF list
  <2>5. Free(kept, cv, c) = Free(lv, cv, c) \cup {block}
    BY <1>9
  <2>6. r.small_block_headers[c] = block
    BY <1>1, <1>2, <1>3 DEF Heaps
  <2>7. ASSUME NEW k \in 0 .. m - 1 PROVE list[k] \in Free(kept, cv, c) /\ r.word[list[k]] = list[k + 1]
    <3>1. CASE k = 0
      <4>1. s[0] = h.small_block_headers[c]
        BY <2>1 DEF Chain
      <4> QED BY <1>5, <2>2, <2>3, <2>5, <3>1, <4>1
    <3>2. CASE k # 0
      <4>1. k - 1 \in 0 .. n - 1 /\ list[k] = s[k - 1] /\ list[k + 1] = s[(k - 1) + 1]
        BY <2>2, <2>3, <2>4, <3>2
      <4>2. \A i \in 0 .. n - 1 : r.word[s[i]] = s[i + 1] /\ s[i] \in Free(lv, cv, c)
        <5>1. c \in Class
          BY <1>2
        <5>2. \A i \in 0 .. n - 1 : r.word[s[i]] = s[i + 1]
          BY <1>10, <2>1, <5>1
        <5> QED BY <2>1, <5>2 DEF Chain
      <4> QED BY <2>5, <4>1, <4>2
    <3> QED BY <3>1, <3>2
  <2>8. ASSUME NEW addr \in Free(kept, cv, c) PROVE \E k \in 0 .. m - 1 : list[k] = addr
    <3>1. CASE addr = block
      BY <2>2, <2>3, <3>1
    <3>2. CASE addr # block
      <4>1. PICK k \in 0 .. n - 1 : s[k] = addr
        BY <2>1, <2>5, <3>2 DEF Chain
      <4>2. k \in 0 .. m - 1 /\ k + 1 \in 0 .. m - 1
        BY <4>1
      <4> QED BY <2>3, <4>1, <4>2
    <3> QED BY <3>1, <3>2
  <2>9. ASSUME NEW j \in 0 .. m - 1, NEW k \in 0 .. m - 1, list[j] = list[k] PROVE j = k
    <3>1. \A i \in 0 .. m - 1 : i # 0 => list[i] # block
      BY <1>2, <1>10, <2>1, <2>2, <2>4
    <3>2. CASE j = 0 \/ k = 0
      BY <2>3, <2>9, <3>1, <3>2
    <3>3. CASE j # 0 /\ k # 0
      <4>1. j - 1 = k - 1
        BY <2>1, <2>2, <2>4, <2>9, <3>3 DEF Chain
      <4> QED BY <4>1
    <3> QED BY <3>2, <3>3
  <2>10. Chain(r, kept, cv, c, m, list)
    BY <2>1, <2>3, <2>6, <2>7, <2>8, <2>9 DEF Chain
  <2> QED BY <2>2, <2>10
<1>13. Chained(r, kept, cv)
  BY <1>11, <1>12 DEF Chained
<1> QED BY <1>2, <1>3, <1>6, <1>7, <1>13 DEF Sound, r, bytes, block

-----------------------------------------------------------------------------
\* The first call finds the headers as it leaves them.
LEMMA InitializedSame ==
  ASSUME NEW h \in Heaps, Cleared(h)
  PROVE  /\ Initialized(h) \in Heaps /\ Initialized(h).initialized
         /\ Initialized(h).free_space = h.free_space /\ Initialized(h).word = h.word
         /\ Initialized(h).small_block_headers = h.small_block_headers
<1>1. CASE h.initialized
  BY <1>1 DEF Initialized, Heaps
<1>2. CASE ~h.initialized
  <2> DEFINE cleared == [c \in Class |-> NULL]
  <2>1. h.small_block_headers = cleared
    BY <1>2 DEF Cleared, Heaps
  <2>2. cleared \in [Class -> Nat]
    BY DEF NULL
  <2>3. Initialized(h) = [h EXCEPT !.initialized = TRUE, !.small_block_headers = cleared]
    BY <1>2 DEF Initialized
  <2> HIDE DEF cleared
  <2> QED BY <2>1, <2>2, <2>3 DEF Heaps
<1> QED BY <1>1, <1>2

\* Clearing the lists, which are empty before the first allocation, keeps the heap sound.
LEMMA InitializedKeepsSound ==
  ASSUME NEW h, NEW lv, NEW cv, Sound(h, lv, cv), Cleared(h)
  PROVE  Sound(Initialized(h), lv, cv)
<1>1. h \in Heaps
  BY DEF Sound, Layout
<1>2. Layout(Initialized(h), cv)
  BY <1>1, InitializedSame DEF Sound, Layout
<1>3. Given(Initialized(h), lv, cv)
  BY <1>1, InitializedSame DEF Sound, Given
<1>4. Chained(Initialized(h), lv, cv)
  <2> SUFFICES ASSUME NEW c \in Class
               PROVE  \E n \in Nat : \E s : Chain(Initialized(h), lv, cv, c, n, s)
    BY DEF Chained
  <2>0. PICK n \in Nat : \E s : Chain(h, lv, cv, c, n, s)
    BY DEF Sound, Chained
  <2>1. PICK s : Chain(h, lv, cv, c, n, s)
    BY <2>0
  <2>2. Chain(Initialized(h), lv, cv, c, n, s)
    BY <1>1, <2>1, InitializedSame DEF Chain
  <2> QED BY <2>2
<1> QED BY <1>2, <1>3, <1>4 DEF Sound

\* What a call of allocate leaves carved.
CarvedAfter(h, cv, size) ==
  IF allocate(h, size).heap.free_space = h.free_space THEN cv
  ELSE cv \cup CarvedFrom(h.free_space, Rounded(size))

\* There is a free block, or room for a chunk.
Affords(h, lv, cv, size) == Free(lv, cv, ClassOf(Rounded(size))) = {} => HasRoom(h, size)

\* allocate gives a block that was free, or was cut from free space; a size that is
\* not served gets NULL and changes nothing.
LEMMA AllocateKeepsSound ==
  ASSUME NEW h, NEW lv, NEW cv, Sound(h, lv, cv), Cleared(h),
         NEW size \in Int, Affords(h, lv, cv, size)
  PROVE  LET result == allocate(h, size)
             given == [addr |-> result.ptr, size |-> size]
         IN  /\ result.heap.initialized
             /\ ~Serves(size) => /\ result.ptr = NULL
                                 /\ CarvedAfter(h, cv, size) = cv
                                 /\ result.heap.free_space = h.free_space
                                 /\ Sound(result.heap, lv, cv)
             /\ Serves(size) =>
                  /\ result.heap.free_space
                       = IF Free(lv, cv, ClassOf(Rounded(size))) # {} THEN h.free_space
                         ELSE h.free_space + ChunkSize(Rounded(size))
                  /\ result.ptr \in Nat \ {NULL} /\ result.ptr - Header \notin InUseIn(lv)
                  /\ Sound(result.heap, lv \cup {given}, CarvedAfter(h, cv, size))
<1> DEFINE first == Initialized(h)
           bytes == Rounded(size)
           c == ClassOf(bytes)
           ready == Refilled(first, bytes)
           block == ready.small_block_headers[c]
           result == allocate(h, size)
<1>1. h \in Heaps
  BY DEF Sound, Layout
<1>2. /\ Sound(first, lv, cv) /\ first.initialized /\ first.free_space = h.free_space
      /\ first \in Heaps
  BY <1>1, InitializedSame, InitializedKeepsSound
<1>3. CASE ~Serves(size)
  <2>1. result = [heap |-> first, ptr |-> NULL]
    BY <1>3 DEF allocate
  <2> HIDE DEF first
  <2> QED BY <1>2, <1>3, <2>1 DEF CarvedAfter
<1>4. CASE Serves(size)
  <2>1. size \in Int /\ size >= 1 /\ c < NumSizes
    BY <1>4, GuestHeapAssumption DEF Serves
  <2>2. /\ c \in Class \ {0} /\ c \in Class /\ bytes \in Nat \ {0} /\ bytes = Step * c
        /\ size + Header <= bytes
    <3>1. /\ bytes \in Nat /\ bytes = Step * c /\ size + Header <= bytes
          /\ c \in Nat \ {0}
      BY <2>1, RoundedBytes
    <3> HIDE DEF c, bytes
    <3> QED BY <2>1, <3>1, AllocatorAssumption DEF Class, Header
  <2>3. result = [heap |-> Unlinked(ready, bytes), ptr |-> block + Header]
    BY <1>4 DEF allocate
  <2> DEFINE carvedNow == IF first.small_block_headers[c] # NULL THEN cv
                          ELSE cv \cup CarvedFrom(h.free_space, bytes)
  <2>10. first.small_block_headers[c] # NULL <=> Free(lv, cv, c) # {}
    <3> HIDE DEF first, c
    <3>0. PICK n \in Nat : \E s : Chain(first, lv, cv, c, n, s)
      BY <1>2, <2>2 DEF Sound, Chained
    <3>1. PICK s : Chain(first, lv, cv, c, n, s)
      BY <3>0
    <3> QED BY <1>2, <3>1, EmptyList DEF Sound
  <2>4. /\ Sound(ready, lv, carvedNow) /\ block # NULL /\ ready.initialized
        /\ ready.free_space = h.free_space <=> first.small_block_headers[c] # NULL
        /\ ready.free_space = IF first.small_block_headers[c] # NULL THEN h.free_space
                              ELSE h.free_space + ChunkSize(bytes)
    <3>1. CASE first.small_block_headers[c] # NULL
      <4>1. ready = first
        BY <3>1 DEF Refilled
      <4> HIDE DEF ready, first
      <4> QED BY <1>2, <3>1, <4>1
    <3>2. CASE first.small_block_headers[c] = NULL
      <4>1. first.free_space + ChunkSize(bytes) <= HeapEnd + 1
        <5>1. Free(lv, cv, c) = {}
          BY <2>10, <3>2
        <5>2. h.free_space + ChunkSize(bytes) <= HeapEnd + 1
          BY <1>4, <5>1 DEF HasRoom, Affords
        <5> HIDE DEF first
        <5> QED BY <1>2, <5>2
      <4>2. c = ClassOf(bytes)
        OBVIOUS
      <4> HIDE DEF first, bytes, c
      <4>3. c \in Class \ {0} /\ bytes \in Nat \ {0} /\ bytes = Step * c
        BY <2>2
      <4>4. /\ Sound(ready, lv, cv \cup CarvedFrom(first.free_space, bytes))
            /\ ready.small_block_headers[c] # NULL /\ ready.initialized = first.initialized
            /\ ready.free_space = first.free_space + ChunkSize(bytes)
            /\ ready.free_space # first.free_space
        BY <1>2, <3>2, <4>1, <4>2, <4>3, RefillKeepsSound
      <4> HIDE DEF ready
      <4> QED BY <1>2, <3>2, <4>4
    <3> QED BY <3>1, <3>2
  <2> DEFINE given == [addr |-> block + Header, size |-> size]
             after == Unlinked(ready, bytes)
  <2>5. /\ Sound(after, lv \cup {given}, carvedNow)
        /\ block \notin InUseIn(lv) /\ block \in Nat
        /\ after.initialized = ready.initialized
        /\ after.free_space = ready.free_space
    <3> HIDE DEF ready, carvedNow
    <3> QED BY <1>4, <2>2, <2>4, UnlinkKeepsSound
  <2>6. CarvedAfter(h, cv, size) = carvedNow
    <3>1. result.heap.free_space = ready.free_space
      BY <2>3, <2>5
    <3> HIDE DEF ready, first
    <3> QED BY <2>4, <3>1 DEF CarvedAfter
  <2>7. result.ptr \in Nat \ {NULL} /\ result.ptr - Header = block
    <3> HIDE DEF ready, after, c, bytes, result, block
    <3> QED BY <2>3, <2>5 DEF Header, NULL
  <2>8. result.heap = after /\ [addr |-> result.ptr, size |-> size] = given
    <3>1. result = [heap |-> after, ptr |-> block + Header]
      BY <2>3
    <3> HIDE DEF result, after, block
    <3> QED BY <3>1
  <2> HIDE DEF after, ready, carvedNow, bytes, c, result, block, given, first
  <2>9. /\ result.heap.initialized
        /\ result.heap.free_space = IF Free(lv, cv, c) # {} THEN h.free_space
                                    ELSE h.free_space + ChunkSize(bytes)
    BY <2>4, <2>5, <2>8, <2>10
  <2> QED BY <1>4, <2>5, <2>6, <2>7, <2>8, <2>9 DEF result, bytes, c
<1> QED BY <1>3, <1>4

-----------------------------------------------------------------------------
IInv ==
  /\ Sound(heap, live, carved)
  /\ Cleared(heap) /\ (~heap.initialized => live = {})
  /\ \A b \in live : b.size \in Sizes

\* Before the first call nothing is carved, and every list is empty.
LEMMA FreshSound ==
  /\ Sound(init_heap, {}, {}) /\ Cleared(init_heap)
  /\ init_heap.free_space = HeapStart /\ ~init_heap.initialized
<1> DEFINE headers == [c \in Class |-> NULL]
           words == [addr \in HeapAddr |-> 0]
           h == init_heap
<1>1. headers \in [Class -> Nat] /\ words \in [HeapAddr -> Nat]
  BY DEF NULL
<1>2. h = [initialized |-> FALSE, free_space |-> HeapStart,
           small_block_headers |-> headers, word |-> words]
  BY DEF init_heap
<1>3. \A c \in Class : headers[c] = NULL
  OBVIOUS
<1> HIDE DEF headers, words, h
<1>4. /\ h \in Heaps /\ h.free_space = HeapStart /\ h.small_block_headers = headers
      /\ ~h.initialized
  BY <1>1, <1>2, AllocatorAssumption DEF Heaps
<1>5. Layout(h, {})
  <2>1. (HeapStart - HeapStart) % Step = 0
    BY AllocatorAssumption
  <2>2. HeapStart >= HeapStart
    BY AllocatorAssumption
  <2> QED BY <1>4, <2>1, <2>2, FS_EmptySet DEF Layout
<1>6. Given(h, {}, {})
  BY DEF Given
<1>7. ASSUME NEW c \in Class PROVE Chain(h, {}, {}, c, 0, headers)
  <2>1. Free({}, {}, c) = {}
    BY DEF Free
  <2>2. headers[0] = NULL /\ headers[c] = NULL
    BY <1>3, AllocatorAssumption DEF Class
  <2> QED BY <1>4, <2>1, <2>2 DEF Chain
<1>8. Chained(h, {}, {})
  BY <1>7 DEF Chained
<1>9. Sound(h, {}, {}) /\ Cleared(h)
  BY <1>3, <1>4, <1>5, <1>6, <1>8 DEF Sound, Cleared
<1> QED BY <1>4, <1>9 DEF h

\* So it is at the start of the program.
LEMMA InitSound == Init => IInv
BY FreshSound DEF Init, IInv

\* Every call keeps the heap sound.
LEMMA NextSound == IInv /\ [Next]_vars => IInv'
<1> SUFFICES ASSUME IInv, [Next]_vars PROVE IInv'
  OBVIOUS
<1>1. ASSUME NEW size \in Sizes, Allocate(size) PROVE IInv'
  <2> DEFINE result == allocate(heap, size)
             given == [addr |-> result.ptr, size |-> size]
  <2>0. size \in Int
    BY GuestHeapAssumption
  <2>1. /\ heap' = result.heap /\ HasRoom(heap, size)
        /\ live' = IF result.ptr = NULL THEN live ELSE live \cup {given}
        /\ carved' = CarvedAfter(heap, carved, size)
    BY <1>1 DEF Allocate, CarvedAfter, CarvedFrom
  <2>2. /\ result.heap.initialized
        /\ ~Serves(size) => /\ result.ptr = NULL
                            /\ CarvedAfter(heap, carved, size) = carved
                            /\ Sound(result.heap, live, carved)
        /\ Serves(size) => /\ result.ptr # NULL
                           /\ Sound(result.heap, live \cup {given}, CarvedAfter(heap, carved, size))
    BY <2>0, <2>1, AllocateKeepsSound DEF IInv, Affords
  <2>3. \A b \in live' : b.size \in Sizes
    BY <2>1 DEF IInv
  <2> HIDE DEF result, given
  <2>4. Sound(heap', live', carved')
    BY <2>1, <2>2
  <2> QED BY <2>1, <2>2, <2>3, <2>4 DEF IInv, Cleared
<1>2. ASSUME NEW block \in live, Release(block) PROVE IInv'
  <2>1. /\ heap' = release(heap, block.addr) /\ live' = live \ {block} /\ carved' = carved
    BY <1>2 DEF Release
  <2>2. Sound(heap', live', carved')
    BY <2>1, ReleaseKeepsSound DEF IInv
  <2>3. heap'.initialized
    BY <2>1, ReleaseKeepsSound DEF IInv
  <2>4. \A b \in live' : b.size \in Sizes
    BY <2>1 DEF IInv
  <2> QED BY <2>2, <2>3, <2>4 DEF IInv, Cleared
<1>3. CASE UNCHANGED vars
  BY <1>3 DEF vars, IInv, Cleared
<1> QED BY <1>1, <1>2, <1>3 DEF Next

-----------------------------------------------------------------------------
\* One link after the other, from the header of the class.
Followed(c, f) ==
  [k \in 0 .. Cardinality(carved) |->
     IF k = 0 THEN heap.small_block_headers[c]
     ELSE IF f[k - 1] = NULL THEN NULL ELSE heap.word[f[k - 1]]]

\* A list is no longer than there are blocks.
LEMMA ChainLength ==
  ASSUME NEW h, NEW lv, NEW cv, NEW c, NEW n \in Nat, NEW s, Chain(h, lv, cv, c, n, s),
         NEW S, IsFiniteSet(S), Free(lv, cv, c) \subseteq S
  PROVE  Cardinality(S) \in Nat /\ n <= Cardinality(S)
<1> DEFINE f == [k \in 0 .. n - 1 |-> s[k]]
<1>1. f \in Injection(0 .. n - 1, S)
  <2>1. \A k \in 0 .. n - 1 : s[k] \in S
    BY DEF Chain
  <2>2. \A j, k \in 0 .. n - 1 : s[j] = s[k] => j = k
    BY DEF Chain
  <2> QED BY <2>1, <2>2 DEF Injection, IsInjective
<1>2. Cardinality(0 .. n - 1) = n
  BY FS_Interval
<1> QED BY <1>1, <1>2, FS_Injection, FS_CardinalityType

\* link follows the list of class c of the heap h, N times.
Follows(h, c, N, link) ==
  \A k \in 0 .. N : link[k] = IF k = 0 THEN h.small_block_headers[c]
                              ELSE IF link[k - 1] = NULL THEN NULL ELSE h.word[link[k - 1]]

\* There is such a function: what a recursive definition of it means.
LEMMA LinksExist ==
  ASSUME NEW h, NEW lv, NEW cv, Sound(h, lv, cv), NEW c \in Class, NEW n \in Nat, NEW s,
         Chain(h, lv, cv, c, n, s), NEW N \in Nat, n <= N
  PROVE  LET list == [k \in 0 .. N |-> IF k < n THEN s[k] ELSE NULL] IN Follows(h, c, N, list)
<1> DEFINE list == [k \in 0 .. N |-> IF k < n THEN s[k] ELSE NULL]
<1>2. \A k \in 0 .. n - 1 : s[k] # NULL /\ h.word[s[k]] = s[k + 1]
  BY FreeInHeap DEF Sound, Chain
<1>3. ASSUME NEW k \in 0 .. N
      PROVE  list[k] = IF k = 0 THEN h.small_block_headers[c]
                       ELSE IF list[k - 1] = NULL THEN NULL ELSE h.word[list[k - 1]]
  <2>1. CASE k = 0
    BY <2>1 DEF Chain
  <2>2. CASE k # 0 /\ k - 1 < n
    <3>1. k - 1 \in 0 .. N /\ k - 1 \in 0 .. n - 1 /\ (k - 1) + 1 = k /\ (k < n \/ k = n)
      BY <2>2
    <3>2. list[k - 1] = s[k - 1] /\ s[k - 1] # NULL /\ h.word[s[k - 1]] = s[k]
      BY <1>2, <2>2, <3>1
    <3>3. list[k] = s[k]
      BY <3>1 DEF Chain
    <3> HIDE DEF list
    <3> QED BY <2>2, <3>2, <3>3
  <2>3. CASE k # 0 /\ ~(k - 1 < n)
    BY <2>3
  <2> QED BY <2>1, <2>2, <2>3
<1> HIDE DEF list
<1>4. Follows(h, c, N, list)
  BY <1>3 DEF Follows
<1> QED BY <1>4 DEF list

\* Following the links of a class gives its list, and then NULL.
LEMMA LinksOfChain ==
  ASSUME NEW h, NEW lv, NEW cv, Sound(h, lv, cv), NEW c \in Class, NEW n \in Nat, NEW s,
         Chain(h, lv, cv, c, n, s), NEW N \in Nat, n <= N, NEW link, Follows(h, c, N, link)
  PROVE  /\ \A k \in 0 .. N : link[k] = IF k < n THEN s[k] ELSE NULL
         /\ {link[k] : k \in 0 .. N} \ {NULL} = Free(lv, cv, c)
<1> DEFINE list == [k \in 0 .. N |-> IF k < n THEN s[k] ELSE NULL]
<1>1. Follows(h, c, N, list)
  BY LinksExist
<1> DEFINE Agree == {k \in 0 .. N : link[k] = list[k]}
<1>2. 0 \in Agree
  <2>1. 0 \in 0 .. N
    OBVIOUS
  <2> HIDE DEF list
  <2> QED BY <1>1, <2>1 DEF Follows
<1>3. ASSUME NEW k \in 0 .. N - 1, k \in Agree PROVE k + 1 \in Agree
  <2>1. k + 1 \in 0 .. N /\ k + 1 # 0 /\ (k + 1) - 1 = k
    OBVIOUS
  <2> HIDE DEF list
  <2> QED BY <1>1, <1>3, <2>1 DEF Follows
<1>4. 0 .. N \subseteq Agree
  <2> HIDE DEF Agree
  <2> QED BY <1>2, <1>3, BoundedInduction
<1>5. \A k \in 0 .. N : link[k] = IF k < n THEN s[k] ELSE NULL
  BY <1>4
<1>6. \A k \in 0 .. n - 1 : s[k] \in Free(lv, cv, c) /\ s[k] # NULL
  BY FreeInHeap DEF Sound, Chain
<1>7. \A k \in 0 .. n - 1 : k \in 0 .. N /\ link[k] = s[k]
  BY <1>5
<1>8. \A addr \in Free(lv, cv, c) : \E k \in 0 .. n - 1 : s[k] = addr
  BY DEF Chain
<1>9. \A k \in 0 .. N : link[k] # NULL => k \in 0 .. n - 1
  BY <1>5
<1>10. {link[k] : k \in 0 .. N} \ {NULL} = Free(lv, cv, c)
  BY <1>6, <1>7, <1>8, <1>9
<1> QED BY <1>5, <1>10

\* The list of a class holds its free blocks, and ends.
LEMMA ListsOfFreeBlocks ==
  ASSUME IInv, NEW c \in Class
  PROVE  Link(c)[Cardinality(carved)] = NULL /\ FreeList(c) = Free(live, carved, c)
<1> DEFINE N == Cardinality(carved)
           link == Link(c)
<1>0. PICK n \in Nat : \E s : Chain(heap, live, carved, c, n, s)
  BY DEF IInv, Sound, Chained
<1>1. PICK s : Chain(heap, live, carved, c, n, s)
  BY <1>0
<1>2. N \in Nat /\ n <= N
  <2> DEFINE S == {b.addr : b \in carved}
  <2>1. IsFiniteSet(carved)
    BY DEF IInv, Sound, Layout
  <2>2. IsFiniteSet(S) /\ Cardinality(S) <= N /\ N \in Nat /\ Cardinality(S) \in Nat
    <3>1. [b \in carved |-> b.addr] \in Surjection(carved, S)
      BY DEF Surjection
    <3> HIDE DEF S
    <3> QED BY <2>1, <3>1, FS_Surjection, FS_CardinalityType
  <2>3. Free(live, carved, c) \subseteq S
    BY DEF Free
  <2> HIDE DEF S
  <2>4. n <= Cardinality(S)
    BY <1>1, <2>2, <2>3, ChainLength
  <2> QED BY <2>2, <2>4
<1>3. Follows(heap, c, N, link)
  <2> DEFINE list == [k \in 0 .. N |-> IF k < n THEN s[k] ELSE NULL]
  <2>1. Follows(heap, c, N, list)
    BY <1>1, <1>2, LinksExist DEF IInv
  <2>2. list = Followed(c, list)
    <3>1. Followed(c, list) = [k \in 0 .. N |-> list[k]]
      <4> HIDE DEF list
      <4> QED BY <2>1 DEF Followed, Follows
    <3> QED BY Zenon, <3>1
  <2>3. link = Followed(c, link)
    <3> HIDE DEF list
    <3> QED BY Zenon, <2>2 DEF Link, Followed
  <2> HIDE DEF link
  <2> QED BY <2>3 DEF Followed, Follows
<1>4. FreeList(c) = {link[k] : k \in 0 .. N} \ {NULL}
  BY DEF FreeList
<1> HIDE DEF link
<1>5. /\ \A k \in 0 .. N : link[k] = IF k < n THEN s[k] ELSE NULL
      /\ {link[k] : k \in 0 .. N} \ {NULL} = Free(live, carved, c)
  BY <1>1, <1>2, <1>3, LinksOfChain DEF IInv
<1>6. link[N] = NULL
  BY <1>2, <1>5
<1> QED BY <1>4, <1>5, <1>6 DEF N, link

\* What the invariant says of a block in use.
LEMMA GivenBlocks ==
  ASSUME NEW h, NEW lv, NEW cv, Sound(h, lv, cv), NEW b \in lv
  PROVE  /\ b \in [addr : Nat, size : Int] /\ b.size \in Int /\ b.size >= 1
         /\ b.addr - Header \in HeapAddr /\ HeapStart <= b.addr - Header
         /\ h.word[b.addr - Header] = Rounded(b.size)
         /\ [addr |-> b.addr - Header, bytes |-> Rounded(b.size)] \in cv
         /\ Rounded(b.size) \in Nat /\ b.size + Header <= Rounded(b.size)
         /\ (b.addr - Header) + Rounded(b.size) <= HeapEnd + 1
<1> DEFINE block == [addr |-> b.addr - Header, bytes |-> Rounded(b.size)]
<1>1. b \in [addr : Nat, size : Int] /\ Serves(b.size) /\ block \in cv
      /\ h.word[b.addr - Header] = Rounded(b.size)
  BY DEF Sound, Given
<1>2. b.size \in Int /\ b.size >= 1
  BY <1>1, GuestHeapAssumption DEF Serves
<1>3. Rounded(b.size) \in Nat /\ b.size + Header <= Rounded(b.size)
  BY <1>2, RoundedBytes
<1>4. block \in [addr : HeapAddr, bytes : Nat \ {0}] /\ block.addr + block.bytes <= HeapEnd + 1
  <2> HIDE DEF block
  <2> QED BY <1>1 DEF Sound, Layout
<1>5. b.addr - Header \in HeapAddr /\ (b.addr - Header) + Rounded(b.size) <= HeapEnd + 1
  BY <1>4
<1>6. \A addr \in HeapAddr : HeapStart <= addr
  BY AllocatorAssumption DEF HeapAddr
<1> QED BY <1>1, <1>2, <1>3, <1>5, <1>6

\* Every block is in one place, and no word of a block lies where a program writes.
LEMMA BlocksOnce == IInv => EveryBlockOnce
<1> SUFFICES ASSUME IInv PROVE EveryBlockOnce
  OBVIOUS
<1>1. \A c \in Class :
        /\ Link(c)[Cardinality(carved)] = NULL
        /\ FreeList(c) = {b.addr : b \in {b \in carved : ClassOf(b.bytes) = c}} \ InUseAddresses
  BY ListsOfFreeBlocks DEF Free, InUseIn, InUseAddresses
<1>2. ASSUME NEW b \in live
      PROVE  /\ [addr |-> b.addr - Header, bytes |-> heap.word[b.addr - Header]] \in carved
             /\ \A c \in carved : (b.addr .. b.addr + b.size - 1) \cap Word(c) = {}
  <2> DEFINE block == [addr |-> b.addr - Header, bytes |-> Rounded(b.size)]
  <2>1. /\ b.addr \in Nat /\ b.size \in Int /\ b.size >= 1 /\ block \in carved
        /\ Rounded(b.size) \in Nat /\ b.size + Header <= Rounded(b.size)
        /\ heap.word[b.addr - Header] = Rounded(b.size)
    BY GivenBlocks DEF IInv
  <2>2. ASSUME NEW c \in carved, NEW x \in b.addr .. b.addr + b.size - 1
        PROVE  x \notin Word(c)
    <3>1. c.addr \in Nat /\ c.bytes \in Nat /\ c.bytes >= Header
      <4>1. c \in [addr : HeapAddr, bytes : Nat \ {0}] /\ c.bytes = Step * ClassOf(c.bytes)
            /\ ClassOf(c.bytes) \in Class \ {0}
        BY DEF IInv, Sound, Layout
      <4>2. \A k \in Nat \ {0} : Step * k >= 4
        BY AllocatorAssumption
      <4> QED BY <4>1, <4>2, AllocatorAssumption DEF Class, HeapAddr, Header
    <3>2. x \in Int /\ x >= b.addr /\ x < b.addr + b.size
      BY <2>1
    <3>3. CASE c = block
      BY <2>1, <3>2, <3>3 DEF Word, Header
    <3>4. CASE c # block
      <4>1. Disjoint(c, block)
        BY <2>1, <3>4 DEF IInv, Sound, Layout
      <4> QED BY <2>1, <3>1, <3>2, <4>1 DEF Disjoint, Word, Header
    <3> QED BY <3>3, <3>4
  <2> QED BY <2>1, <2>2
<1> QED BY <1>1, <1>2 DEF EveryBlockOnce

\* The pointers are blocks of the heap or NULL.
LEMMA SoundTypes == IInv => TypeOK
<1> SUFFICES ASSUME IInv PROVE TypeOK
  OBVIOUS
<1>1. heap \in Heaps
  BY DEF IInv, Sound, Layout
<1>2. \A b \in live : b.addr - Header \in HeapAddr /\ b.size \in Sizes
  <2> TAKE b \in live
  <2>1. b \in [addr : Nat, size : Int] /\ b.addr - Header \in HeapAddr
    BY GivenBlocks DEF IInv
  <2> QED BY <2>1 DEF IInv
<1>3. ASSUME NEW b \in carved PROVE b.addr \in HeapAddr /\ b.bytes % Step = 0
  <2>1. b \in [addr : HeapAddr, bytes : Nat \ {0}] /\ b.bytes = Step * ClassOf(b.bytes)
        /\ ClassOf(b.bytes) \in Class \ {0}
    BY DEF IInv, Sound, Layout
  <2>2. ClassOf(b.bytes) \in Int /\ b.bytes \in Int /\ Step \in Nat \ {0}
    BY <2>1, AllocatorAssumption DEF Class
  <2> QED BY <2>1, <2>2, DivisionExact
<1>4. ASSUME NEW c \in Class PROVE heap.small_block_headers[c] \in HeapAddr \cup {NULL}
  <2>0. PICK n \in Nat : \E s : Chain(heap, live, carved, c, n, s)
    BY DEF IInv, Sound, Chained
  <2>1. PICK s : Chain(heap, live, carved, c, n, s)
    BY <2>0
  <2>2. CASE n = 0
    BY <2>1, <2>2 DEF Chain
  <2>3. CASE n # 0
    <3>1. 0 \in 0 .. n - 1
      BY <2>3
    <3>2. s[0] \in Free(live, carved, c) /\ s[0] = heap.small_block_headers[c]
      BY <2>1, <3>1 DEF Chain
    <3> QED BY <3>2, FreeInHeap DEF IInv, Sound
  <2> QED BY <2>2, <2>3
<1> QED BY <1>1, <1>2, <1>3, <1>4 DEF TypeOK

-----------------------------------------------------------------------------
\* Blocks in use share no byte, and lie in the heap.
LEMMA BytesOfBlocks ==
  ASSUME NEW h, NEW lv, NEW cv, Sound(h, lv, cv), NEW a \in lv, NEW b \in lv
  PROVE  /\ Store!Bytes(a) \subseteq HeapStart .. HeapEnd /\ a.addr \in HeapStart .. HeapEnd
         /\ a # b => Store!Bytes(a) \cap Store!Bytes(b) = {}
<1> DEFINE block(x) == [addr |-> x.addr - Header, bytes |-> Rounded(x.size)]
<1>1. \A x \in lv :
        /\ x.addr \in Nat /\ x.size \in Int /\ x.size >= 1 /\ HeapStart <= x.addr - Header
        /\ Rounded(x.size) \in Nat /\ x.size + Header <= Rounded(x.size)
        /\ (x.addr - Header) + Rounded(x.size) <= HeapEnd + 1
        /\ block(x) \in cv
  BY GivenBlocks
<1>2. HeapStart \in Nat /\ HeapEnd \in Nat
  BY AllocatorAssumption
<1>3. Store!Bytes(a) \subseteq HeapStart .. HeapEnd /\ a.addr \in HeapStart .. HeapEnd
  <2>1. /\ a.addr \in Nat /\ a.size \in Int /\ a.size >= 1 /\ HeapStart <= a.addr - 4
        /\ Rounded(a.size) \in Nat /\ a.size + 4 <= Rounded(a.size)
        /\ (a.addr - 4) + Rounded(a.size) <= HeapEnd + 1
    BY <1>1 DEF Header
  <2>2. HeapStart <= a.addr /\ a.addr + a.size - 1 <= HeapEnd
    BY <1>2, <2>1
  <2> QED BY <1>2, <2>1, <2>2 DEF Store!Bytes
<1>4. ASSUME a # b PROVE Store!Bytes(a) \cap Store!Bytes(b) = {}
  <2>1. a.addr # b.addr /\ a.addr \in Nat /\ b.addr \in Nat
    BY <1>1, <1>4 DEF Sound, Given
  <2>2. block(a).addr # block(b).addr
    BY <2>1 DEF Header
  <2>3. Disjoint(block(a), block(b))
    <3> HIDE DEF block
    <3> QED BY <1>1, <2>2 DEF Sound, Layout
  <2>4. (a.addr - 4) + Rounded(a.size) <= b.addr - 4
        \/ (b.addr - 4) + Rounded(b.size) <= a.addr - 4
    BY <2>3 DEF Disjoint, Header
  <2>5. a.addr + a.size <= b.addr \/ b.addr + b.size <= a.addr
    <3>1. /\ a.size \in Int /\ Rounded(a.size) \in Nat /\ a.size + 4 <= Rounded(a.size)
          /\ b.size \in Int /\ Rounded(b.size) \in Nat /\ b.size + 4 <= Rounded(b.size)
      BY <1>1 DEF Header
    <3> QED BY <2>1, <2>4, <3>1
  <2>6. a.size \in Int /\ b.size \in Int
    BY <1>1
  <2> QED BY <2>1, <2>5, <2>6 DEF Store!Bytes
<1> QED BY <1>3, <1>4

\* Every call is a call of the store.
LEMMA StoreStep == IInv /\ IInv' /\ [Next]_vars => [Store!Next]_(Store!vars)
<1> SUFFICES ASSUME IInv, IInv', [Next]_vars PROVE [Store!Next]_(Store!vars)
  OBVIOUS
<1>1. ASSUME NEW size \in Sizes, Allocate(size) PROVE Store!Allocate(size)
  <2> DEFINE result == allocate(heap, size)
             given == [addr |-> result.ptr, size |-> size]
  <2>1. /\ HasRoom(heap, size)
        /\ live' = IF result.ptr = NULL THEN live ELSE live \cup {given}
        /\ last' = [call |-> "allocate", size |-> size, ptr |-> result.ptr]
    BY <1>1 DEF Allocate
  <2>2. size \in Int /\ (Serves(size) <=> size \in 1 .. (NumSizes - 1) * Step - Header)
    BY ServedSizes, GuestHeapAssumption
  <2>3. /\ ~Serves(size) => result.ptr = NULL
        /\ Serves(size) => result.ptr # NULL /\ result.ptr - Header \notin InUseIn(live)
    BY <2>1, <2>2, AllocateKeepsSound DEF IInv, Affords
  <2> HIDE DEF result
  <2>4. CASE ~Serves(size)
    BY <2>1, <2>2, <2>3, <2>4 DEF Store!Allocate
  <2>5. CASE Serves(size)
    <3>1. live' = live \cup {given} /\ given \in live'
      BY <2>1, <2>3, <2>5
    <3>2. \A other \in live : other \in live' /\ other # given
      BY <2>3, <2>5, <3>1 DEF InUseIn
    <3>3. /\ Store!Bytes(given) \subseteq HeapStart .. HeapEnd
          /\ given.addr \in HeapStart .. HeapEnd
          /\ \A other \in live : Store!Bytes(given) \cap Store!Bytes(other) = {}
      <4>1. \A a, b \in live' :
              /\ Store!Bytes(a) \subseteq HeapStart .. HeapEnd /\ a.addr \in HeapStart .. HeapEnd
              /\ a # b => Store!Bytes(a) \cap Store!Bytes(b) = {}
        BY BytesOfBlocks DEF IInv
      <4> HIDE DEF given
      <4> QED BY <3>1, <3>2, <4>1
    <3> QED BY <2>1, <2>2, <2>5, <3>1, <3>3 DEF Store!Allocate
  <2> QED BY <2>4, <2>5
<1>2. ASSUME NEW block \in live, Release(block) PROVE Store!Release(block)
  BY <1>2 DEF Release, Store!Release
<1>3. CASE UNCHANGED vars
  BY <1>3 DEF vars, Store!vars
<1> QED BY <1>1, <1>2, <1>3 DEF Next, Store!Next

\* The inductive invariant holds.
LEMMA SoundHolds == Spec => []IInv
<1>1. Init => IInv
  BY InitSound
<1>2. IInv /\ [Next]_vars => IInv'
  BY NextSound
<1> QED BY <1>1, <1>2, PTL DEF Spec

\* Every pointer that allocate and release leave in the heap is that of a block or
\* NULL, whatever the size step, the chunks and the order of the calls.
THEOREM TypeCorrect == Spec => []TypeOK
<1>1. Spec => []IInv
  BY SoundHolds
<1>2. IInv => TypeOK
  BY SoundTypes
<1> QED BY <1>1, <1>2, PTL

\* allocate and release lose no block and put none in two places, and no link or
\* size lies where a program may write.
THEOREM NoBlockLost == Spec => []EveryBlockOnce
<1>1. Spec => []IInv
  BY SoundHolds
<1>2. IInv => EveryBlockOnce
  BY BlocksOnce
<1> QED BY <1>1, <1>2, PTL

\* The allocator implements the store, for every set of sizes whose rounding is an int:
\* blocks in use lie in the heap, are as large as asked for, and share no byte.
THEOREM StoreImplemented == Spec => StoreSpec
<1>1. Init => Store!Init
  BY DEF Init, Store!Init
<1>2. IInv /\ IInv' /\ [Next]_vars => [Store!Next]_(Store!vars)
  BY StoreStep
<1>3. Spec => []IInv
  BY SoundHolds
<1> QED BY <1>1, <1>2, <1>3, PTL DEF Spec, StoreSpec, Store!Spec

-----------------------------------------------------------------------------
(***************************************************************************)
(* How the heap grows: the blocks of each class fill as many chunks as the *)
(* most blocks of the class that were in use together.                     *)
(***************************************************************************)

SizeClasses == Class \ {0}
Carved(cv, c) == {b \in cv : ClassOf(b.bytes) = c}
Used(lv, c) == {b \in lv : ClassOf(Rounded(b.size)) = c}
PerChunk(c) == ChunkSize(c * Step) \div (c * Step)

GrownAsUsed ==
  /\ peak \in [Class -> Nat]
  /\ \A c \in SizeClasses :
       /\ InUse(live, c) <= peak[c]
       /\ Cardinality(Carved(carved, c)) = PerChunk(c) * Chunks(c)

GrowthInv == IInv /\ GrownAsUsed /\ SpaceFollowsPeak

\* The classes are finitely many, the blocks of each have a size, and its chunks
\* hold at least one.
LEMMA ClassSizes ==
  /\ IsFiniteSet(SizeClasses)
  /\ \A c \in SizeClasses :
       /\ c * Step \in Nat \ {0} /\ c * Step = Step * c /\ ClassOf(c * Step) = c
       /\ PerChunk(c) \in Nat \ {0} /\ ChunkSize(c * Step) \in Nat \ {0}
<1>1. IsFiniteSet(SizeClasses)
  <2>1. IsFiniteSet(0 .. NumSizes - 1)
    BY FS_Interval, AllocatorAssumption
  <2> QED BY <2>1, FS_Subset DEF SizeClasses, Class
<1>2. ASSUME NEW c \in SizeClasses
      PROVE  /\ c * Step \in Nat \ {0} /\ c * Step = Step * c /\ ClassOf(c * Step) = c
             /\ PerChunk(c) \in Nat \ {0} /\ ChunkSize(c * Step) \in Nat \ {0}
  <2>1. c \in Nat \ {0} /\ Step \in Nat \ {0}
    BY AllocatorAssumption DEF SizeClasses, Class
  <2>2. c * Step = Step * c /\ c * Step \in Nat \ {0}
    BY <2>1
  <2>3. (Step * c) \div Step = c
    BY <2>1, DivisionExact
  <2> DEFINE bytes == c * Step
             q == ChunkSize(bytes) \div bytes
  <2>4. q \in Nat \ {0} /\ ChunkSize(bytes) = bytes * q
    <3> HIDE DEF bytes
    <3> QED BY <2>2, ChunkOfBlocks DEF bytes
  <2>5. ChunkSize(bytes) \in Nat \ {0}
    <3> HIDE DEF q, bytes
    <3> QED BY <2>2, <2>4 DEF bytes
  <2> QED BY <2>2, <2>3, <2>4, <2>5 DEF PerChunk, ClassOf
<1> QED BY <1>1, <1>2

\* k chunks of per blocks are the fewest that hold p.
LEMMA FewestChunks ==
  ASSUME NEW per \in Nat \ {0}, NEW p \in Nat, NEW k \in Int
  PROVE  (p + per - 1) \div per = k <=> p <= per * k /\ per * k < p + per
<1> DEFINE n == p + per - 1
           q == n \div per
           r == n % per
<1>1. n \in Int /\ q \in Int /\ r \in 0 .. per - 1 /\ n = per * q + r
  OBVIOUS
<1>2. ASSUME q = k PROVE p <= per * k /\ per * k < p + per
  <2>1. per * q \in Int
    BY <1>1
  <2>2. p + per - 1 = per * q + r
    BY <1>1
  <2> HIDE DEF q, r, n
  <2> QED BY <1>1, <1>2, <2>1, <2>2
<1>3. ASSUME p <= per * k, per * k < p + per PROVE q = k
  <2>1. per * k \in Int
    OBVIOUS
  <2>2. n - per * k \in 0 .. per - 1 /\ per * k + (n - per * k) = n
    BY <1>3, <2>1
  <2> HIDE DEF n
  <2> QED BY <2>2, DivisionUnique
<1> QED BY <1>2, <1>3

\* The blocks in use of a class are as many as were carved when none is free, and
\* fewer when one is.
LEMMA UsedBlocks ==
  ASSUME NEW h, NEW lv, NEW cv, Layout(h, cv), Given(h, lv, cv), NEW c
  PROVE  /\ IsFiniteSet(Used(lv, c)) /\ InUse(lv, c) = Cardinality(Used(lv, c))
         /\ InUse(lv, c) \in Nat /\ InUse(lv, c) <= Cardinality(Carved(cv, c))
         /\ InUse(lv, c) = Cardinality(Carved(cv, c)) <=> Free(lv, cv, c) = {}
<1> DEFINE used == Used(lv, c)
           blocks == Carved(cv, c)
           block(b) == [addr |-> b.addr - Header, bytes |-> Rounded(b.size)]
           f == [b \in used |-> block(b)]
<1>1. IsFiniteSet(blocks) /\ Cardinality(blocks) \in Nat
  BY FS_Subset, FS_CardinalityType DEF Carved, Layout
<1>2. \A b \in used : block(b) \in blocks
  BY DEF Given, Carved, Used
<1>3. ASSUME NEW a \in used, NEW b \in used, block(a) = block(b) PROVE a = b
  <2>1. a.addr - 4 = b.addr - 4 /\ a.addr \in Nat /\ b.addr \in Nat
    BY <1>3 DEF Given, Header, Used
  <2>2. a.addr = b.addr
    BY <2>1
  <2> QED BY <2>2 DEF Given, Used
<1>4. f \in Injection(used, blocks)
  <2>1. f \in [used -> blocks]
    BY <1>2
  <2> QED BY <1>3, <2>1 DEF Injection, IsInjective
<1>5. f \in Surjection(used, blocks) <=> Free(lv, cv, c) = {}
  <2>1. ASSUME Free(lv, cv, c) = {}, NEW x \in blocks PROVE \E b \in used : f[b] = x
    <3>1. x.addr \notin Free(lv, cv, c) /\ x \in cv /\ ClassOf(x.bytes) = c
      BY <2>1 DEF Carved
    <3>2. PICK b \in lv : b.addr - Header = x.addr
      BY <3>1, FreeBlocksAre
    <3>3. block(b) \in cv /\ block(b).addr = x.addr
      BY <3>2 DEF Given
    <3> HIDE DEF block
    <3>4. block(b) = x
      BY <3>1, <3>3, SameBlock
    <3>5. b \in used
      BY <3>1, <3>2, <3>4 DEF block, Used
    <3> QED BY <3>4, <3>5
  <2>2. ASSUME NEW addr \in Free(lv, cv, c) PROVE \E x \in blocks : \A b \in used : f[b] # x
    <3>1. PICK x \in cv : x.addr = addr /\ ClassOf(x.bytes) = c
      BY <2>2, FreeBlocksAre
    <3>2. \A b \in used : b.addr - Header # addr
      BY <2>2, FreeBlocksAre DEF Used
    <3>3. \A b \in used : f[b].addr = b.addr - Header
      OBVIOUS
    <3> HIDE DEF f
    <3> QED BY <3>1, <3>2, <3>3 DEF Carved
  <2> HIDE DEF f
  <2> QED BY <1>4, <2>1, <2>2 DEF Injection, Surjection
<1> HIDE DEF f, used, blocks
<1>6. IsFiniteSet(used) /\ Cardinality(used) <= Cardinality(blocks)
      /\ (Cardinality(used) = Cardinality(blocks) <=> f \in Surjection(used, blocks))
  BY <1>1, <1>4, FS_Injection
<1>7. Cardinality(used) \in Nat /\ InUse(lv, c) = Cardinality(used)
  BY <1>6, FS_CardinalityType DEF InUse, Used, used
<1> QED BY <1>5, <1>6, <1>7 DEF used, blocks

\* A chunk adds as many blocks to its class as it holds.
LEMMA CarvedCount ==
  ASSUME NEW h, NEW cv, Layout(h, cv), NEW c \in SizeClasses
  PROVE  Cardinality(Carved(cv \cup CarvedFrom(h.free_space, c * Step), c))
           = Cardinality(Carved(cv, c)) + PerChunk(c)
<1> DEFINE chunk == h.free_space
           bytes == c * Step
           q == PerChunk(c)
           at(i) == At(chunk, bytes, i)
           new == CarvedFrom(chunk, bytes)
           f == [i \in 0 .. q - 1 |-> [addr |-> at(i), bytes |-> bytes]]
<1>1. /\ chunk \in Nat /\ bytes \in Nat \ {0} /\ q \in Nat \ {0} /\ ClassOf(bytes) = c
      /\ q = ChunkSize(bytes) \div bytes
  BY ClassSizes DEF Layout, Heaps, PerChunk
<1> HIDE DEF bytes, q, chunk
<1>2. new = {[addr |-> at(i), bytes |-> bytes] : i \in 0 .. q - 1}
  BY <1>1 DEF CarvedFrom, ChunkBlocks, At
<1>3. \A i, j \in Nat : i < j => at(i) + bytes <= at(j)
  BY <1>1, ChunkAddresses
<1>4. \A i \in Nat : at(i) \in Nat /\ at(i) >= chunk
  <2> TAKE i \in Nat
  <2>1. i * bytes \in Nat
    BY <1>1
  <2> QED BY <1>1, <2>1 DEF At
<1>5. IsFiniteSet(new) /\ Cardinality(new) = q
  <2>1. f \in Surjection(0 .. q - 1, new)
    BY <1>2 DEF Surjection
  <2>2. ASSUME NEW i \in 0 .. q - 1, NEW j \in 0 .. q - 1, f[i] = f[j] PROVE i = j
    <3>1. at(i) = at(j) /\ i \in Nat /\ j \in Nat
      <4>1. f[i].addr = at(i) /\ f[j].addr = at(j)
        OBVIOUS
      <4> QED BY <2>2, <4>1
    <3> HIDE DEF at
    <3> QED BY <1>1, <1>3, <1>4, <3>1
  <2>3. IsFiniteSet(0 .. q - 1) /\ Cardinality(0 .. q - 1) = q
    <3>1. 0 \in Int /\ q - 1 \in Int /\ ~(0 > q - 1) /\ (q - 1) - 0 + 1 = q
      BY <1>1
    <3>2. IsFiniteSet(0 .. q - 1) /\ Cardinality(0 .. q - 1) = (q - 1) - 0 + 1
      BY <3>1, FS_Interval
    <3> QED BY <3>1, <3>2
  <2> HIDE DEF f
  <2>4. f \in Injection(0 .. q - 1, new)
    BY <2>1, <2>2 DEF Injection, Surjection, IsInjective
  <2> HIDE DEF new
  <2> QED BY <2>1, <2>3, <2>4, FS_Surjection
<1>6. Carved(cv \cup new, c) = Carved(cv, c) \cup new
  <2>1. \A b \in new : b.bytes = bytes
    BY <1>2
  <2> QED BY <1>1, <2>1 DEF Carved
<1>7. Carved(cv, c) \cap new = {}
  <2> SUFFICES ASSUME NEW b \in cv, b \in new PROVE FALSE
    BY DEF Carved
  <2>1. b.addr + b.bytes <= chunk /\ b \in [addr : HeapAddr, bytes : Nat \ {0}]
    BY DEF Layout, chunk
  <2>2. PICK i \in 0 .. q - 1 : b.addr = at(i)
    BY <1>2
  <2>3. i \in Nat
    OBVIOUS
  <2>4. b.addr \in Nat /\ b.addr >= chunk
    BY <1>4, <2>2, <2>3
  <2> QED BY <1>1, <2>1, <2>4
<1>8. IsFiniteSet(Carved(cv, c)) /\ Cardinality(Carved(cv, c)) \in Nat
  BY FS_Subset, FS_CardinalityType DEF Carved, Layout
<1> HIDE DEF new
<1>9. Cardinality(Carved(cv, c) \cup new) = Cardinality(Carved(cv, c)) + q - 0
  BY <1>5, <1>7, <1>8, FS_Union, FS_EmptySet
<1>10. Cardinality(Carved(cv, c) \cup new) = Cardinality(Carved(cv, c)) + q
  BY <1>1, <1>8, <1>9
<1> QED BY <1>6, <1>10 DEF new, q, chunk, bytes

\* A block more in use takes a chunk more exactly when all n blocks carved are in
\* use.
LEMMA PeakGrows ==
  ASSUME NEW per \in Nat \ {0}, NEW p \in Nat, NEW n \in Nat, n <= p,
         n <= per * ((p + per - 1) \div per)
  PROVE  LET k == (p + per - 1) \div per
             next == IF n + 1 > p THEN n + 1 ELSE p
         IN  (next + per - 1) \div per = IF n = per * k THEN k + 1 ELSE k
<1> DEFINE k == (p + per - 1) \div per
           next == IF n + 1 > p THEN n + 1 ELSE p
<1>1. k \in Int /\ next \in Nat
  OBVIOUS
<1>2. p <= per * k /\ per * k < p + per /\ n <= per * k
  BY <1>1, FewestChunks
<1> HIDE DEF k
<1>3. per * k \in Int /\ per * (k + 1) = per * k + per
  BY <1>1
<1>4. CASE n = per * k
  <2>1. next <= per * (k + 1) /\ per * (k + 1) < next + per
    BY <1>2, <1>3, <1>4
  <2>2. k + 1 \in Int
    BY <1>1
  <2> HIDE DEF next
  <2>3. (next + per - 1) \div per = k + 1
    BY <1>1, <2>1, <2>2, FewestChunks
  <2> QED BY <1>4, <2>3 DEF next, k
<1>5. CASE n # per * k
  <2>1. next <= per * k /\ per * k < next + per
    BY <1>2, <1>3, <1>5
  <2> HIDE DEF next
  <2>2. (next + per - 1) \div per = k
    BY <1>1, <2>1, FewestChunks
  <2> QED BY <1>5, <2>2 DEF next, k
<1> QED BY <1>4, <1>5

\* The chunks of a class, and the sum in SpaceFollowsPeak.
LEMMA SpaceOfClasses ==
  /\ \A c \in SizeClasses :
       /\ Chunks(c) = (peak[c] + PerChunk(c) - 1) \div PerChunk(c)
       /\ Space[c] = Chunks(c) * ChunkSize(c * Step)
  /\ SpaceFollowsPeak <=> heap.free_space - HeapStart = SumOver(Space, SizeClasses)
BY DEF Chunks, PerChunk, Space, SizeClasses, SpaceFollowsPeak, SumOver

\* Nothing is carved, and no block was ever in use.
LEMMA NothingGrown == Init => GrownAsUsed /\ SpaceFollowsPeak
<1> SUFFICES ASSUME Init PROVE GrownAsUsed /\ SpaceFollowsPeak
  OBVIOUS
<1>1. /\ heap = init_heap /\ live = {} /\ carved = {}
      /\ peak \in [Class -> Nat] /\ \A c \in Class : peak[c] = 0
  BY DEF Init
<1>2. heap.free_space = HeapStart
  BY <1>1 DEF init_heap
<1>3. \A c \in SizeClasses : Chunks(c) = 0 /\ PerChunk(c) * Chunks(c) = 0 /\ Space[c] = 0
  <2> TAKE c \in SizeClasses
  <2>1. PerChunk(c) \in Nat \ {0} /\ ChunkSize(c * Step) \in Nat \ {0} /\ peak[c] = 0
    BY <1>1, ClassSizes DEF SizeClasses
  <2> DEFINE per == PerChunk(c)
  <2>2. (0 + per - 1) \div per = 0
    <3> HIDE DEF per
    <3>1. per \in Nat \ {0} /\ 0 <= per * 0 /\ per * 0 < 0 + per
      BY <2>1 DEF per
    <3> QED BY <3>1, FewestChunks
  <2>3. Chunks(c) = 0
    BY <2>1, <2>2, SpaceOfClasses
  <2> QED BY <2>1, <2>3, SpaceOfClasses
<1>4. \A c \in SizeClasses : InUse(live, c) = 0 /\ Cardinality(Carved(carved, c)) = 0
  <2> TAKE c \in SizeClasses
  <2>1. Carved(carved, c) = {} /\ {b \in live : ClassOf(Rounded(b.size)) = c} = {}
    BY <1>1 DEF Carved
  <2> QED BY <2>1, FS_EmptySet DEF InUse
<1>5. GrownAsUsed
  <2>1. \A c \in SizeClasses : peak[c] = 0
    BY <1>1 DEF SizeClasses
  <2> QED BY <1>1, <1>3, <1>4, <2>1 DEF GrownAsUsed
<1>6. SumOver(Space, SizeClasses) = 0
  BY <1>3, ClassSizes, SumOfZeros
<1>7. HeapStart - HeapStart = 0
  BY AllocatorAssumption
<1> QED BY <1>2, <1>5, <1>6, <1>7, SpaceOfClasses

\* allocate carves a chunk when the blocks of the class in use pass the peak and
\* fill the chunks there are.
LEMMA AllocateGrows ==
  ASSUME GrowthInv, NEW size \in Sizes, Allocate(size)
  PROVE  GrownAsUsed' /\ SpaceFollowsPeak'
<1> DEFINE result == allocate(heap, size)
           bytes == Rounded(size)
           a == ClassOf(bytes)
           given == [addr |-> result.ptr, size |-> size]
<1>1. /\ heap' = result.heap /\ HasRoom(heap, size)
      /\ live' = IF result.ptr = NULL THEN live ELSE live \cup {given}
      /\ carved' = CarvedAfter(heap, carved, size)
      /\ peak' = [c \in Class |-> IF InUse(live', c) > peak[c] THEN InUse(live', c) ELSE peak[c]]
  BY DEF Allocate, CarvedAfter, CarvedFrom
<1>2. /\ Sound(heap, live, carved) /\ Layout(heap, carved) /\ Given(heap, live, carved)
      /\ Cleared(heap)
  BY DEF GrowthInv, IInv, Sound
<1>3. \A c : InUse(live, c) \in Nat
  BY <1>2, UsedBlocks
<1>4. \A c \in SizeClasses :
        /\ c \in Class /\ peak[c] \in Nat /\ InUse(live, c) <= peak[c]
        /\ Cardinality(Carved(carved, c)) = PerChunk(c) * Chunks(c)
        /\ PerChunk(c) \in Nat \ {0} /\ ChunkSize(c * Step) \in Nat \ {0}
        /\ Chunks(c) = (peak[c] + PerChunk(c) - 1) \div PerChunk(c)
        /\ Space[c] = Chunks(c) * ChunkSize(c * Step)
        /\ Chunks(c)' = (peak'[c] + PerChunk(c) - 1) \div PerChunk(c)
        /\ Space'[c] = Chunks(c)' * ChunkSize(c * Step)
  <2>1. \A c \in SizeClasses :
          /\ Chunks(c)' = (peak'[c] + PerChunk(c) - 1) \div PerChunk(c)
          /\ Space'[c] = Chunks(c)' * ChunkSize(c * Step)
    BY DEF Chunks, PerChunk, Space, SizeClasses
  <2> QED BY <2>1, ClassSizes, SpaceOfClasses DEF GrowthInv, GrownAsUsed, SizeClasses
<1>5. \A c \in SizeClasses : Chunks(c) \in Int /\ Space[c] \in Int
  BY <1>4
<1>6. SpaceFollowsPeak' <=> heap'.free_space - HeapStart = SumOver(Space', SizeClasses)
  BY DEF SpaceFollowsPeak, SizeClasses, SumOver, MapThenSumSet, MapThenFoldSet
<1>7. heap.free_space - HeapStart = SumOver(Space, SizeClasses) /\ heap.free_space \in Nat
  BY <1>2, SpaceOfClasses DEF GrowthInv, Layout, Heaps
<1>8. CASE ~Serves(size)
  <2>1. live' = live /\ carved' = carved /\ heap'.free_space = heap.free_space
    BY <1>1, <1>2, <1>8, AllocateKeepsSound, GuestHeapAssumption DEF Affords
  <2>2. peak' \in [Class -> Nat] /\ \A c \in SizeClasses : peak'[c] = peak[c]
    <3>1. peak \in [Class -> Nat]
      BY DEF GrowthInv, GrownAsUsed
    <3>2. \A c \in Class : InUse(live', c) \in Nat
      BY <1>3, <2>1
    <3>3. \A c \in SizeClasses : ~(InUse(live', c) > peak[c])
      BY <1>3, <1>4, <2>1
    <3> QED BY <1>1, <1>4, <3>1, <3>2, <3>3
  <2>3. \A c \in SizeClasses : Chunks(c)' = Chunks(c)
    BY <1>4, <2>2
  <2>4. Space' = Space
    <3>1. Space = [c \in SizeClasses |-> Space[c]] /\ Space' = [c \in SizeClasses |-> Space'[c]]
      BY DEF Space, SizeClasses
    <3>2. \A c \in SizeClasses : Space'[c] = Space[c]
      BY <1>4, <2>3
    <3> QED BY <3>1, <3>2
  <2>5. GrownAsUsed'
    BY <1>4, <2>1, <2>2, <2>3 DEF GrownAsUsed
  <2> QED BY <1>6, <1>7, <2>1, <2>4, <2>5
<1>9. CASE Serves(size)
  <2>1. /\ result.ptr # NULL /\ result.ptr - Header \notin InUseIn(live)
        /\ heap'.free_space = IF Free(live, carved, a) # {} THEN heap.free_space
                              ELSE heap.free_space + ChunkSize(bytes)
        /\ live' = live \cup {given}
    BY <1>1, <1>2, <1>9, AllocateKeepsSound, GuestHeapAssumption DEF Affords
  <2>2. a \in SizeClasses /\ bytes = a * Step
    <3>1. size \in Int /\ size >= 1 /\ a < NumSizes
      BY <1>9, GuestHeapAssumption DEF Serves
    <3>2. a \in Nat \ {0} /\ bytes = Step * a
      BY <3>1, RoundedBytes
    <3> HIDE DEF a, bytes
    <3> QED BY <3>1, <3>2, AllocatorAssumption DEF SizeClasses, Class
  <2>3. given \notin live /\ ClassOf(Rounded(given.size)) = a
    BY <2>1 DEF InUseIn
  <2>4. carved' = IF Free(live, carved, a) # {} THEN carved
                  ELSE carved \cup CarvedFrom(heap.free_space, a * Step)
    <3>1. heap.free_space + ChunkSize(bytes) # heap.free_space
      <4>1. ChunkSize(bytes) \in Nat \ {0}
        BY <1>4, <2>2
      <4> QED BY <1>7, <4>1
    <3> HIDE DEF bytes, a, result
    <3> QED BY <1>1, <2>1, <2>2, <3>1 DEF CarvedAfter, result, bytes
  <2> HIDE DEF result, bytes, a, given
  <2>5. \A c : InUse(live', c) = IF c = a THEN InUse(live, c) + 1 ELSE InUse(live, c)
    <3> TAKE c
    <3>1. IsFiniteSet(Used(live, c)) /\ given \notin Used(live, c)
      BY <1>2, <2>3, UsedBlocks DEF Used
    <3>2. Used(live', c) = IF c = a THEN Used(live, c) \cup {given} ELSE Used(live, c)
      BY <2>1, <2>3 DEF Used
    <3>3. Cardinality(Used(live, c) \cup {given}) = Cardinality(Used(live, c)) + 1
      BY <3>1, FS_AddElement
    <3> QED BY <3>2, <3>3 DEF InUse, Used
  <2>6. /\ peak' \in [Class -> Nat]
        /\ \A c \in SizeClasses : InUse(live', c) <= peak'[c]
        /\ \A c \in SizeClasses : c # a => peak'[c] = peak[c]
        /\ peak'[a] = IF InUse(live, a) + 1 > peak[a] THEN InUse(live, a) + 1 ELSE peak[a]
    <3>1. \A c : InUse(live', c) \in Nat
      BY <1>3, <2>5
    <3>2. peak \in [Class -> Nat]
      BY DEF GrowthInv, GrownAsUsed
    <3>3. peak' \in [Class -> Nat]
      BY <1>1, <3>1, <3>2
    <3>4. \A c \in SizeClasses :
            peak'[c] = IF InUse(live', c) > peak[c] THEN InUse(live', c) ELSE peak[c]
      BY <1>1, <1>4
    <3>5. \A c \in SizeClasses : InUse(live', c) <= peak'[c]
      BY <1>4, <3>1, <3>4
    <3>6. \A c \in SizeClasses : c # a => peak'[c] = peak[c]
      BY <1>3, <1>4, <2>5, <3>4
    <3>7. peak'[a] = IF InUse(live, a) + 1 > peak[a] THEN InUse(live, a) + 1 ELSE peak[a]
      BY <2>2, <2>5, <3>4
    <3> QED BY <3>3, <3>5, <3>6, <3>7
  <2>7. /\ InUse(live, a) <= Cardinality(Carved(carved, a))
        /\ InUse(live, a) = Cardinality(Carved(carved, a)) <=> Free(live, carved, a) = {}
    BY <1>2, UsedBlocks DEF InUse
  <2>8. Chunks(a)' = IF Free(live, carved, a) = {} THEN Chunks(a) + 1 ELSE Chunks(a)
    <3> DEFINE per == PerChunk(a)
               p == peak[a]
               n == InUse(live, a)
               k == (p + per - 1) \div per
               next == IF n + 1 > p THEN n + 1 ELSE p
    <3>1. /\ per \in Nat \ {0} /\ p \in Nat /\ n \in Nat /\ n <= p
          /\ Chunks(a) = k /\ Cardinality(Carved(carved, a)) = per * k
          /\ Chunks(a)' = (next + per - 1) \div per
      BY <1>3, <1>4, <2>2, <2>6
    <3>2. n <= per * k /\ (n = per * k <=> Free(live, carved, a) = {})
      BY <2>7, <3>1
    <3> HIDE DEF per, p, n
    <3>3. (next + per - 1) \div per = IF n = per * k THEN k + 1 ELSE k
      BY <3>1, <3>2, PeakGrows
    <3> HIDE DEF next, k
    <3> QED BY <3>1, <3>2, <3>3
  <2>9. \A c \in SizeClasses : c # a => Chunks(c)' = Chunks(c) /\ Space'[c] = Space[c]
    BY <1>4, <2>6
  <2>10. \A c \in SizeClasses : c # a => Carved(carved', c) = Carved(carved, c)
    <3> TAKE c \in SizeClasses
    <3>1. \A b \in CarvedFrom(heap.free_space, a * Step) : ClassOf(b.bytes) = a
      BY <2>2, ClassSizes DEF CarvedFrom
    <3> QED BY <2>4, <3>1 DEF Carved
  <2>11. CASE Free(live, carved, a) # {}
    <3>1. heap'.free_space = heap.free_space /\ carved' = carved /\ Chunks(a)' = Chunks(a)
      BY <2>1, <2>4, <2>8, <2>11
    <3>2. \A c \in SizeClasses : Chunks(c)' = Chunks(c) /\ Space'[c] = Space[c]
      BY <1>4, <2>2, <2>9, <3>1
    <3>3. Space' = Space
      <4>1. Space = [c \in SizeClasses |-> Space[c]] /\ Space' = [c \in SizeClasses |-> Space'[c]]
        BY DEF Space, SizeClasses
      <4> QED BY <3>2, <4>1
    <3>4. GrownAsUsed'
      BY <1>4, <2>6, <3>1, <3>2 DEF GrownAsUsed
    <3> QED BY <1>6, <1>7, <3>1, <3>3, <3>4
  <2>12. CASE Free(live, carved, a) = {}
    <3>1. /\ heap'.free_space = heap.free_space + ChunkSize(a * Step)
          /\ carved' = carved \cup CarvedFrom(heap.free_space, a * Step)
          /\ Chunks(a)' = Chunks(a) + 1
      BY <2>1, <2>2, <2>4, <2>8, <2>12
    <3>2. \A c \in SizeClasses : Cardinality(Carved(carved', c)) = PerChunk(c) * Chunks(c)'
      <4> TAKE c \in SizeClasses
      <4>1. CASE c # a
        BY <1>4, <2>9, <2>10, <4>1
      <4>2. CASE c = a
        <5>1. Cardinality(Carved(carved', a)) = Cardinality(Carved(carved, a)) + PerChunk(a)
          BY <1>2, <2>2, <3>1, CarvedCount
        <5>2. PerChunk(a) * (Chunks(a) + 1) = PerChunk(a) * Chunks(a) + PerChunk(a)
          BY <1>4, <1>5, <2>2
        <5> QED BY <1>4, <2>2, <3>1, <4>2, <5>1, <5>2
      <4> QED BY <4>1, <4>2
    <3>3. GrownAsUsed'
      BY <2>6, <3>2 DEF GrownAsUsed
    <3>4. Space'[a] = Space[a] + ChunkSize(a * Step)
      <4>1. Space[a] = Chunks(a) * ChunkSize(a * Step)
            /\ Space'[a] = (Chunks(a) + 1) * ChunkSize(a * Step)
        BY <1>4, <2>2, <3>1
      <4>2. Chunks(a) \in Int /\ ChunkSize(a * Step) \in Nat
        BY <1>4, <1>5, <2>2
      <4> QED BY <4>1, <4>2
    <3>5. SumOver(Space, SizeClasses) \in Int
          /\ SumOver(Space', SizeClasses) = SumOver(Space, SizeClasses) + Space'[a] - Space[a]
      <4>1. \A c \in SizeClasses : Space[c] \in Int /\ Space'[c] \in Int
                                   /\ (c # a => Space'[c] = Space[c])
        BY <1>4, <1>5, <2>2, <2>9, <3>4
      <4> QED BY <2>2, <4>1, ClassSizes, SumChanges
    <3>6. Space[a] \in Int /\ ChunkSize(a * Step) \in Nat
      BY <1>4, <1>5, <2>2
    <3>7. heap'.free_space - HeapStart = SumOver(Space', SizeClasses)
      BY <1>7, <3>1, <3>4, <3>5, <3>6, AllocatorAssumption
    <3> QED BY <1>6, <3>3, <3>7
  <2> QED BY <2>11, <2>12
<1> QED BY <1>8, <1>9

\* A block given back carves nothing, and leaves the peaks as they are.
LEMMA ReleaseGrows ==
  ASSUME GrowthInv, NEW block \in live, Release(block)
  PROVE  GrownAsUsed' /\ SpaceFollowsPeak'
<1>1. /\ heap' = release(heap, block.addr) /\ live' = live \ {block}
      /\ carved' = carved /\ peak' = peak
  BY DEF Release
<1>2. Sound(heap, live, carved) /\ Layout(heap, carved) /\ Given(heap, live, carved)
  BY DEF GrowthInv, IInv, Sound
<1>3. heap'.free_space = heap.free_space
  BY <1>1, <1>2, ReleaseKeepsSound
<1>4. \A c : InUse(live', c) <= InUse(live, c) /\ InUse(live', c) \in Nat
             /\ InUse(live, c) \in Nat
  <2> TAKE c
  <2>1. IsFiniteSet(Used(live, c)) /\ InUse(live, c) \in Nat
    BY <1>2, UsedBlocks
  <2>2. Used(live', c) \in SUBSET Used(live, c)
    BY <1>1 DEF Used
  <2>3. /\ Cardinality(Used(live', c)) <= Cardinality(Used(live, c))
        /\ Cardinality(Used(live', c)) \in Nat
    BY <2>1, <2>2, FS_Subset, FS_CardinalityType
  <2> QED BY <2>1, <2>3 DEF InUse, Used
<1>5. GrownAsUsed'
  <2>1. \A c : Chunks(c)' = Chunks(c)
    BY <1>1 DEF Chunks
  <2>2. \A c \in SizeClasses : InUse(live', c) <= peak[c]
    <3> TAKE c \in SizeClasses
    <3>1. InUse(live, c) <= peak[c] /\ peak[c] \in Nat
      BY DEF GrowthInv, GrownAsUsed, SizeClasses
    <3> QED BY <1>4, <3>1
  <2> QED BY <1>1, <2>1, <2>2 DEF GrowthInv, GrownAsUsed
<1>6. SpaceFollowsPeak'
  <2>1. Space' = Space
    BY <1>1 DEF Space, Chunks
  <2> QED BY <1>3, <2>1
        DEF GrowthInv, SpaceFollowsPeak, MapThenSumSet, MapThenFoldSet
<1> QED BY <1>5, <1>6

\* The blocks of every class ever carved follow its peak at all times.
LEMMA GrowthHolds == Spec => []GrowthInv
<1>1. Init => GrowthInv
  BY InitSound, NothingGrown DEF GrowthInv
<1>2. GrowthInv /\ [Next]_vars => GrowthInv'
  <2> SUFFICES ASSUME GrowthInv, [Next]_vars PROVE GrowthInv'
    OBVIOUS
  <2>1. IInv'
    BY NextSound DEF GrowthInv
  <2>2. CASE \E size \in Sizes : Allocate(size)
    BY <2>1, <2>2, AllocateGrows DEF GrowthInv
  <2>3. CASE \E block \in live : Release(block)
    BY <2>1, <2>3, ReleaseGrows DEF GrowthInv
  <2>4. CASE UNCHANGED vars
    <3>1. GrownAsUsed' /\ SpaceFollowsPeak'
      BY <2>4 DEF vars, GrowthInv, GrownAsUsed, SpaceFollowsPeak, Space, Chunks,
                  MapThenSumSet, MapThenFoldSet
    <3> QED BY <2>1, <3>1 DEF GrowthInv
  <2> QED BY <2>2, <2>3, <2>4 DEF Next
<1> QED BY <1>1, <1>2, PTL DEF Spec

\* allocate takes no more of the heap than the most blocks of each class that were
\* in use together need, however long the program runs.
THEOREM HeapFollowsPeak == Spec => []SpaceFollowsPeak
<1>1. Spec => []GrowthInv
  BY GrowthHolds
<1>2. GrowthInv => SpaceFollowsPeak
  BY DEF GrowthInv
<1> QED BY <1>1, <1>2, PTL

-----------------------------------------------------------------------------
(***************************************************************************)
(* The heap of radix.c: all blocks are nodes, so the history that the      *)
(* lemmas on the allocator speak of is a set of nodes and the free space.  *)
(***************************************************************************)

NodeBytes == Rounded(NodeSize)
NodeClass == ClassOf(NodeBytes)

FirstBlocks(count) == {HeapStart + k * NodeBytes : k \in 0 .. count - 1}
BlocksUpTo(free) == FirstBlocks((free - HeapStart) \div NodeBytes)

LiveNodes(nodes) == {[addr |-> nptr, size |-> NodeSize] : nptr \in nodes}
CarvedNodes(free) == {[addr |-> block, bytes |-> NodeBytes] : block \in BlocksUpTo(free)}

\* The heap h has nodes in use and is otherwise free.
HeapHas(h, nodes) ==
  /\ Sound(h, LiveNodes(nodes), CarvedNodes(h.free_space))
  /\ Cleared(h) /\ (~h.initialized => nodes = {})
  /\ (h.free_space - HeapStart) % NodeBytes = 0

\* How large a node's block is.
LEMMA NodeBlock ==
  /\ NodeSize \in Int /\ NodeBytes \in Nat \ {0} /\ NodeBytes = Step * NodeClass
  /\ NodeClass \in Class \ {0} /\ NodeClass \in Class
<1>1. NodeSize \in Int /\ NodeSize >= 1
  BY DEF NodeSize
<1>2. /\ NodeBytes \in Nat /\ NodeSize + Header <= NodeBytes
      /\ NodeBytes = Step * NodeClass /\ NodeClass \in Nat \ {0}
  BY <1>1, RoundedBytes DEF NodeBytes, NodeClass
<1>3. NodeClass < NumSizes
  BY NodeBlocks DEF Serves, NodeClass, NodeBytes
<1>4. NodeBytes \in Nat \ {0}
  BY <1>1, <1>2 DEF Header
<1> QED BY <1>1, <1>2, <1>3, <1>4, AllocatorAssumption DEF Class

\* The blocks of a larger free space are those of a smaller one and the ones between.
LEMMA BlocksGrow ==
  ASSUME NEW free \in Nat, free >= HeapStart, (free - HeapStart) % NodeBytes = 0
  PROVE  /\ BlocksUpTo(free + ChunkSize(NodeBytes))
              = BlocksUpTo(free) \cup ChunkBlocks(free, NodeBytes)
         /\ (free + ChunkSize(NodeBytes) - HeapStart) % NodeBytes = 0
         /\ \A block \in BlocksUpTo(free) : block \in Int /\ block < free
         /\ BlocksUpTo(HeapStart) = {}
<1> DEFINE m == (free - HeapStart) \div NodeBytes
           q == ChunkSize(NodeBytes) \div NodeBytes
           n == NodeBytes
<1>0. n \in Nat \ {0} /\ HeapStart \in Nat
  BY NodeBlock, AllocatorAssumption
<1>1. q \in Nat \ {0} /\ ChunkSize(n) = n * q
  BY <1>0, ChunkOfBlocks
<1> HIDE DEF n, q
<1>2. m \in Nat /\ free - HeapStart = n * m
  BY <1>0 DEF n
<1> HIDE DEF m
<1>3. free + ChunkSize(n) - HeapStart = n * (m + q)
  <2>1. n * (m + q) = n * m + n * q
    BY <1>0, <1>1, <1>2
  <2>2. ChunkSize(n) \in Int
    BY <1>0, <1>1
  <2> QED BY <1>0, <1>1, <1>2, <2>1, <2>2
<1>4. \A k \in Nat : (n * k) \div n = k /\ (n * k) % n = 0
  BY <1>0
<1>5. (free + ChunkSize(n) - HeapStart) \div n = m + q /\ (free + ChunkSize(n) - HeapStart) % n = 0
  <2>1. m + q \in Nat
    BY <1>1, <1>2
  <2>2. (n * (m + q)) \div n = m + q /\ (n * (m + q)) % n = 0
    BY ONLY <1>4, <2>1
  <2>3. ASSUME NEW x, x = n * (m + q) PROVE x \div n = m + q /\ x % n = 0
    BY <2>2, <2>3
  <2> QED BY <1>3, <2>3
<1>6. BlocksUpTo(free + ChunkSize(n)) = {HeapStart + k * n : k \in 0 .. (m + q) - 1}
  <2>1. BlocksUpTo(free + ChunkSize(n)) = FirstBlocks(m + q)
    <3> DEFINE end == free + ChunkSize(n)
    <3>1. BlocksUpTo(end) = FirstBlocks((end - HeapStart) \div n)
      BY DEF BlocksUpTo, n
    <3>2. (end - HeapStart) \div n = m + q
      <4>1. ChunkSize(n) \in Int
        BY <1>0, <1>1
      <4>2. end - HeapStart = free + ChunkSize(n) - HeapStart
        BY <1>0, <4>1
      <4> QED BY <1>5, <4>2
    <3> HIDE DEF end
    <3>3. BlocksUpTo(end) = FirstBlocks(m + q)
      BY <3>1, <3>2
    <3> QED BY <3>3 DEF end
  <2> QED BY <2>1 DEF FirstBlocks, n
<1>7. BlocksUpTo(free) = {HeapStart + k * n : k \in 0 .. m - 1}
  BY DEF BlocksUpTo, FirstBlocks, n, m
<1>8. ChunkBlocks(free, n) = {free + k * n : k \in 0 .. q - 1}
  BY DEF ChunkBlocks, q, n
<1>9. \A k \in Int : /\ free + k * n = HeapStart + (m + k) * n
                     /\ k * n \in Int
  <2> TAKE k \in Int
  <2>1. (m + k) * n = n * m + k * n
    BY <1>0, <1>2
  <2> QED BY <1>0, <1>2, <2>1
<1>10. BlocksUpTo(free + ChunkSize(n)) = BlocksUpTo(free) \cup ChunkBlocks(free, n)
  <2>1. \A k \in 0 .. (m + q) - 1 : k \in 0 .. m - 1 \/ (k - m \in 0 .. q - 1 /\ k = m + (k - m))
    BY <1>1, <1>2
  <2>2. ASSUME NEW k \in 0 .. (m + q) - 1
        PROVE  HeapStart + k * n \in BlocksUpTo(free) \cup ChunkBlocks(free, n)
    <3>1. CASE k \in 0 .. m - 1
      BY <1>7, <3>1
    <3>2. CASE k - m \in 0 .. q - 1 /\ k = m + (k - m)
      <4>1. free + (k - m) * n = HeapStart + k * n
        BY <1>9, <3>2
      <4> QED BY <1>8, <3>2, <4>1
    <3> QED BY <2>1, <3>1, <3>2
  <2>3. \A k \in 0 .. m - 1 : k \in 0 .. (m + q) - 1
    BY <1>1, <1>2
  <2>4. \A k \in 0 .. q - 1 : m + k \in 0 .. (m + q) - 1 /\ k \in Int
    BY <1>1, <1>2
  <2> QED BY <1>6, <1>7, <1>8, <1>9, <2>2, <2>3, <2>4
<1>11. ASSUME NEW block \in BlocksUpTo(free) PROVE block \in Int /\ block < free
  <2>1. PICK k \in 0 .. m - 1 : block = HeapStart + k * n
    BY <1>7
  <2>2. k * n < n * m
    BY <1>0, <1>2
  <2>3. k * n \in Int
    BY <1>0
  <2> QED BY <1>0, <1>2, <2>1, <2>2, <2>3
<1>12. BlocksUpTo(HeapStart) = {}
  <2>1. (HeapStart - HeapStart) \div n = 0
    BY <1>0
  <2>2. 0 .. 0 - 1 = {}
    OBVIOUS
  <2> QED BY <2>1, <2>2 DEF BlocksUpTo, FirstBlocks, n
<1> QED BY <1>5, <1>10, <1>11, <1>12 DEF n

\* The blocks that are free.
FreeNodes(free, nodes) == BlocksUpTo(free) \ {nptr - Header : nptr \in nodes}

\* They are the free blocks of the nodes' class.
LEMMA FreeNodesAre ==
  ASSUME NEW free, NEW nodes
  PROVE  Free(LiveNodes(nodes), CarvedNodes(free), NodeClass) = FreeNodes(free, nodes)
<1> DEFINE lv == LiveNodes(nodes)
           cv == CarvedNodes(free)
<1>1. InUseIn(lv) = {nptr - Header : nptr \in nodes}
  <2>1. \A nptr \in nodes : [addr |-> nptr, size |-> NodeSize] \in lv
    BY DEF LiveNodes
  <2>2. \A b \in lv : b.addr \in nodes
    BY DEF LiveNodes
  <2> HIDE DEF lv
  <2>3. \A nptr \in nodes : \E b \in lv : b.addr = nptr
    BY <2>1
  <2> QED BY <2>2, <2>3 DEF InUseIn
<1>2. {b \in cv : ClassOf(b.bytes) = NodeClass} = cv
  BY DEF CarvedNodes, NodeClass
<1>3. {b.addr : b \in cv} = BlocksUpTo(free)
  <2>1. \A addr \in BlocksUpTo(free) : [addr |-> addr, bytes |-> NodeBytes] \in cv
    BY DEF CarvedNodes
  <2>2. \A b \in cv : b.addr \in BlocksUpTo(free)
    BY DEF CarvedNodes
  <2> HIDE DEF cv
  <2>3. \A addr \in BlocksUpTo(free) : \E b \in cv : b.addr = addr
    BY <2>1
  <2> QED BY <2>2, <2>3
<1> HIDE DEF lv, cv
<1>4. Free(lv, cv, NodeClass) = {b.addr : b \in cv} \ InUseIn(lv)
  BY <1>2 DEF Free
<1>5. Free(lv, cv, NodeClass) = FreeNodes(free, nodes)
  BY <1>1, <1>3, <1>4 DEF FreeNodes
<1> QED BY <1>5 DEF lv, cv

\* The nodes in use.
LEMMA NodesInUse ==
  ASSUME NEW h, NEW nodes, HeapHas(h, nodes)
  PROVE  /\ h \in Heaps /\ nodes \subseteq NodeAddr
         /\ \A nptr \in nodes : nptr - Header \in BlocksUpTo(h.free_space)
         /\ IsFiniteSet(BlocksUpTo(h.free_space))
         /\ h.free_space \in Nat /\ h.free_space >= HeapStart
<1>1. Sound(h, LiveNodes(nodes), CarvedNodes(h.free_space))
  BY DEF HeapHas
<1>2. h \in Heaps /\ h.free_space \in Nat /\ h.free_space >= HeapStart
  BY <1>1 DEF Sound, Layout, Heaps
<1>3. ASSUME NEW nptr \in nodes
      PROVE  nptr \in NodeAddr /\ nptr - Header \in BlocksUpTo(h.free_space)
  <2> DEFINE b == [addr |-> nptr, size |-> NodeSize]
  <2>1. b \in LiveNodes(nodes)
    BY DEF LiveNodes
  <2>2. /\ b \in [addr : Nat, size : Int] /\ b.addr - Header \in HeapAddr
        /\ [addr |-> b.addr - Header, bytes |-> Rounded(b.size)] \in CarvedNodes(h.free_space)
    BY <1>1, <2>1, GivenBlocks
  <2>3. nptr \in Nat /\ nptr - Header \in HeapAddr
    BY <2>2
  <2>4. nptr = (nptr - Header) + Header
    BY <2>3 DEF Header
  <2>5. nptr \in NodeAddr
    BY <2>3, <2>4 DEF NodeAddr
  <2>6. nptr - Header \in BlocksUpTo(h.free_space)
    BY <2>2 DEF CarvedNodes
  <2> QED BY <2>5, <2>6
<1>4. IsFiniteSet(BlocksUpTo(h.free_space))
  <2> DEFINE cv == CarvedNodes(h.free_space)
             f == [b \in cv |-> b.addr]
  <2>1. IsFiniteSet(cv)
    BY <1>1 DEF Sound, Layout
  <2>2. f \in Surjection(cv, BlocksUpTo(h.free_space))
    <3>1. \A b \in cv : b.addr \in BlocksUpTo(h.free_space)
      BY DEF CarvedNodes
    <3>2. \A addr \in BlocksUpTo(h.free_space) : [addr |-> addr, bytes |-> NodeBytes] \in cv
      BY DEF CarvedNodes
    <3> QED BY <3>1, <3>2 DEF Surjection
  <2> QED BY <2>1, <2>2, FS_Surjection
<1> QED BY <1>2, <1>3, <1>4

\* A node can be had: there is a free block, or room for a chunk.
NodeAfforded(h, nodes) ==
  Affords(h, LiveNodes(nodes), CarvedNodes(h.free_space), NodeSize)

\* allocate gives a node that was not in use.
LEMMA AllocateNode ==
  ASSUME NEW h, NEW nodes, HeapHas(h, nodes), NodeAfforded(h, nodes)
  PROVE  LET result == allocate(h, NodeSize)
         IN  /\ result.ptr \in NodeAddr \ nodes
             /\ HeapHas(result.heap, nodes \cup {result.ptr})
             /\ HasRoom(h, NodeSize) => NodeAfforded(result.heap, nodes \cup {result.ptr})
<1> DEFINE result == allocate(h, NodeSize)
           lv == LiveNodes(nodes)
           cv == CarvedNodes(h.free_space)
           given == [addr |-> result.ptr, size |-> NodeSize]
           more == nodes \cup {result.ptr}
           grown == h.free_space + ChunkSize(NodeBytes)
<1>1. Sound(h, lv, cv) /\ Cleared(h) /\ Serves(NodeSize) /\ NodeSize \in Int
  BY NodeBlock, NodeBlocks DEF HeapHas
<1>2. /\ result.heap.initialized
      /\ result.heap.free_space = IF Free(lv, cv, NodeClass) # {} THEN h.free_space ELSE grown
      /\ result.ptr \in Nat \ {NULL} /\ result.ptr - Header \notin InUseIn(lv)
      /\ Sound(result.heap, lv \cup {given}, CarvedAfter(h, cv, NodeSize))
  BY <1>1, AllocateKeepsSound DEF NodeAfforded, NodeClass, NodeBytes
<1>3. /\ h.free_space \in Nat /\ h.free_space >= HeapStart
      /\ (h.free_space - HeapStart) % NodeBytes = 0
  BY NodesInUse DEF HeapHas
<1>4. ChunkSize(NodeBytes) \in Nat \ {0}
  <2>1. ChunkSize(NodeBytes) \div NodeBytes \in Nat \ {0} /\ NodeBytes \in Nat \ {0}
        /\ ChunkSize(NodeBytes) = NodeBytes * (ChunkSize(NodeBytes) \div NodeBytes)
    BY NodeBlock, ChunkOfBlocks
  <2>2. \A u, v \in Nat \ {0} : u * v \in Nat \ {0}
    OBVIOUS
  <2> QED BY <2>1, <2>2
<1>5. lv \cup {given} = LiveNodes(more)
  <2> HIDE DEF result
  <2> QED BY DEF LiveNodes
<1>6. CarvedAfter(h, cv, NodeSize) = CarvedNodes(result.heap.free_space)
  <2>1. CASE Free(lv, cv, NodeClass) # {}
    <3>1. result.heap.free_space = h.free_space
      BY <1>2, <2>1
    <3> QED BY <3>1 DEF CarvedAfter
  <2>2. CASE Free(lv, cv, NodeClass) = {}
    <3>1. result.heap.free_space = grown /\ grown # h.free_space
      BY <1>2, <1>3, <1>4, <2>2
    <3>2. CarvedAfter(h, cv, NodeSize) = cv \cup CarvedFrom(h.free_space, NodeBytes)
      BY <3>1 DEF CarvedAfter, NodeBytes
    <3>3. BlocksUpTo(grown) = BlocksUpTo(h.free_space) \cup ChunkBlocks(h.free_space, NodeBytes)
      BY <1>3, BlocksGrow
    <3>4. CarvedNodes(grown) = cv \cup CarvedFrom(h.free_space, NodeBytes)
      BY <3>3 DEF CarvedNodes, CarvedFrom
    <3> QED BY <3>1, <3>2, <3>4
  <2> QED BY <2>1, <2>2
<1>7. (result.heap.free_space - HeapStart) % NodeBytes = 0
  <2>1. (h.free_space + ChunkSize(NodeBytes) - HeapStart) % NodeBytes = 0
    BY <1>3, BlocksGrow
  <2>2. h.free_space + ChunkSize(NodeBytes) - HeapStart = grown - HeapStart
    BY <1>3, <1>4, AllocatorAssumption
  <2>3. (grown - HeapStart) % NodeBytes = 0
    BY <2>1, <2>2
  <2> HIDE DEF grown
  <2> QED BY <1>2, <1>3, <2>3
<1>8. HeapHas(result.heap, more)
  <2>1. Cleared(result.heap) /\ (~result.heap.initialized => more = {})
    BY <1>2 DEF Cleared
  <2> HIDE DEF result, more, lv, cv, given
  <2> QED BY <1>2, <1>5, <1>6, <1>7, <2>1 DEF HeapHas
<1>9. result.ptr \in NodeAddr \ nodes
  <2>1. result.ptr \in more /\ more \subseteq NodeAddr
    BY <1>8, NodesInUse
  <2>2. InUseIn(lv) = {nptr - Header : nptr \in nodes}
    <3>1. \A nptr \in nodes : [addr |-> nptr, size |-> NodeSize] \in lv
      BY DEF LiveNodes
    <3>2. \A b \in lv : b.addr \in nodes
      BY DEF LiveNodes
    <3> HIDE DEF lv
    <3>3. \A nptr \in nodes : \E b \in lv : b.addr = nptr
      BY <3>1
    <3> QED BY <3>2, <3>3 DEF InUseIn
  <2> HIDE DEF result, more, lv
  <2> QED BY <1>2, <2>1, <2>2
<1>10. HasRoom(h, NodeSize) => NodeAfforded(result.heap, more)
  <2>1. CASE Free(lv, cv, NodeClass) # {}
    <3>1. result.heap.free_space = h.free_space
      BY <1>2, <2>1
    <3> QED BY <3>1 DEF NodeAfforded, Affords, HasRoom
  <2>2. CASE Free(lv, cv, NodeClass) = {}
    <3> DEFINE free == result.heap.free_space
    <3>1. free = grown
      BY <1>2, <2>2
    <3>2. Free(LiveNodes(more), CarvedNodes(free), NodeClass) # {}
      <4>1. ChunkBlocks(h.free_space, NodeBytes) \subseteq FreeNodes(free, nodes)
        <5>1. BlocksUpTo(free) = BlocksUpTo(h.free_space) \cup ChunkBlocks(h.free_space, NodeBytes)
          BY <1>3, <3>1, BlocksGrow
        <5>2. \A block \in ChunkBlocks(h.free_space, NodeBytes) : block >= h.free_space
          <6> TAKE block \in ChunkBlocks(h.free_space, NodeBytes)
          <6>1. PICK i \in 0 .. (ChunkSize(NodeBytes) \div NodeBytes) - 1 :
                  block = h.free_space + i * NodeBytes
            BY DEF ChunkBlocks
          <6>2. i \in Nat /\ NodeBytes \in Nat
            BY <6>1, NodeBlock
          <6>3. i * NodeBytes \in Nat
            BY <6>2
          <6> QED BY <1>3, <6>1, <6>3
        <5>3. \A nptr \in nodes : nptr - Header \in Int /\ nptr - Header < h.free_space
          <6>1. \A nptr \in nodes : nptr - Header \in BlocksUpTo(h.free_space)
            BY NodesInUse
          <6> QED BY <1>3, <6>1, BlocksGrow
        <5> HIDE DEF free
        <5> QED BY <1>3, <5>1, <5>2, <5>3 DEF FreeNodes
      <4>2. \E block \in ChunkBlocks(h.free_space, NodeBytes) : block # result.ptr - Header
        <5>1. ChunkSize(NodeBytes) \div NodeBytes > 1
          BY NodeBlocks DEF NodeBytes
        <5>2. ChunkSize(NodeBytes) \div NodeBytes \in Nat
          BY NodeBlock, ChunkOfBlocks
        <5>3. 0 \in 0 .. (ChunkSize(NodeBytes) \div NodeBytes) - 1
              /\ 1 \in 0 .. (ChunkSize(NodeBytes) \div NodeBytes) - 1
          BY <5>1, <5>2
        <5>4. h.free_space + 0 * NodeBytes \in ChunkBlocks(h.free_space, NodeBytes)
              /\ h.free_space + 1 * NodeBytes \in ChunkBlocks(h.free_space, NodeBytes)
          BY <5>3 DEF ChunkBlocks
        <5>5. h.free_space + 0 * NodeBytes # h.free_space + 1 * NodeBytes
          BY <1>3, NodeBlock
        <5> QED BY <5>4, <5>5
      <4>3. \E block \in FreeNodes(free, more) : TRUE
        <5> HIDE DEF result, free
        <5> QED BY <4>1, <4>2 DEF FreeNodes
      <4>4. Free(LiveNodes(more), CarvedNodes(free), NodeClass) = FreeNodes(free, more)
        BY FreeNodesAre
      <4> QED BY <4>3, <4>4
    <3> HIDE DEF result, more
    <3> QED BY <3>2 DEF NodeAfforded, Affords, NodeClass, NodeBytes
  <2> QED BY <2>1, <2>2
<1> HIDE DEF result
<1> QED BY <1>8, <1>9, <1>10 DEF result

\* release gives a node back.
LEMMA ReleaseNode ==
  ASSUME NEW h, NEW nodes, HeapHas(h, nodes), NEW nptr \in nodes
  PROVE  HeapHas(release(h, nptr), nodes \ {nptr})
<1> DEFINE lv == LiveNodes(nodes)
           cv == CarvedNodes(h.free_space)
           gone == [addr |-> nptr, size |-> NodeSize]
<1>1. Sound(h, lv, cv) /\ gone \in lv /\ h.initialized
  BY DEF HeapHas, LiveNodes
<1>2. /\ Sound(release(h, nptr), lv \ {gone}, cv)
      /\ release(h, nptr).initialized = h.initialized
      /\ release(h, nptr).free_space = h.free_space
  <2>1. /\ Sound(release(h, gone.addr), lv \ {gone}, cv)
        /\ release(h, gone.addr).initialized = h.initialized
        /\ release(h, gone.addr).free_space = h.free_space
    BY <1>1, ReleaseKeepsSound
  <2>2. gone.addr = nptr
    OBVIOUS
  <2> QED BY ONLY <2>1, <2>2
<1>3. lv \ {gone} = LiveNodes(nodes \ {nptr})
  BY DEF LiveNodes
<1> HIDE DEF lv, cv, gone
<1> QED BY <1>1, <1>2, <1>3 DEF HeapHas, Cleared, cv

\* The allocator at the start has no nodes in use.
LEMMA NoNodes == HeapHas(init_heap, {})
<1>1. LiveNodes({}) = {}
  BY DEF LiveNodes
<1>2. CarvedNodes(HeapStart) = {}
  <2>1. (HeapStart - HeapStart) % NodeBytes = 0 /\ HeapStart \in Nat /\ HeapStart >= HeapStart
    BY NodeBlock, AllocatorAssumption
  <2>2. BlocksUpTo(HeapStart) = {}
    BY <2>1, BlocksGrow
  <2> QED BY <2>2 DEF CarvedNodes
<1>3. (HeapStart - HeapStart) % NodeBytes = 0
  BY NodeBlock, AllocatorAssumption
<1> QED BY <1>1, <1>2, <1>3, FreshSound DEF HeapHas

\* One link after the other, from the header of the nodes' class.
FollowedNodes(f) ==
  [k \in 0 .. Cardinality(Blocks) |->
     IF k = 0 THEN t.heap.small_block_headers[ClassOf(Rounded(NodeSize))]
     ELSE IF f[k - 1] = NULL THEN NULL ELSE t.heap.word[f[k - 1]]]

\* All blocks but those of the nodes in use are in the list of free blocks.
LEMMA FreeBlocksOfTree ==
  ASSUME NEW nodes, HeapHas(t.heap, nodes)
  PROVE  /\ FreeBlocks = Blocks \ {nptr - Header : nptr \in nodes}
         /\ {nptr - Header : nptr \in nodes} \subseteq Blocks
<1> DEFINE h == t.heap
           lv == LiveNodes(nodes)
           cv == CarvedNodes(h.free_space)
           c == NodeClass
           N == Cardinality(Blocks)
           link == NodeLink
<1>1. Sound(h, lv, cv) /\ c \in Class
  BY NodeBlock DEF HeapHas
<1>2. PICK n \in Nat : \E s : Chain(h, lv, cv, c, n, s)
  BY <1>1 DEF Sound, Chained
<1>3. PICK s : Chain(h, lv, cv, c, n, s)
  BY <1>2
<1>4. Blocks = BlocksUpTo(h.free_space)
  BY DEF Blocks, BlocksUpTo, FirstBlocks, NodeBytes
<1>5. Free(lv, cv, c) = Blocks \ {nptr - Header : nptr \in nodes}
  BY <1>4, FreeNodesAre DEF FreeNodes
<1>6. N \in Nat /\ n <= N
  <2>1. IsFiniteSet(Blocks) /\ Free(lv, cv, c) \subseteq Blocks
    <3>1. IsFiniteSet(Blocks)
      BY <1>4, NodesInUse
    <3> QED BY ONLY <1>5, <3>1
  <2> HIDE DEF lv, cv
  <2> QED BY <1>3, <2>1, ChainLength
<1>7. Follows(h, c, N, link)
  <2> DEFINE list == [k \in 0 .. N |-> IF k < n THEN s[k] ELSE NULL]
  <2>1. Follows(h, c, N, list)
    <3> HIDE DEF lv, cv, N, c
    <3> QED BY <1>1, <1>3, <1>6, LinksExist
  <2>2. list = FollowedNodes(list)
    <3>1. FollowedNodes(list) = [k \in 0 .. N |-> list[k]]
      <4> HIDE DEF list
      <4> QED BY <2>1 DEF FollowedNodes, Follows, NodeClass, NodeBytes
    <3> QED BY Zenon, <3>1
  <2>3. link = FollowedNodes(link)
    <3> HIDE DEF list
    <3> QED BY Zenon, <2>2 DEF NodeLink, FollowedNodes
  <2> HIDE DEF link
  <2> QED BY <2>3 DEF FollowedNodes, Follows, NodeClass, NodeBytes
<1>8. FreeBlocks = {link[k] : k \in 0 .. N} \ {NULL}
  BY DEF FreeBlocks
<1> HIDE DEF link
<1>9. {link[k] : k \in 0 .. N} \ {NULL} = Free(lv, cv, c)
  <2> HIDE DEF lv, cv, N, c
  <2> QED BY <1>1, <1>3, <1>6, <1>7, LinksOfChain
<1>10. {nptr - Header : nptr \in nodes} \subseteq Blocks
  BY <1>4, NodesInUse
<1> QED BY <1>5, <1>8, <1>9, <1>10

-----------------------------------------------------------------------------
(***************************************************************************)
(* The bits: each is at least twice the next lower one.                    *)
(***************************************************************************)

\* The highest of some bits is one of them.
LEMMA HighestBit ==
  ASSUME NEW bits \in SUBSET BitPositions, bits # {}
  PROVE  Max(bits) \in bits /\ \A bit \in bits : bit <= Max(bits)
<1> DEFINE T == {s \in SUBSET BitPositions : s # {} => \E m \in s : \A x \in s : m >= x}
<1>1. ASSUME NEW s \in SUBSET BitPositions, \A x \in s : s \ {x} \in T PROVE s \in T
  <2> SUFFICES ASSUME s # {} PROVE \E m \in s : \A x \in s : m >= x
    OBVIOUS
  <2>1. PICK x \in s : TRUE
    OBVIOUS
  <2>2. s \ {x} \in T /\ s \subseteq Nat
    BY <1>1, RadixTreeAssumption
  <2>3. CASE s \ {x} = {}
    BY <2>2, <2>3
  <2>4. CASE s \ {x} # {}
    <3>1. PICK m \in s \ {x} : \A y \in s \ {x} : m >= y
      BY <2>2, <2>4
    <3>2. CASE m >= x
      BY <2>2, <3>1, <3>2
    <3>3. CASE ~(m >= x)
      BY <2>2, <3>1, <3>3
    <3> QED BY <3>2, <3>3
  <2> QED BY <2>3, <2>4
<1>2. SUBSET BitPositions \subseteq T
  <2> HIDE DEF T
  <2> QED BY <1>1, RadixTreeAssumption, FiniteInduction
<1>3. \E m \in bits : \A x \in bits : m >= x
  BY <1>2
<1>4. Max(bits) \in bits /\ \A x \in bits : Max(bits) >= x
  BY <1>3 DEF Max
<1> QED BY <1>4, RadixTreeAssumption

\* The bits double.
LEMMA BitsDouble ==
  ASSUME NEW high \in BitPositions, NEW low \in BitPositions, low < high
  PROVE  2 * low <= high
<1> DEFINE S == {n \in Nat : n \in BitPositions => \A x \in BitPositions : x < n => 2 * x <= n}
<1>1. ASSUME NEW n \in Nat, \A m \in Nat : m < n => m \in S PROVE n \in S
  <2> SUFFICES ASSUME n \in BitPositions, NEW x \in BitPositions, x < n PROVE 2 * x <= n
    OBVIOUS
  <2>1. n \in Nat \ {0} /\ x \in Nat \ {0}
    BY RadixTreeAssumption
  <2>2. n # 1 /\ n \div 2 \in BitPositions /\ 2 * (n \div 2) = n
    BY <2>1, RadixTreeAssumption
  <2>3. n \div 2 \in Nat \ {0} /\ n \div 2 < n
    BY <2>1, <2>2, RadixTreeAssumption
  <2>4. CASE x = 1
    BY <2>1, <2>4
  <2>5. CASE x # 1
    <3>1. x \div 2 \in BitPositions /\ 2 * (x \div 2) = x /\ x \div 2 \in Nat
      BY <2>5, RadixTreeAssumption
    <3>2. x \div 2 < n \div 2
      BY <2>1, <2>2, <2>3, <3>1
    <3>3. 2 * (x \div 2) <= n \div 2
      BY <1>1, <2>2, <2>3, <3>1, <3>2
    <3> QED BY <2>1, <2>2, <2>3, <3>1, <3>3
  <2> QED BY <2>4, <2>5
<1>2. Nat \subseteq S
  <2> HIDE DEF S
  <2> QED BY <1>1, StrongInduction
<1>3. high \in Nat
  BY RadixTreeAssumption
<1> QED BY <1>2, <1>3

\* Half of a level is the level below.
LEMMA LevelBelow ==
  ASSUME NEW bit_pos \in Levels
  PROVE  /\ bit_pos \in Nat /\ bit_pos \div 2 \in Levels
         /\ bit_pos # 0 => bit_pos \div 2 < bit_pos
         /\ \A low \in BitPositions : low < bit_pos => low <= bit_pos \div 2
<1>1. BitPositions \subseteq Nat \ {0} /\ 1 \div 2 = 0 /\ 0 \div 2 = 0
  BY RadixTreeAssumption
<1>2. CASE bit_pos = 0
  BY <1>1, <1>2 DEF Levels
<1>3. CASE bit_pos = 1
  BY <1>1, <1>3 DEF Levels
<1>4. CASE bit_pos # 0 /\ bit_pos # 1
  <2>1. bit_pos \in BitPositions /\ bit_pos \div 2 \in BitPositions /\ 2 * (bit_pos \div 2) = bit_pos
    BY <1>4, RadixTreeAssumption DEF Levels
  <2>2. bit_pos \in Nat \ {0} /\ bit_pos \div 2 \in Nat \ {0}
    BY <1>1, <2>1
  <2>3. \A low \in BitPositions : low < bit_pos => 2 * low <= bit_pos /\ low \in Nat
    BY <1>1, <2>1, BitsDouble
  <2>4. \A low \in BitPositions : low < bit_pos => low <= bit_pos \div 2
    BY <2>1, <2>2, <2>3
  <2> QED BY <2>1, <2>2, <2>4 DEF Levels
<1> QED BY <1>2, <1>3, <1>4

\* MAX_BITS is the highest of the bits.
LEMMA HighestLevel ==
  /\ MAX_BITS \in BitPositions /\ MAX_BITS \in Levels /\ MAX_BITS \in Nat \ {0}
  /\ \A bit \in BitPositions : bit <= MAX_BITS
BY RadixTreeAssumption, HighestBit DEF MAX_BITS, Levels

-----------------------------------------------------------------------------
(***************************************************************************)
(* The numbers of a subtree have the bits above the one that its node      *)
(* branches on in common.                                                  *)
(***************************************************************************)

\* The numbers a and c have the same bits above one of the bits.
Agree(a, c, bit) == a \div (2 * bit) = c \div (2 * bit)

\* A number without the bits below one of its bits, and without that bit.
LEMMA BitsAbove ==
  ASSUME NEW a \in Nat, NEW bit \in Nat \ {0}
  PROVE  /\ a \div bit \in Nat /\ a \div (2 * bit) \in Nat /\ BitOf(a, bit) \in {0, 1}
         /\ a \div bit = 2 * (a \div (2 * bit)) + BitOf(a, bit)
<1> DEFINE q == a \div bit
           r == a % bit
           h == q \div 2
           e == q % 2
<1>1. q \in Nat /\ r \in 0 .. bit - 1 /\ a = bit * q + r
  OBVIOUS
<1> HIDE DEF q, r
<1>2. h \in Nat /\ e \in {0, 1} /\ q = 2 * h + e
  BY <1>1
<1> HIDE DEF h, e
<1>3. a = (2 * bit) * h + (bit * e + r) /\ bit * e + r \in 0 .. 2 * bit - 1
  <2>1. CASE e = 0
    BY <1>1, <1>2, <2>1
  <2>2. CASE e = 1
    BY <1>1, <1>2, <2>2
  <2> QED BY <1>2, <2>1, <2>2
<1> DEFINE d == 2 * bit
           x == bit * e + r
<1>4. d \in Nat \ {0} /\ h \in Int /\ x \in 0 .. d - 1 /\ a = d * h + x
  BY <1>2, <1>3
<1> HIDE DEF d, x
<1>5. a \div d = h
  BY <1>4, DivisionUnique
<1> QED BY <1>1, <1>2, <1>5 DEF d, e, q, BitOf

\* The numbers of a tree are natural; they agree above the highest bit.
LEMMA NumbersAgree ==
  ASSUME NEW a \in Number, NEW c \in Number
  PROVE  a \in Nat /\ Agree(a, c, MAX_BITS)
<1> DEFINE d == 2 * MAX_BITS
<1>1. d \in Nat \ {0} /\ d - 1 \in Nat
  BY HighestLevel
<1> HIDE DEF d
<1>2. a \in 0 .. d - 1 /\ c \in 0 .. d - 1
  BY DEF Number, d
<1>3. a = d * 0 + a /\ c = d * 0 + c /\ 0 \in Int
  BY <1>1, <1>2
<1>4. a \div d = 0 /\ c \div d = 0
  BY <1>1, <1>2, <1>3, DivisionUnique
<1> QED BY <1>1, <1>2, <1>4 DEF Agree, d

\* Two that agree above a bit agree at all higher bits.
LEMMA AgreeHigher ==
  ASSUME NEW a \in Number, NEW c \in Number, NEW low \in BitPositions, NEW high \in BitPositions,
         Agree(a, c, low), low < high
  PROVE  Agree(a, c, high) /\ BitOf(a, high) = BitOf(c, high)
<1> DEFINE S == {n \in Nat : n \in BitPositions /\ low < n => a \div n = c \div n}
<1>1. a \in Nat /\ c \in Nat
  BY NumbersAgree
<1>2. ASSUME NEW n \in Nat, \A m \in Nat : m < n => m \in S PROVE n \in S
  <2> SUFFICES ASSUME n \in BitPositions, low < n PROVE a \div n = c \div n
    OBVIOUS
  <2> DEFINE half == n \div 2
  <2>1. low \in Nat \ {0} /\ n # 1
    BY RadixTreeAssumption
  <2>2. half \in BitPositions /\ 2 * half = n /\ half \in Nat \ {0} /\ half < n
    BY <2>1, RadixTreeAssumption
  <2>3. low <= half
    BY <2>2, LevelBelow DEF Levels
  <2> HIDE DEF half
  <2>4. CASE low = half
    BY <2>2, <2>4 DEF Agree
  <2>5. CASE low < half
    <3>1. a \div half = c \div half
      BY <1>2, <2>2, <2>5
    <3>2. BitOf(a, half) = BitOf(c, half)
      BY <3>1 DEF BitOf
    <3>3. /\ a \div half = 2 * (a \div n) + BitOf(a, half) /\ a \div n \in Nat
          /\ c \div half = 2 * (c \div n) + BitOf(c, half) /\ c \div n \in Nat
          /\ BitOf(a, half) \in {0, 1} /\ BitOf(c, half) \in {0, 1}
      BY <1>1, <2>2, BitsAbove
    <3> QED BY <3>1, <3>2, <3>3
  <2> QED BY <2>1, <2>2, <2>3, <2>4, <2>5
<1>3. high \in Nat \ {0}
  BY RadixTreeAssumption
<1>4. a \div high = c \div high
  <2>1. high \in S
    <3> HIDE DEF S
    <3> QED BY <1>2, <1>3, StrongInduction
  <2> QED BY <2>1
<1>5. BitOf(a, high) = BitOf(c, high)
  BY <1>4 DEF BitOf
<1>6. /\ a \div high = 2 * (a \div (2 * high)) + BitOf(a, high) /\ a \div (2 * high) \in Nat
      /\ c \div high = 2 * (c \div (2 * high)) + BitOf(c, high) /\ c \div (2 * high) \in Nat
      /\ BitOf(a, high) \in {0, 1}
  BY <1>1, <1>3, BitsAbove
<1> DEFINE x == a \div (2 * high)
           y == c \div (2 * high)
<1>7. x = y
  <2>1. x \in Nat /\ y \in Nat /\ 2 * x + BitOf(a, high) = 2 * y + BitOf(a, high) /\ BitOf(a, high) \in {0, 1}
    BY <1>4, <1>5, <1>6
  <2> HIDE DEF x, y
  <2> QED BY <2>1
<1> QED BY <1>5, <1>7 DEF Agree

\* Two that agree above a bit, and at it, agree above the next lower bit.
LEMMA AgreeLower ==
  ASSUME NEW a \in Number, NEW c \in Number, NEW bit \in BitPositions \ {1},
         Agree(a, c, bit), BitOf(a, bit) = BitOf(c, bit)
  PROVE  Agree(a, c, bit \div 2)
<1>1. a \in Nat /\ c \in Nat /\ bit \in Nat \ {0} /\ 2 * (bit \div 2) = bit
  BY NumbersAgree, RadixTreeAssumption
<1>2. /\ a \div bit = 2 * (a \div (2 * bit)) + BitOf(a, bit)
      /\ c \div bit = 2 * (c \div (2 * bit)) + BitOf(c, bit)
  BY <1>1, BitsAbove
<1>3. a \div bit = c \div bit
  BY <1>2 DEF Agree
<1> QED BY <1>1, <1>3 DEF Agree

\* Two that agree above a bit and do not differ between it and a lower one agree above
\* the lower one.
LEMMA AgreeDown ==
  ASSUME NEW a \in Number, NEW c \in Number, NEW high \in BitPositions, NEW low \in BitPositions,
         low <= high, Agree(a, c, high), Differing(a, c, high, low) = {}
  PROVE  Agree(a, c, low)
<1> DEFINE S == {n \in Nat : n \in BitPositions /\ low <= n /\ n <= high /\ Agree(a, c, n) =>
                   Agree(a, c, low)}
<1>1. BitPositions \subseteq Nat \ {0}
  BY RadixTreeAssumption
<1>2. ASSUME NEW n \in Nat, \A m \in Nat : m < n => m \in S PROVE n \in S
  <2> SUFFICES ASSUME n \in BitPositions, low <= n, n <= high, Agree(a, c, n)
               PROVE  Agree(a, c, low)
    OBVIOUS
  <2> DEFINE half == n \div 2
  <2>1. CASE n = low
    BY <2>1
  <2>2. CASE n # low
    <3>1. low < n /\ n # 1
      BY <1>1, <2>2
    <3>2. half \in BitPositions /\ 2 * half = n /\ half \in Nat \ {0} /\ half < n
      BY <3>1, RadixTreeAssumption
    <3>3. low <= half /\ half <= high
      BY <1>1, <3>1, <3>2, LevelBelow DEF Levels
    <3>4. BitOf(a, n) = BitOf(c, n)
      BY <3>1 DEF Differing
    <3>5. Agree(a, c, half)
      BY <3>1, <3>4, AgreeLower
    <3> HIDE DEF half
    <3> QED BY <1>2, <3>2, <3>3, <3>5
  <2> QED BY <2>1, <2>2
<1>3. high \in S
  <2> HIDE DEF S
  <2> QED BY <1>1, <1>2, StrongInduction
<1> QED BY <1>1, <1>3

\* The one that has the bit at which they part is the greater.
LEMMA AgreeOrder ==
  ASSUME NEW a \in Number, NEW c \in Number, NEW bit \in BitPositions, Agree(a, c, bit),
         BitOf(a, bit) = 0, BitOf(c, bit) # 0
  PROVE  a < c
<1> DEFINE x == a \div bit
           y == c \div bit
<1>1. a \in Nat /\ c \in Nat /\ bit \in Nat \ {0}
  BY NumbersAgree, RadixTreeAssumption
<1>2. x \in Nat /\ y \in Nat /\ x < y
  <2> DEFINE h == a \div (2 * bit)
  <2>1. /\ x \in Nat /\ h \in Nat /\ x = 2 * h + BitOf(a, bit)
        /\ y \in Nat /\ BitOf(c, bit) \in {0, 1} /\ y = 2 * h + BitOf(c, bit)
    BY Zenon, <1>1, BitsAbove DEF Agree
  <2> HIDE DEF x, y, h
  <2> QED BY <2>1
<1>3. a < bit * x + bit /\ bit * y <= c
  <2>1. ASSUME NEW n \in Nat
        PROVE  n < bit * (n \div bit) + bit /\ bit * (n \div bit) <= n
    <3> DEFINE q == n \div bit
               r == n % bit
    <3>1. q \in Nat /\ r \in 0 .. bit - 1 /\ n = bit * q + r /\ bit * q \in Nat
      BY <1>1
    <3> HIDE DEF q, r
    <3>2. n < bit * q + bit /\ bit * q <= n
      BY <1>1, <3>1
    <3> QED BY <3>2 DEF q
  <2> QED BY <1>1, <2>1
<1> HIDE DEF x, y
<1>4. bit * x + bit <= bit * y /\ bit * x \in Nat /\ bit * y \in Nat
  <2>1. \A m \in Nat, k \in Nat, n \in Nat :
          k < n => m * k + m <= m * n /\ m * k \in Nat /\ m * n \in Nat
    <3> SUFFICES ASSUME NEW m \in Nat, NEW k \in Nat, NEW n \in Nat, k < n
                 PROVE  m * k + m <= m * n /\ m * k \in Nat /\ m * n \in Nat
      OBVIOUS
    <3>1. PICK d \in Nat : n = k + 1 + d
      <4>1. n - k - 1 \in Nat /\ n = k + 1 + (n - k - 1)
        OBVIOUS
      <4> QED BY <4>1
    <3>2. m * n = m * k + m + m * d /\ m * d \in Nat /\ m * k \in Nat
      BY <3>1
    <3> QED BY <3>2
  <2> QED BY <1>1, <1>2, <2>1
<1> QED BY <1>1, <1>3, <1>4

\* The numbers of a leaf differ in the lowest bit.
LEMMA AgreeLowest ==
  ASSUME NEW a \in Number
  PROVE  /\ BitOf(a, 1) = a % 2 /\ a % 2 \in {0, 1} /\ a = 2 * (a \div 2) + (a % 2)
         /\ 2 * (a \div 2) \in Number /\ 2 * (a \div 2) + 1 \in Number
         /\ \A c \in Number : Agree(a, c, 1) <=> a \div 2 = c \div 2
<1>1. MAX_BITS \in Nat /\ a \in Nat /\ a <= 2 * MAX_BITS - 1
  BY HighestLevel, NumbersAgree DEF Number
<1> HIDE DEF MAX_BITS
<1>2. a \div 1 = a /\ a \div 2 \in Nat /\ a % 2 \in {0, 1} /\ a = 2 * (a \div 2) + (a % 2)
  <2>1. a \in Nat
    BY <1>1
  <2>2. a = 1 * a + 0 /\ 0 \in 0 .. 1 - 1
    BY <2>1
  <2>3. a \div 1 = a
    BY <2>1, <2>2, DivisionUnique
  <2>4. a \div 2 \in Nat /\ a % 2 \in {0, 1} /\ a = 2 * (a \div 2) + (a % 2)
    BY <2>1
  <2> QED BY <2>3, <2>4
<1>3. BitOf(a, 1) = a % 2
  BY <1>2 DEF BitOf
<1> DEFINE h == a \div 2
<1>4. 2 * h \in Number /\ 2 * h + 1 \in Number
  <2>1. h \in Nat /\ 2 * h <= a /\ 2 * h + 1 <= 2 * MAX_BITS - 1
    <3>1. h \in Nat /\ 2 * h <= a
      BY <1>2
    <3>2. ASSUME NEW m \in Nat, NEW k \in Nat, 2 * k <= a, a <= 2 * m - 1
          PROVE  2 * k + 1 <= 2 * m - 1
      BY <1>1, <3>2
    <3> HIDE DEF h
    <3>3. 2 * h + 1 <= 2 * MAX_BITS - 1
      BY <1>1, <3>1, <3>2
    <3> QED BY <3>1, <3>3
  <2> HIDE DEF h
  <2> QED BY <1>1, <2>1 DEF Number
<1>5. \A c \in Number : Agree(a, c, 1) <=> a \div 2 = c \div 2
  BY DEF Agree
<1> QED BY <1>2, <1>3, <1>4, <1>5

\* A number goes to one of two sides, as its bit says.
LEMMA Sides ==
  ASSUME NEW a \in Number, NEW c \in Number, NEW bit \in BitPositions
  PROVE  /\ Side(a, bit) \in {"zero", "one"}
         /\ Side(a, bit) = Side(c, bit) <=> BitOf(a, bit) = BitOf(c, bit)
         /\ Side(a, bit) = "zero" <=> BitOf(a, bit) = 0
<1>1. a \in Nat /\ c \in Nat /\ bit \in Nat \ {0}
  BY NumbersAgree, RadixTreeAssumption
<1>2. BitOf(a, bit) \in {0, 1} /\ BitOf(c, bit) \in {0, 1}
  BY <1>1, BitsAbove
<1> QED BY <1>2 DEF Side

-----------------------------------------------------------------------------
(***************************************************************************)
(* The shape of a tree u with some nodes.                                  *)
(***************************************************************************)

Interior(u, nptr) == u.node[nptr].bit_pos > 1

\* What leads to the nodes: the global and the members of the interior nodes.
PointersOf(u, nodes) ==
  {Global} \cup {Child(nptr, side) : nptr \in {n \in nodes : Interior(u, n)},
                                     side \in {"zero", "one"}}

\* Pointers lead to nodes, down the bits, no two of them to the same node, and every
\* node is led to.
Shape(u, nodes) ==
  /\ u \in Trees /\ nodes \subseteq NodeAddr
  /\ \A p \in PointersOf(u, nodes) :
       /\ PointerAt(u, p) \in nodes \cup {NULL}
       /\ p # Global /\ PointerAt(u, p) # NULL =>
            u.node[PointerAt(u, p)].bit_pos < u.node[p.node].bit_pos
  /\ \A p, q \in PointersOf(u, nodes) :
       PointerAt(u, p) = PointerAt(u, q) /\ PointerAt(u, p) # NULL => p = q
  /\ \A nptr \in nodes : \E p \in PointersOf(u, nodes) : PointerAt(u, p) = nptr

\* The numbers that a pointer leads to: below a node, those that agree with its number
\* above the bit, and have the side at it.
Leads(u, p, number) ==
  \/ p = Global
  \/ LET n == u.node[p.node]
     IN  Agree(number, n.number, n.bit_pos) /\ Side(number, n.bit_pos) = p.side

\* A node below the pointer branches on a lower bit.
Below(u, p, bit) == p # Global => bit < u.node[p.node].bit_pos

\* What holds of each node m in the subtree of k.
Under(u, m, k) ==
  /\ Agree(u.node[m].number, u.node[k].number, u.node[k].bit_pos)
  /\ u.node[m].bit_pos <= u.node[k].bit_pos

\* The nodes part the numbers: a pointer leads to the numbers of the node it points to;
\* each node to whose number a pointer leads is in its subtree; and no two nodes branch
\* on the same bit for the same numbers.
Parted(u, nodes) ==
  /\ \A p \in PointersOf(u, nodes) :
       PointerAt(u, p) # NULL => Leads(u, p, u.node[PointerAt(u, p)].number)
  /\ \A p \in PointersOf(u, nodes), m \in nodes :
       Leads(u, p, u.node[m].number) /\ Below(u, p, u.node[m].bit_pos) =>
         PointerAt(u, p) # NULL /\ Under(u, m, PointerAt(u, p))
  /\ \A m, k \in nodes :
       u.node[m].bit_pos = u.node[k].bit_pos
       /\ Agree(u.node[m].number, u.node[k].number, u.node[k].bit_pos) => m = k

\* Only nodes on a path, which are about to go, may be empty.
Full(u, nodes, path) ==
  \A nptr \in nodes \ path : ~(u.node[nptr].zero = 0 /\ u.node[nptr].one = 0)

Grown(u, nodes, path) ==
  /\ Shape(u, nodes) /\ HeapHas(u.heap, nodes) /\ Full(u, nodes, path)
  /\ Parted(u, nodes)

\* The members of a tree.
LEMMA TreeParts ==
  ASSUME NEW u \in Trees
  PROVE  /\ u = [heap |-> u.heap, node |-> u.node, tree |-> u.tree]
         /\ u.heap \in Heaps /\ u.node \in [NodeAddr -> Node]
         /\ u.tree \in NodeAddr \cup {NULL}
         /\ \A nptr \in NodeAddr :
              /\ u.node[nptr] \in Node
              /\ u.node[nptr].bit_pos \in BitPositions /\ u.node[nptr].number \in Number
              /\ u.node[nptr].zero \in Nat /\ u.node[nptr].one \in Nat
         /\ \A h \in Heaps, f \in [NodeAddr -> Node], p \in NodeAddr \cup {NULL} :
              [heap |-> h, node |-> f, tree |-> p] \in Trees
BY DEF Trees, Node

\* A node's address is a number that is not NULL.
LEMMA NodeAddresses == \A nptr \in NodeAddr : nptr \in Nat /\ nptr # NULL /\ nptr # 0
BY AllocatorAssumption DEF NodeAddr, HeapAddr, NULL, Header

\* A pointer is the global or a member.
LEMMA PointerForms ==
  ASSUME NEW p
  PROVE  /\ p \in Pointers <=>
              \/ p = Global
              \/ \E n \in NodeAddr : \E side \in {"zero", "one"} : p = Child(n, side)
         /\ \A u, nodes : p \in PointersOf(u, nodes) <=>
              \/ p = Global
              \/ \E n \in nodes : \E side \in {"zero", "one"} :
                   Interior(u, n) /\ p = Child(n, side)
BY DEF Pointers, PointersOf

\* Child is told apart by its node and side.
LEMMA Members ==
  ASSUME NEW n, NEW side
  PROVE  /\ Child(n, side).node = n /\ Child(n, side).side = side
         /\ side # "tree" => Child(n, side) # Global
         /\ \A m, other : Child(n, side) = Child(m, other) <=> n = m /\ side = other
BY DEF Child, Global

\* What stays of the nodes when pointers change: where they branch and their numbers.
SameBits(u, r) ==
  \A nptr \in NodeAddr : /\ r.node[nptr].bit_pos = u.node[nptr].bit_pos
                         /\ r.node[nptr].number = u.node[nptr].number

\* Setting a pointer changes that pointer.
LEMMA Relinked ==
  ASSUME NEW u \in Trees, NEW p \in Pointers, NEW v \in NodeAddr \cup {NULL}
  PROVE  LET r == WithPointer(u, p, v)
         IN  /\ r \in Trees /\ r.heap = u.heap /\ SameBits(u, r)
             /\ PointerAt(r, p) = v
             /\ \A q \in Pointers : q # p => PointerAt(r, q) = PointerAt(u, q)
             /\ \A nptr \in NodeAddr : nptr # p.node => r.node[nptr] = u.node[nptr]
<1> DEFINE r == WithPointer(u, p, v)
<1>1. u.node \in [NodeAddr -> Node] /\ u.heap \in Heaps /\ u.tree \in NodeAddr \cup {NULL}
  BY TreeParts
<1>2. CASE p = Global
  <2>1. r = [heap |-> u.heap, node |-> u.node, tree |-> v]
    BY <1>2, TreeParts DEF WithPointer
  <2>2. r \in Trees /\ r.heap = u.heap /\ r.node = u.node /\ r.tree = v
    BY <1>1, <2>1, TreeParts
  <2> HIDE DEF r
  <2>3. \A q : PointerAt(r, q) = IF q = Global THEN v ELSE u.node[q.node][q.side]
    BY <2>2 DEF PointerAt
  <2>4. \A q \in Pointers : q # p => PointerAt(r, q) = PointerAt(u, q)
    BY <1>2, <2>3 DEF PointerAt
  <2> QED BY <1>2, <2>2, <2>3, <2>4 DEF r, SameBits
<1>3. ASSUME NEW n \in NodeAddr, NEW side \in {"zero", "one"}, p = Child(n, side)
      PROVE  /\ r \in Trees /\ r.heap = u.heap /\ SameBits(u, r)
             /\ PointerAt(r, p) = v
             /\ \A q \in Pointers : q # p => PointerAt(r, q) = PointerAt(u, q)
             /\ \A nptr \in NodeAddr : nptr # p.node => r.node[nptr] = u.node[nptr]
  <2> DEFINE f == [u.node EXCEPT ![n] = [@ EXCEPT ![side] = v]]
  <2>1. p # Global /\ p.node = n /\ p.side = side
    BY <1>3, Members
  <2>2. r = [heap |-> u.heap, node |-> f, tree |-> u.tree]
    BY <2>1, TreeParts DEF WithPointer
  <2>3. /\ f \in [NodeAddr -> Node] /\ f[n][side] = v
        /\ f[n].bit_pos = u.node[n].bit_pos /\ f[n].number = u.node[n].number
        /\ \A other \in {"zero", "one"} : other # side => f[n][other] = u.node[n][other]
        /\ \A m \in NodeAddr : m # n => f[m] = u.node[m]
    <3>1. v \in Nat
      BY NodeAddresses DEF NULL
    <3>2. u.node[n] \in Node
      BY <1>1
    <3>3. CASE side = "zero"
      BY <1>1, <3>1, <3>2, <3>3 DEF Node
    <3>4. CASE side = "one"
      BY <1>1, <3>1, <3>2, <3>4 DEF Node
    <3> QED BY <3>3, <3>4
  <2> HIDE DEF f
  <2>4. r \in Trees /\ r.heap = u.heap /\ r.node = f /\ r.tree = u.tree
    BY <1>1, <2>2, <2>3, TreeParts
  <2> HIDE DEF r
  <2>5. SameBits(u, r)
    BY <2>3, <2>4 DEF SameBits
  <2>6. PointerAt(r, p) = v
    BY <2>1, <2>3, <2>4 DEF PointerAt
  <2>7. ASSUME NEW q \in Pointers, q # p PROVE PointerAt(r, q) = PointerAt(u, q)
    <3>1. CASE q = Global
      BY <2>4, <3>1 DEF PointerAt
    <3>2. ASSUME NEW m \in NodeAddr, NEW other \in {"zero", "one"}, q = Child(m, other)
          PROVE  PointerAt(r, q) = PointerAt(u, q)
      <4>1. q # Global /\ q.node = m /\ q.side = other
        BY <3>2, Members
      <4>2. m # n \/ other # side
        BY <1>3, <2>7, <3>2
      <4>3. f[m][other] = u.node[m][other]
        BY <2>3, <4>2
      <4> QED BY <2>4, <4>1, <4>3 DEF PointerAt
    <3> QED BY <3>1, <3>2, PointerForms
  <2> QED BY <2>1, <2>3, <2>4, <2>5, <2>6, <2>7
<1> QED BY <1>2, <1>3, PointerForms

\* r is u with a node more, at the address m, that has contents and is led to by p.
Placed(u, r, nodes, p, m, contents) ==
  /\ m \in NodeAddr \ nodes /\ r \in Trees
  /\ PointerAt(r, p) = m /\ r.node[m] = contents
  /\ \A q \in PointersOf(u, nodes) : q # p => PointerAt(r, q) = PointerAt(u, q)
  /\ \A nptr \in nodes : /\ r.node[nptr].bit_pos = u.node[nptr].bit_pos
                         /\ r.node[nptr].number = u.node[nptr].number
                         /\ nptr # p.node => r.node[nptr] = u.node[nptr]

\* A node is placed where a pointer is.
LEMMA NodePlaced ==
  ASSUME NEW u, NEW nodes, Shape(u, nodes), HeapHas(u.heap, nodes),
         NodeAfforded(u.heap, nodes), NEW p \in PointersOf(u, nodes), NEW contents \in Node
  PROVE  LET r == WithNode(u, p, contents)
             m == PointerAt(r, p)
         IN  /\ Placed(u, r, nodes, p, m, contents)
             /\ HeapHas(r.heap, nodes \cup {m})
             /\ HasRoom(u.heap, NodeSize) => NodeAfforded(r.heap, nodes \cup {m})
<1> DEFINE result == allocate(u.heap, NodeSize)
           m == result.ptr
           placed == [u EXCEPT !.heap = result.heap, !.node = [@ EXCEPT ![m] = contents]]
           r == WithPointer(placed, p, m)
<1>1. /\ m \in NodeAddr \ nodes /\ HeapHas(result.heap, nodes \cup {m})
      /\ HasRoom(u.heap, NodeSize) => NodeAfforded(result.heap, nodes \cup {m})
  BY AllocateNode
<1>2. u \in Trees /\ nodes \subseteq NodeAddr
  BY DEF Shape
<1>3. result.heap \in Heaps
  BY <1>1, NodesInUse
<1> HIDE DEF result
<1>4. placed = [heap |-> result.heap, node |-> [u.node EXCEPT ![m] = contents], tree |-> u.tree]
  <2> DEFINE f == [u.node EXCEPT ![m] = contents]
             g == result.heap
  <2>1. placed = [u EXCEPT !.heap = g, !.node = f]
    OBVIOUS
  <2> HIDE DEF f, g, placed
  <2>2. /\ placed.heap = g /\ placed.node = f /\ placed.tree = u.tree
        /\ placed = [heap |-> placed.heap, node |-> placed.node, tree |-> placed.tree]
    BY <1>2, <2>1 DEF Trees
  <2> QED BY <2>2 DEF f, g
<1>5. /\ placed \in Trees /\ placed.heap = result.heap /\ placed.tree = u.tree
      /\ placed.node[m] = contents
      /\ \A n \in NodeAddr : n # m => placed.node[n] = u.node[n]
  <2> DEFINE f == [u.node EXCEPT ![m] = contents]
  <2>1. f \in [NodeAddr -> Node] /\ f[m] = contents /\ \A n \in NodeAddr : n # m => f[n] = u.node[n]
    BY <1>1, <1>2, TreeParts
  <2> HIDE DEF f
  <2>2. placed = [heap |-> result.heap, node |-> f, tree |-> u.tree]
    BY <1>4 DEF f
  <2> HIDE DEF placed
  <2> QED BY <1>2, <1>3, <2>1, <2>2, TreeParts
<1> HIDE DEF placed
<1>6. p \in Pointers /\ (p = Global \/ p.node \in nodes) /\ PointersOf(u, nodes) \subseteq Pointers
  BY <1>2, PointerForms, Members
<1>7. NULL \notin NodeAddr
  BY NodeAddresses
<1>8. m # p.node
  BY <1>1, <1>6, <1>7 DEF Global
<1>9. /\ r \in Trees /\ r.heap = result.heap /\ SameBits(placed, r) /\ PointerAt(r, p) = m
      /\ \A q \in Pointers : q # p => PointerAt(r, q) = PointerAt(placed, q)
      /\ \A nptr \in NodeAddr : nptr # p.node => r.node[nptr] = placed.node[nptr]
  BY <1>1, <1>5, <1>6, Relinked
<1> HIDE DEF r
<1>10. \A q \in PointersOf(u, nodes) : PointerAt(placed, q) = PointerAt(u, q)
  <2> TAKE q \in PointersOf(u, nodes)
  <2>1. CASE q = Global
    BY <1>5, <2>1 DEF PointerAt
  <2>2. CASE q # Global /\ q.node \in nodes
    BY <1>1, <1>2, <1>5, <2>2 DEF PointerAt
  <2>3. q = Global \/ q.node \in nodes
    BY DEF PointersOf, Child, Global
  <2> QED BY <2>1, <2>2, <2>3
<1>11. Placed(u, r, nodes, p, m, contents)
  BY <1>1, <1>2, <1>5, <1>6, <1>8, <1>9, <1>10 DEF Placed, SameBits
<1>12. WithNode(u, p, contents) = r
  BY DEF WithNode, r, placed, result
<1> QED BY <1>1, <1>9, <1>11, <1>12

\* A pointer is the global or a member of an interior node, which holds what it leads to.
LEMMA MemberOf ==
  ASSUME NEW u, NEW nodes, NEW p \in PointersOf(u, nodes), p # Global
  PROVE  /\ p.node \in nodes /\ Interior(u, p.node) /\ p.side \in {"zero", "one"}
         /\ p = Child(p.node, p.side) /\ PointerAt(u, p) = u.node[p.node][p.side]
<1>1. PICK n \in nodes, side \in {"zero", "one"} : Interior(u, n) /\ p = Child(n, side)
  BY PointerForms
<1> QED BY <1>1, Members DEF PointerAt

\* What the nodes of a tree hold.
LEMMA NodeParts ==
  ASSUME NEW u, NEW nodes, Shape(u, nodes), NEW m \in nodes
  PROVE  /\ m \in NodeAddr /\ m # NULL /\ u.node[m] \in Node
         /\ u.node[m].bit_pos \in BitPositions /\ u.node[m].bit_pos \in Nat \ {0}
         /\ u.node[m].number \in Number
<1>1. m \in NodeAddr /\ u \in Trees
  BY DEF Shape
<1> QED BY <1>1, TreeParts, NodeAddresses, RadixTreeAssumption

\* A pointer leads to all numbers that agree above a bit which is below the pointer, or
\* to none of them.
LEMMA LeadsAlike ==
  ASSUME NEW u, NEW nodes, Shape(u, nodes), NEW p \in PointersOf(u, nodes),
         NEW a \in Number, NEW c \in Number, NEW bit \in BitPositions,
         Agree(a, c, bit), Below(u, p, bit), Leads(u, p, a)
  PROVE  Leads(u, p, c)
<1>1. CASE p = Global
  BY <1>1 DEF Leads
<1>2. CASE p # Global
  <2> DEFINE n == u.node[p.node]
  <2>1. p.node \in nodes
    BY <1>2, MemberOf
  <2>2. n.bit_pos \in BitPositions /\ n.number \in Number /\ bit < n.bit_pos
    BY <1>2, <2>1, NodeParts DEF Below
  <2>3. Agree(a, n.number, n.bit_pos) /\ Side(a, n.bit_pos) = p.side
    BY <1>2 DEF Leads
  <2> HIDE DEF n
  <2>4. Agree(a, c, n.bit_pos) /\ BitOf(a, n.bit_pos) = BitOf(c, n.bit_pos)
    BY <2>2, AgreeHigher
  <2>5. Agree(c, n.number, n.bit_pos) /\ Side(c, n.bit_pos) = p.side
    BY <2>3, <2>4 DEF Agree, Side
  <2> QED BY <2>5 DEF Leads, n
<1> QED BY <1>1, <1>2

\* What agrees above a bit agrees above each that is not lower.
LEMMA AgreeUp ==
  ASSUME NEW a \in Number, NEW c \in Number, NEW low \in BitPositions, NEW high \in BitPositions,
         Agree(a, c, low), low <= high
  PROVE  Agree(a, c, high)
<1>1. low \in Nat /\ high \in Nat
  BY RadixTreeAssumption
<1> QED BY <1>1, AgreeHigher

\* The pointers of a node are below all pointers that lead to it.
LEMMA BelowPointers ==
  ASSUME NEW u, NEW nodes, Shape(u, nodes), NEW p \in PointersOf(u, nodes)
  PROVE  /\ Below(u, p, 1)
         /\ PointerAt(u, p) # NULL => PointerAt(u, p) \in nodes
         /\ PointerAt(u, p) # NULL => Below(u, p, u.node[PointerAt(u, p)].bit_pos)
BY MemberOf DEF Below, Shape, Interior

\* What leads to a number is, but for one pointer p, above a node that has the number
\* below it, when no node of a bit b or a higher one is below p.
LEMMA OnTheWay ==
  ASSUME NEW u, NEW nodes, Shape(u, nodes), Parted(u, nodes), NEW p \in PointersOf(u, nodes),
         NEW v \in Number, NEW b \in BitPositions, Leads(u, p, v), Below(u, p, b),
         \A x \in nodes : Leads(u, p, u.node[x].number) /\ Below(u, p, u.node[x].bit_pos) =>
           u.node[x].bit_pos < b,
         NEW q \in PointersOf(u, nodes), q # p, Leads(u, q, v), Below(u, q, b)
  PROVE  LET c == u.node[PointerAt(u, q)]
         IN  PointerAt(u, q) # NULL /\ Agree(v, c.number, c.bit_pos) /\ b <= c.bit_pos
<1> DEFINE kp == u.node[p.node]
           kq == u.node[q.node]
           c == u.node[PointerAt(u, q)]
<1>1. p # Global => /\ p.node \in nodes /\ kp.bit_pos \in BitPositions /\ kp.bit_pos \in Nat
                    /\ kp.number \in Number /\ p = Child(p.node, p.side)
                    /\ Agree(v, kp.number, kp.bit_pos) /\ Side(v, kp.bit_pos) = p.side
                    /\ b < kp.bit_pos
  BY MemberOf, NodeParts DEF Leads, Below
<1>2. q # Global => /\ q.node \in nodes /\ kq.bit_pos \in BitPositions /\ kq.bit_pos \in Nat
                    /\ kq.number \in Number /\ q = Child(q.node, q.side)
                    /\ Agree(v, kq.number, kq.bit_pos) /\ Side(v, kq.bit_pos) = q.side
                    /\ b < kq.bit_pos
  BY MemberOf, NodeParts DEF Leads, Below
<1>3. b \in Nat
  BY RadixTreeAssumption
<1> HIDE DEF kp, kq
<1>4. ASSUME p # Global, Leads(u, q, kp.number), Below(u, q, kp.bit_pos)
      PROVE  PointerAt(u, q) # NULL /\ Agree(v, c.number, c.bit_pos) /\ b <= c.bit_pos
  <2>1. PointerAt(u, q) # NULL /\ Under(u, p.node, PointerAt(u, q))
    BY <1>1, <1>4 DEF Parted, kp
  <2>2. Agree(kp.number, c.number, c.bit_pos) /\ kp.bit_pos <= c.bit_pos
    BY <2>1 DEF Under, kp
  <2>3. c.bit_pos \in BitPositions /\ c.bit_pos \in Nat
    BY <2>1, BelowPointers, NodeParts
  <2> HIDE DEF c
  <2>4. Agree(v, kp.number, c.bit_pos)
    BY <1>1, <1>4, <2>2, <2>3, AgreeUp
  <2> QED BY <1>1, <1>3, <1>4, <2>1, <2>2, <2>3, <2>4 DEF Agree
<1>5. ASSUME q # Global, Leads(u, p, kq.number), Below(u, p, kq.bit_pos)
      PROVE  FALSE
  <2>1. kq.bit_pos < b
    BY <1>2, <1>5 DEF kq
  <2> QED BY <1>2, <1>3, <1>5, <2>1
<1>6. CASE p = Global
  BY <1>5, <1>6 DEF Leads, Below
<1>7. CASE q = Global
  BY <1>4, <1>7 DEF Leads, Below
<1>8. CASE p # Global /\ q # Global
  <2>1. CASE kp.bit_pos < kq.bit_pos
    <3>1. Below(u, q, kp.bit_pos)
      BY <2>1 DEF Below, kq
    <3>2. Agree(v, kp.number, kp.bit_pos)
      BY <1>1, <1>8
    <3>3. Leads(u, q, kp.number)
      BY <1>1, <1>8, <3>1, <3>2, LeadsAlike
    <3> QED BY <1>4, <1>8, <3>1, <3>3
  <2>2. CASE kq.bit_pos < kp.bit_pos
    <3>1. Below(u, p, kq.bit_pos)
      BY <2>2 DEF Below, kp
    <3>2. Agree(v, kq.number, kq.bit_pos)
      BY <1>2, <1>8
    <3>3. Leads(u, p, kq.number)
      BY <1>2, <1>8, <3>1, <3>2, LeadsAlike
    <3> QED BY <1>5, <1>8, <3>1, <3>3
  <2>3. CASE kq.bit_pos = kp.bit_pos
    <3>1. Agree(kq.number, kp.number, kp.bit_pos)
      BY <1>1, <1>2, <1>8, <2>3 DEF Agree
    <3>2. q.node = p.node
      BY <1>1, <1>2, <1>8, <2>3, <3>1 DEF Parted, kp, kq
    <3> QED BY <1>1, <1>2, <1>8, <2>3, <3>2
  <2> QED BY <1>1, <1>2, <1>8, <2>1, <2>2, <2>3
<1> QED BY <1>6, <1>7, <1>8

\* A leaf where no node was.
LEMMA LeafPlaced ==
  ASSUME NEW u, NEW nodes, Shape(u, nodes), NEW p \in PointersOf(u, nodes),
         PointerAt(u, p) = NULL, NEW r, NEW m, NEW contents, contents.bit_pos = 1,
         Placed(u, r, nodes, p, m, contents)
  PROVE  Shape(r, nodes \cup {m}) /\ PointersOf(r, nodes \cup {m}) = PointersOf(u, nodes)
<1> DEFINE more == nodes \cup {m}
<1>1. /\ m \in NodeAddr \ nodes /\ r \in Trees /\ nodes \subseteq NodeAddr
      /\ PointerAt(r, p) = m /\ r.node[m] = contents /\ m # NULL
      /\ \A q \in PointersOf(u, nodes) : q # p => PointerAt(r, q) = PointerAt(u, q)
      /\ \A n \in nodes : r.node[n].bit_pos = u.node[n].bit_pos
  BY NodeAddresses DEF Placed, Shape
<1>2. PointersOf(r, more) = PointersOf(u, nodes)
  <2>1. {n \in more : Interior(r, n)} = {n \in nodes : Interior(u, n)}
    BY <1>1 DEF Interior
  <2> QED BY <2>1 DEF PointersOf
<1>3. ASSUME NEW q \in PointersOf(u, nodes)
      PROVE  /\ PointerAt(r, q) \in more \cup {NULL}
             /\ q # Global /\ PointerAt(r, q) # NULL =>
                  r.node[PointerAt(r, q)].bit_pos < r.node[q.node].bit_pos
  <2>1. CASE q = p
    BY <1>1, <2>1, MemberOf DEF Interior
  <2>2. CASE q # p
    <3>1. PointerAt(r, q) = PointerAt(u, q) /\ PointerAt(u, q) \in nodes \cup {NULL}
      BY <1>1, <2>2 DEF Shape
    <3>2. q # Global => q.node \in nodes
      BY MemberOf
    <3> QED BY <1>1, <3>1, <3>2 DEF Shape
  <2> QED BY <2>1, <2>2
<1>4. ASSUME NEW q1 \in PointersOf(u, nodes), NEW q2 \in PointersOf(u, nodes),
             PointerAt(r, q1) = PointerAt(r, q2), PointerAt(r, q1) # NULL
      PROVE  q1 = q2
  <2>1. \A q \in PointersOf(u, nodes) : q # p => PointerAt(r, q) # m
    BY <1>1 DEF Shape
  <2> QED BY <1>1, <1>4, <2>1 DEF Shape
<1>5. ASSUME NEW n \in more PROVE \E q \in PointersOf(u, nodes) : PointerAt(r, q) = n
  <2>1. CASE n = m
    BY <1>1, <2>1
  <2>2. CASE n \in nodes
    <3>1. PICK q \in PointersOf(u, nodes) : PointerAt(u, q) = n
      BY <2>2 DEF Shape
    <3>2. n # NULL
      BY <1>1, <2>2, NodeAddresses
    <3> QED BY <1>1, <3>1, <3>2
  <2> QED BY <2>1, <2>2
<1> QED BY <1>1, <1>2, <1>3, <1>4, <1>5 DEF Shape

\* An interior node above a subtree.
LEMMA AbovePlaced ==
  ASSUME NEW u, NEW nodes, Shape(u, nodes), NEW p \in PointersOf(u, nodes),
         PointerAt(u, p) # NULL, NEW r, NEW m, NEW contents \in Node,
         u.node[PointerAt(u, p)].bit_pos < contents.bit_pos,
         p # Global => contents.bit_pos < u.node[p.node].bit_pos,
         NEW side \in {"zero", "one"}, NEW other \in {"zero", "one"}, other # side,
         contents[side] = NULL, contents[other] = PointerAt(u, p),
         Placed(u, r, nodes, p, m, contents)
  PROVE  /\ Shape(r, nodes \cup {m}) /\ Child(m, side) \in PointersOf(r, nodes \cup {m})
         /\ PointerAt(r, Child(m, side)) = NULL
<1> DEFINE more == nodes \cup {m}
           k == PointerAt(u, p)
           old == PointersOf(u, nodes)
<1>1. /\ m \in NodeAddr \ nodes /\ r \in Trees /\ nodes \subseteq NodeAddr
      /\ PointerAt(r, p) = m /\ r.node[m] = contents /\ m # NULL
      /\ \A q \in old : q # p => PointerAt(r, q) = PointerAt(u, q)
      /\ \A n \in nodes : r.node[n].bit_pos = u.node[n].bit_pos
  BY NodeAddresses DEF Placed, Shape
<1>2. k \in nodes /\ u \in Trees
  BY DEF Shape
<1>3. contents.bit_pos > 1
  <2>1. u.node[k].bit_pos \in Nat \ {0} /\ contents.bit_pos \in Nat
    BY <1>1, <1>2, TreeParts, RadixTreeAssumption DEF Node
  <2> QED BY <2>1
<1>4. PointersOf(r, more) = old \cup {Child(m, side), Child(m, other)}
  <2>1. {n \in more : Interior(r, n)} = {n \in nodes : Interior(u, n)} \cup {m}
    BY <1>1, <1>3 DEF Interior
  <2>2. {"zero", "one"} = {side, other}
    OBVIOUS
  <2> QED BY <2>1, <2>2 DEF PointersOf
<1>5. /\ \A q \in old : q # Global => q.node \in nodes /\ q.node # m
      /\ Child(m, side) \notin old /\ Child(m, other) \notin old
      /\ Child(m, side) # Global /\ Child(m, other) # Global
  BY <1>1, MemberOf, Members
<1>6. PointerAt(r, Child(m, side)) = NULL /\ PointerAt(r, Child(m, other)) = k
  BY <1>1, <1>5, Members DEF PointerAt
<1> HIDE DEF old
<1>7. ASSUME NEW q \in PointersOf(r, more)
      PROVE  /\ PointerAt(r, q) \in more \cup {NULL}
             /\ q # Global /\ PointerAt(r, q) # NULL =>
                  r.node[PointerAt(r, q)].bit_pos < r.node[q.node].bit_pos
  <2>1. CASE q = p
    BY <1>1, <2>1, MemberOf
  <2>2. CASE q \in old /\ q # p
    <3>1. PointerAt(r, q) = PointerAt(u, q) /\ PointerAt(u, q) \in nodes \cup {NULL}
      BY <1>1, <2>2 DEF Shape, old
    <3>2. q # Global => q.node \in nodes
      BY <1>5, <2>2
    <3> QED BY <1>1, <2>2, <3>1, <3>2 DEF Shape, old
  <2>3. CASE q = Child(m, side)
    BY <1>6, <2>3
  <2>4. CASE q = Child(m, other)
    BY <1>1, <1>2, <1>6, <2>4, Members
  <2> QED BY <1>4, <2>1, <2>2, <2>3, <2>4
<1>8. ASSUME NEW q1 \in PointersOf(r, more), NEW q2 \in PointersOf(r, more),
             PointerAt(r, q1) = PointerAt(r, q2), PointerAt(r, q1) # NULL
      PROVE  q1 = q2
  <2>1. \A q \in old : q # p => PointerAt(r, q) # m /\ (PointerAt(r, q) = k => FALSE)
    BY <1>1 DEF Shape, old
  <2>2. \A q \in old, s \in old :
          PointerAt(u, q) = PointerAt(u, s) /\ PointerAt(u, q) # NULL => q = s
    BY DEF Shape, old
  <2>3. p \in old /\ k # m
    BY <1>1, <1>2 DEF old
  <2> HIDE DEF k, more
  <2>4. CASE q1 \in old /\ q2 \in old
    BY <1>1, <1>8, <2>1, <2>2, <2>3, <2>4
  <2>5. CASE q1 = Child(m, other)
    BY <1>1, <1>4, <1>6, <1>8, <2>1, <2>3, <2>5
  <2>6. CASE q2 = Child(m, other)
    BY <1>1, <1>4, <1>6, <1>8, <2>1, <2>3, <2>6
  <2> QED BY <1>4, <1>6, <1>8, <2>4, <2>5, <2>6
<1>9. ASSUME NEW n \in more PROVE \E q \in PointersOf(r, more) : PointerAt(r, q) = n
  <2>1. CASE n = m
    BY <1>1, <1>4, <2>1 DEF old
  <2>2. CASE n = k
    BY <1>4, <1>6, <2>2
  <2>3. CASE n \in nodes /\ n # k
    <3>1. PICK q \in old : PointerAt(u, q) = n
      BY <2>3 DEF Shape, old
    <3>2. q # p
      BY <2>3, <3>1
    <3> QED BY <1>1, <1>4, <3>1, <3>2
  <2> QED BY <2>1, <2>2, <2>3
<1>10. Child(m, side) \in PointersOf(r, more)
  BY <1>4
<1> HIDE DEF more, k
<1>11. Shape(r, more)
  <2>1. more \subseteq NodeAddr
    BY <1>1 DEF more
  <2> QED BY <1>1, <1>7, <1>8, <1>9, <2>1 DEF Shape
<1> QED BY <1>6, <1>10, <1>11 DEF more

\* A node that is placed changes no number that the pointers lead to.
LEMMA PlacedLeads ==
  ASSUME NEW u, NEW nodes, Shape(u, nodes), NEW p \in PointersOf(u, nodes),
         NEW r, NEW m, NEW contents, Placed(u, r, nodes, p, m, contents)
  PROVE  /\ \A a : \A q \in PointersOf(u, nodes) : Leads(r, q, a) <=> Leads(u, q, a)
         /\ \A bit : \A q \in PointersOf(u, nodes) : Below(r, q, bit) <=> Below(u, q, bit)
         /\ \A x, k \in nodes : Under(r, x, k) <=> Under(u, x, k)
         /\ m \in NodeAddr \ nodes /\ m # NULL /\ r.node[m] = contents /\ PointerAt(r, p) = m
         /\ \A q \in PointersOf(u, nodes) : q # p => PointerAt(r, q) = PointerAt(u, q)
         /\ \A x \in nodes : /\ r.node[x].bit_pos = u.node[x].bit_pos
                             /\ r.node[x].number = u.node[x].number
<1>1. /\ \A q \in PointersOf(u, nodes) : q # p => PointerAt(r, q) = PointerAt(u, q)
      /\ \A x \in nodes : /\ r.node[x].bit_pos = u.node[x].bit_pos
                          /\ r.node[x].number = u.node[x].number
      /\ m \in NodeAddr \ nodes /\ m # NULL /\ r.node[m] = contents /\ PointerAt(r, p) = m
  BY NodeAddresses DEF Placed
<1>2. \A q \in PointersOf(u, nodes) : q = Global \/ q.node \in nodes
  BY MemberOf
<1>3. \A a : \A q \in PointersOf(u, nodes) : Leads(r, q, a) <=> Leads(u, q, a)
  BY <1>1, <1>2 DEF Leads
<1>4. \A bit : \A q \in PointersOf(u, nodes) : Below(r, q, bit) <=> Below(u, q, bit)
  BY <1>1, <1>2 DEF Below
<1>5. \A x, k \in nodes : Under(r, x, k) <=> Under(u, x, k)
  BY <1>1 DEF Under
<1> QED BY <1>1, <1>3, <1>4, <1>5

\* No node has a leaf's number below a pointer that leads to it and to no node.
LEMMA NothingBelow ==
  ASSUME NEW u, NEW nodes, Shape(u, nodes), Parted(u, nodes), NEW p \in PointersOf(u, nodes),
         NEW v \in Number, Leads(u, p, v), PointerAt(u, p) = NULL
  PROVE  /\ \A x \in nodes : ~(Leads(u, p, u.node[x].number) /\ Below(u, p, u.node[x].bit_pos))
         /\ \A x \in nodes : ~(u.node[x].bit_pos = 1 /\ Agree(u.node[x].number, v, 1))
<1>1. \A x \in nodes : ~(Leads(u, p, u.node[x].number) /\ Below(u, p, u.node[x].bit_pos))
  BY DEF Parted
<1>2. ASSUME NEW x \in nodes, u.node[x].bit_pos = 1, Agree(u.node[x].number, v, 1) PROVE FALSE
  <2>1. u.node[x].number \in Number /\ 1 \in BitPositions /\ Agree(v, u.node[x].number, 1)
    BY <1>2, NodeParts, RadixTreeAssumption DEF Agree
  <2>2. Below(u, p, 1)
    BY BelowPointers
  <2>3. Leads(u, p, u.node[x].number)
    BY <2>1, <2>2, LeadsAlike
  <2> QED BY <1>1, <1>2, <2>2, <2>3
<1> QED BY <1>1, <1>2

\* A leaf where its number is led to keeps the numbers parted.
LEMMA LeafParted ==
  ASSUME NEW u, NEW nodes, Shape(u, nodes), Parted(u, nodes), NEW p \in PointersOf(u, nodes),
         PointerAt(u, p) = NULL, NEW r, NEW m, NEW contents \in Node, contents.bit_pos = 1,
         Placed(u, r, nodes, p, m, contents), Leads(u, p, contents.number)
  PROVE  Parted(r, nodes \cup {m})
<1> DEFINE more == nodes \cup {m}
           old == PointersOf(u, nodes)
           v == contents.number
<1>1. /\ \A a : \A q \in old : Leads(r, q, a) <=> Leads(u, q, a)
      /\ \A bit : \A q \in old : Below(r, q, bit) <=> Below(u, q, bit)
      /\ \A x, k \in nodes : Under(r, x, k) <=> Under(u, x, k)
      /\ m \in NodeAddr \ nodes /\ m # NULL /\ r.node[m] = contents /\ PointerAt(r, p) = m
      /\ \A q \in old : q # p => PointerAt(r, q) = PointerAt(u, q)
      /\ \A x \in nodes : /\ r.node[x].bit_pos = u.node[x].bit_pos
                          /\ r.node[x].number = u.node[x].number
  BY PlacedLeads
<1>2. PointersOf(r, more) = old
  BY LeafPlaced
<1>3. v \in Number /\ 1 \in BitPositions
  BY RadixTreeAssumption DEF Node
<1>4. /\ \A x \in nodes : ~(Leads(u, p, u.node[x].number) /\ Below(u, p, u.node[x].bit_pos))
      /\ \A x \in nodes : ~(u.node[x].bit_pos = 1 /\ Agree(u.node[x].number, v, 1))
  BY <1>3, NothingBelow
<1> HIDE DEF v, old
<1>5. \A q \in old : PointerAt(r, q) # NULL => Leads(r, q, r.node[PointerAt(r, q)].number)
  <2> SUFFICES ASSUME NEW q \in old, PointerAt(r, q) # NULL
               PROVE  Leads(r, q, r.node[PointerAt(r, q)].number)
    OBVIOUS
  <2>1. CASE q = p
    BY <1>1, <2>1 DEF v
  <2>2. CASE q # p
    <3>1. PointerAt(r, q) = PointerAt(u, q) /\ PointerAt(u, q) \in nodes
      BY <1>1, <2>2, BelowPointers DEF old
    <3>2. Leads(u, q, u.node[PointerAt(u, q)].number)
      BY <3>1 DEF Parted, old
    <3> QED BY <1>1, <3>1, <3>2
  <2> QED BY <2>1, <2>2
<1>6. ASSUME NEW q \in old, NEW x \in more, Leads(r, q, r.node[x].number),
             Below(r, q, r.node[x].bit_pos)
      PROVE  PointerAt(r, q) # NULL /\ Under(r, x, PointerAt(r, q))
  <2>1. CASE x \in nodes
    <3>1. Leads(u, q, u.node[x].number) /\ Below(u, q, u.node[x].bit_pos)
      BY <1>1, <1>6, <2>1
    <3>2. q # p
      BY <1>4, <2>1, <3>1
    <3>3. PointerAt(u, q) # NULL /\ Under(u, x, PointerAt(u, q))
      BY <2>1, <3>1 DEF Parted, old
    <3>4. PointerAt(u, q) \in nodes
      BY <3>3, BelowPointers DEF old
    <3> QED BY <1>1, <2>1, <3>2, <3>3, <3>4
  <2>2. CASE x = m
    <3>1. Leads(u, q, v)
      BY <1>1, <1>6, <2>2 DEF v
    <3>2. CASE q = p
      <4>1. Agree(v, v, 1) /\ 1 <= 1
        BY DEF Agree
      <4> QED BY <1>1, <2>2, <3>2, <4>1 DEF Under, v
    <3>3. CASE q # p
      <4> DEFINE k == PointerAt(u, q)
      <4>1. Below(u, p, 1) /\ Below(u, q, 1) /\ Leads(u, p, v)
        BY BelowPointers DEF old, v
      <4>2. \A y \in nodes : Leads(u, p, u.node[y].number) /\ Below(u, p, u.node[y].bit_pos) =>
              u.node[y].bit_pos < 1
        BY <1>4
      <4>3. k # NULL /\ Agree(v, u.node[k].number, u.node[k].bit_pos) /\ 1 <= u.node[k].bit_pos
        BY <1>3, <3>1, <3>3, <4>1, <4>2, OnTheWay DEF old
      <4>4. k \in nodes /\ PointerAt(r, q) = k
        BY <1>1, <3>3, <4>3, BelowPointers DEF old
      <4> HIDE DEF k
      <4> QED BY <1>1, <2>2, <4>3, <4>4 DEF Under, v
    <3> QED BY <3>2, <3>3
  <2> QED BY <2>1, <2>2
<1>7. ASSUME NEW x \in more, NEW k \in more, r.node[x].bit_pos = r.node[k].bit_pos,
             Agree(r.node[x].number, r.node[k].number, r.node[k].bit_pos)
      PROVE  x = k
  <2>1. CASE x \in nodes /\ k \in nodes
    BY <1>1, <1>7, <2>1 DEF Parted
  <2>2. CASE x \in nodes /\ k = m
    BY <1>1, <1>4, <1>7, <2>2 DEF v
  <2>3. CASE x = m /\ k \in nodes
    <3>1. u.node[k].bit_pos = 1 /\ Agree(u.node[k].number, v, 1)
      BY <1>1, <1>7, <2>3 DEF v, Agree
    <3> QED BY <1>4, <2>3, <3>1
  <2> QED BY <2>1, <2>2, <2>3
<1> HIDE DEF more
<1> QED BY <1>2, <1>5, <1>6, <1>7 DEF Parted, more

\* So does a node above a subtree that parts a number from it.
LEMMA AboveParted ==
  ASSUME NEW u, NEW nodes, Shape(u, nodes), Parted(u, nodes), NEW p \in PointersOf(u, nodes),
         PointerAt(u, p) # NULL, NEW r, NEW m, NEW contents \in Node,
         u.node[PointerAt(u, p)].bit_pos < contents.bit_pos,
         p # Global => contents.bit_pos < u.node[p.node].bit_pos,
         NEW side \in {"zero", "one"}, NEW other \in {"zero", "one"}, other # side,
         contents[side] = NULL, contents[other] = PointerAt(u, p),
         Placed(u, r, nodes, p, m, contents), Leads(u, p, contents.number),
         Agree(contents.number, u.node[PointerAt(u, p)].number, contents.bit_pos),
         Side(contents.number, contents.bit_pos) = side,
         Side(u.node[PointerAt(u, p)].number, contents.bit_pos) = other
  PROVE  Parted(r, nodes \cup {m}) /\ Leads(r, Child(m, side), contents.number)
<1> DEFINE more == nodes \cup {m}
           k == PointerAt(u, p)
           old == PointersOf(u, nodes)
           v == contents.number
           b == contents.bit_pos
           to == Child(m, side)
           fro == Child(m, other)
<1>1. /\ \A a : \A q \in old : Leads(r, q, a) <=> Leads(u, q, a)
      /\ \A bit : \A q \in old : Below(r, q, bit) <=> Below(u, q, bit)
      /\ \A x, y \in nodes : Under(r, x, y) <=> Under(u, x, y)
      /\ m \in NodeAddr \ nodes /\ m # NULL /\ r.node[m] = contents /\ PointerAt(r, p) = m
      /\ \A q \in old : q # p => PointerAt(r, q) = PointerAt(u, q)
      /\ \A x \in nodes : /\ r.node[x].bit_pos = u.node[x].bit_pos
                          /\ r.node[x].number = u.node[x].number
  BY PlacedLeads
<1>2. k \in nodes
  BY BelowPointers
<1>3. v \in Number /\ b \in BitPositions /\ b \in Nat /\ Below(u, p, b)
  BY RadixTreeAssumption DEF Node, Below
<1>4. /\ u.node[k].number \in Number /\ u.node[k].bit_pos \in BitPositions
      /\ u.node[k].bit_pos \in Nat \ {0} /\ u.node[k].bit_pos < b
  BY <1>2, NodeParts
<1>5. PointersOf(r, more) = old \cup {to, fro}
  <2>1. {n \in more : Interior(r, n)} = {n \in nodes : Interior(u, n)} \cup {m}
    BY <1>1, <1>3, <1>4 DEF Interior
  <2>2. {"zero", "one"} = {side, other}
    OBVIOUS
  <2> QED BY <2>1, <2>2 DEF PointersOf
<1>6. PointerAt(r, to) = NULL /\ PointerAt(r, fro) = k
  <2>1. /\ to # Global /\ to.node = m /\ to.side = side
        /\ fro # Global /\ fro.node = m /\ fro.side = other
    BY Members
  <2> HIDE DEF to, fro, k
  <2>2. contents[other] = k
    BY DEF k
  <2> QED BY Zenon, <1>1, <2>1, <2>2 DEF PointerAt
<1>7. /\ \A bit : (Below(r, to, bit) <=> bit < b) /\ (Below(r, fro, bit) <=> bit < b)
      /\ \A a : Leads(r, to, a) <=> Agree(a, v, b) /\ Side(a, b) = side
      /\ \A a : Leads(r, fro, a) <=> Agree(a, v, b) /\ Side(a, b) = other
  BY <1>1, Members DEF Below, Leads
<1>8. Agree(v, u.node[k].number, b) /\ Agree(u.node[k].number, v, b)
      /\ Side(v, b) = side /\ Side(u.node[k].number, b) = other /\ Leads(u, p, v)
  BY DEF Agree
<1> HIDE DEF v, b, to, fro, old, k
<1>9. \A x \in nodes : Leads(u, p, u.node[x].number) /\ Below(u, p, u.node[x].bit_pos) =>
        Under(u, x, k) /\ u.node[x].bit_pos < b
  <2> SUFFICES ASSUME NEW x \in nodes, Leads(u, p, u.node[x].number), Below(u, p, u.node[x].bit_pos)
               PROVE  Under(u, x, k) /\ u.node[x].bit_pos < b
    OBVIOUS
  <2>1. Under(u, x, k)
    BY DEF Parted, k
  <2>2. u.node[x].bit_pos \in Nat /\ u.node[x].bit_pos <= u.node[k].bit_pos
    BY <2>1, NodeParts DEF Under
  <2> QED BY <1>3, <1>4, <2>1, <2>2
<1>10. \A x \in nodes : Agree(u.node[x].number, v, b) /\ u.node[x].bit_pos <= b =>
         Under(u, x, k) /\ u.node[x].bit_pos < b /\ Side(u.node[x].number, b) = other
  <2> SUFFICES ASSUME NEW x \in nodes, Agree(u.node[x].number, v, b), u.node[x].bit_pos <= b
               PROVE  Under(u, x, k) /\ u.node[x].bit_pos < b /\ Side(u.node[x].number, b) = other
    OBVIOUS
  <2>1. u.node[x].number \in Number /\ u.node[x].bit_pos \in Nat /\ Agree(v, u.node[x].number, b)
    BY NodeParts DEF Agree
  <2>2. Leads(u, p, u.node[x].number)
    BY <1>3, <1>8, <2>1, LeadsAlike DEF old
  <2>3. Below(u, p, u.node[x].bit_pos)
    <3>1. p # Global => u.node[p.node].bit_pos \in Nat /\ b < u.node[p.node].bit_pos
      BY <1>3, MemberOf, NodeParts DEF Below
    <3> QED BY <1>3, <2>1, <3>1 DEF Below
  <2>4. Under(u, x, k) /\ u.node[x].bit_pos < b
    BY <1>9, <2>2, <2>3
  <2>5. BitOf(u.node[x].number, b) = BitOf(u.node[k].number, b)
    BY <1>3, <1>4, <2>1, <2>4, AgreeHigher DEF Under
  <2> QED BY <1>8, <2>4, <2>5 DEF Side
<1>11. \A q \in old \cup {to, fro} :
         PointerAt(r, q) # NULL => Leads(r, q, r.node[PointerAt(r, q)].number)
  <2> SUFFICES ASSUME NEW q \in old \cup {to, fro}, PointerAt(r, q) # NULL
               PROVE  Leads(r, q, r.node[PointerAt(r, q)].number)
    OBVIOUS
  <2>1. CASE q = p
    <3>1. p \in old
      BY DEF old
    <3> QED BY <1>1, <1>8, <2>1, <3>1 DEF v
  <2>2. CASE q \in old /\ q # p
    <3>1. PointerAt(r, q) = PointerAt(u, q) /\ PointerAt(u, q) \in nodes
      BY <1>1, <2>2, BelowPointers DEF old
    <3>2. Leads(u, q, u.node[PointerAt(u, q)].number)
      BY <2>2, <3>1 DEF Parted, old
    <3> QED BY <1>1, <2>2, <3>1, <3>2
  <2>3. CASE q = fro
    BY <1>1, <1>2, <1>6, <1>7, <1>8, <2>3
  <2> QED BY <1>6, <2>1, <2>2, <2>3
<1>12. ASSUME NEW q \in old \cup {to, fro}, NEW x \in more, Leads(r, q, r.node[x].number),
              Below(r, q, r.node[x].bit_pos)
       PROVE  PointerAt(r, q) # NULL /\ Under(r, x, PointerAt(r, q))
  <2>1. CASE q \in {to, fro}
    <3>1. x # m
      BY <1>1, <1>3, <1>7, <1>12, <2>1 DEF b
    <3>2. x \in nodes /\ Agree(u.node[x].number, v, b) /\ u.node[x].bit_pos < b
      BY <1>1, <1>7, <1>12, <2>1, <3>1
    <3>3. u.node[x].bit_pos <= b
      BY <1>3, <3>2, NodeParts
    <3>4. Under(u, x, k) /\ Side(u.node[x].number, b) = other
      BY <1>10, <3>2, <3>3
    <3>5. q = fro
      BY <1>1, <1>7, <1>12, <2>1, <3>2, <3>4
    <3>6. k # NULL
      BY <1>2, NodeParts
    <3> QED BY <1>1, <1>2, <1>6, <3>2, <3>4, <3>5, <3>6
  <2>2. CASE q = p
    <3>1. q \in old
      BY <2>2 DEF old
    <3>2. CASE x = m
      <4>1. Agree(v, v, b) /\ b <= b
        BY <1>3 DEF Agree
      <4> QED BY <1>1, <2>2, <3>2, <4>1 DEF Under, v, b
    <3>3. CASE x \in nodes
      <4>1. Under(u, x, k) /\ u.node[x].bit_pos < b
        BY <1>1, <1>9, <1>12, <2>2, <3>1, <3>3
      <4>2. Agree(u.node[x].number, u.node[k].number, b) /\ u.node[x].number \in Number
        <5>1. u.node[x].number \in Number /\ u.node[k].bit_pos <= b
          BY <1>3, <1>4, <3>3, NodeParts
        <5> QED BY <1>3, <1>4, <4>1, <5>1, AgreeUp DEF Under
      <4>3. Agree(u.node[x].number, v, b) /\ u.node[x].bit_pos <= b
        <5>1. u.node[x].bit_pos \in Nat
          BY <3>3, NodeParts
        <5> QED BY <1>3, <1>8, <4>1, <4>2, <5>1 DEF Agree
      <4> QED BY <1>1, <2>2, <3>3, <4>3 DEF Under, v, b
    <3> QED BY <3>2, <3>3
  <2>3. CASE q \in old /\ q # p /\ x \in nodes
    <3>1. Leads(u, q, u.node[x].number) /\ Below(u, q, u.node[x].bit_pos)
      BY <1>1, <1>12, <2>3
    <3>2. PointerAt(u, q) # NULL /\ Under(u, x, PointerAt(u, q))
      BY <2>3, <3>1 DEF Parted, old
    <3>3. PointerAt(u, q) \in nodes
      BY <2>3, <3>2, BelowPointers DEF old
    <3> QED BY <1>1, <2>3, <3>2, <3>3
  <2>4. CASE q \in old /\ q # p /\ x = m
    <3> DEFINE c == PointerAt(u, q)
    <3>1. Leads(u, q, v) /\ Below(u, q, b)
      BY <1>1, <1>12, <2>4 DEF v, b
    <3>2. \A y \in nodes : Leads(u, p, u.node[y].number) /\ Below(u, p, u.node[y].bit_pos) =>
            u.node[y].bit_pos < b
      BY <1>9
    <3>3. c # NULL /\ Agree(v, u.node[c].number, u.node[c].bit_pos) /\ b <= u.node[c].bit_pos
      BY <1>3, <1>8, <2>4, <3>1, <3>2, OnTheWay DEF old
    <3>4. c \in nodes /\ PointerAt(r, q) = c
      BY <1>1, <2>4, <3>3, BelowPointers DEF old
    <3> HIDE DEF c
    <3> QED BY <1>1, <2>4, <3>3, <3>4 DEF Under, v, b
  <2> QED BY <2>1, <2>2, <2>3, <2>4
<1>13. ASSUME NEW x \in more, NEW y \in more, r.node[x].bit_pos = r.node[y].bit_pos,
              Agree(r.node[x].number, r.node[y].number, r.node[y].bit_pos)
       PROVE  x = y
  <2>1. CASE x \in nodes /\ y \in nodes
    BY <1>1, <1>13, <2>1 DEF Parted
  <2>2. ASSUME NEW z \in nodes, u.node[z].bit_pos = b, Agree(u.node[z].number, v, b) PROVE FALSE
    <3>1. b <= b /\ ~(b < b)
      BY <1>3
    <3> QED BY <1>10, <2>2, <3>1
  <2>3. CASE x \in nodes /\ y = m
    BY <1>1, <1>13, <2>2, <2>3 DEF v, b
  <2>4. CASE x = m /\ y \in nodes
    <3>1. u.node[y].bit_pos = b /\ Agree(u.node[y].number, v, b)
      BY <1>1, <1>13, <2>4 DEF v, b, Agree
    <3> QED BY <2>2, <2>4, <3>1
  <2> QED BY <2>1, <2>3, <2>4
<1>14. Leads(r, to, v)
  BY <1>7, <1>8 DEF Agree
<1> HIDE DEF more
<1> QED BY <1>5, <1>11, <1>12, <1>13, <1>14 DEF Parted, more, to, v

\* No node is empty, when the new one is not.
LEMMA FullPlaced ==
  ASSUME NEW u, NEW nodes, Shape(u, nodes), Full(u, nodes, {}), NEW p \in PointersOf(u, nodes),
         NEW r, NEW m, NEW contents, ~(contents.zero = 0 /\ contents.one = 0),
         Placed(u, r, nodes, p, m, contents)
  PROVE  Full(r, nodes \cup {m}, {})
<1>1. /\ m \in NodeAddr \ nodes /\ PointerAt(r, p) = m /\ r.node[m] = contents /\ m # 0
      /\ \A n \in nodes : n # p.node => r.node[n] = u.node[n]
  BY NodeAddresses DEF Placed
<1>2. p # Global => p.side \in {"zero", "one"} /\ PointerAt(r, p) = r.node[p.node][p.side]
  BY MemberOf DEF PointerAt
<1>3. p = Global => p.node \notin nodes
  BY NodeAddresses DEF Shape, Global
<1>4. p # Global => ~(r.node[p.node].zero = 0 /\ r.node[p.node].one = 0)
  BY <1>1, <1>2
<1> QED BY <1>1, <1>3, <1>4 DEF Full

-----------------------------------------------------------------------------
(***************************************************************************)
(* How often a tree holds a number: the leaf of the number counts it.      *)
(***************************************************************************)

\* The leaves of a number: there is one at most.
LeavesOfNumber(u, nodes, a) ==
  {l \in nodes : ~Interior(u, l) /\ Agree(u.node[l].number, a, 1)}

Count(u, nodes, a) ==
  LET leaves == LeavesOfNumber(u, nodes, a)
  IN  IF leaves = {} THEN 0 ELSE u.node[CHOOSE l \in leaves : TRUE][Side(a, 1)]

\* The count is the leaf's.
LEMMA CountOfLeaf ==
  ASSUME NEW u, NEW nodes, Shape(u, nodes), Parted(u, nodes), NEW a \in Number
  PROVE  /\ Count(u, nodes, a) \in Nat
         /\ \A l \in LeavesOfNumber(u, nodes, a) : Count(u, nodes, a) = u.node[l][Side(a, 1)]
         /\ LeavesOfNumber(u, nodes, a) = {} => Count(u, nodes, a) = 0
<1> DEFINE leaves == LeavesOfNumber(u, nodes, a)
           s == Side(a, 1)
           own == CHOOSE l \in leaves : TRUE
<1>1. s \in {"zero", "one"}
  BY DEF Side
<1>2. \A l \in leaves : /\ l \in nodes /\ u.node[l].bit_pos = 1 /\ u.node[l][s] \in Nat
                        /\ Agree(u.node[l].number, a, 1)
  <2> TAKE l \in leaves
  <2>1. l \in nodes /\ ~Interior(u, l) /\ Agree(u.node[l].number, a, 1)
    BY DEF LeavesOfNumber
  <2>2. u.node[l] \in Node /\ u.node[l].bit_pos \in Nat \ {0}
    BY <2>1, NodeParts
  <2>3. u.node[l][s] \in Nat
    BY <1>1, <2>2 DEF Node
  <2> QED BY <2>1, <2>2, <2>3 DEF Interior
<1>3. \A l, m \in leaves : l = m
  <2> SUFFICES ASSUME NEW l \in leaves, NEW m \in leaves PROVE l = m
    OBVIOUS
  <2>1. Agree(u.node[l].number, u.node[m].number, u.node[m].bit_pos)
    BY <1>2 DEF Agree
  <2> QED BY <1>2, <2>1 DEF Parted
<1>4. CASE leaves = {}
  BY <1>4 DEF Count
<1>5. CASE leaves # {}
  <2>1. own \in leaves /\ Count(u, nodes, a) = u.node[own][s]
    BY <1>5 DEF Count
  <2> HIDE DEF own, leaves, s
  <2>2. \A l \in leaves : l = own
    BY <1>3, <2>1
  <2> QED BY <1>2, <1>5, <2>1, <2>2 DEF leaves, s
<1> QED BY <1>4, <1>5

\* A number is counted as often in two trees if each leaf that counts it is in both.
LEMMA CountsAlike ==
  ASSUME NEW u, NEW nodes, Shape(u, nodes), Parted(u, nodes),
         NEW r, NEW kept, Shape(r, kept), Parted(r, kept), NEW a \in Number,
         \A l \in LeavesOfNumber(u, nodes, a) : u.node[l][Side(a, 1)] # 0 =>
           l \in LeavesOfNumber(r, kept, a) /\ r.node[l][Side(a, 1)] = u.node[l][Side(a, 1)],
         \A l \in LeavesOfNumber(r, kept, a) : r.node[l][Side(a, 1)] # 0 =>
           l \in LeavesOfNumber(u, nodes, a) /\ u.node[l][Side(a, 1)] = r.node[l][Side(a, 1)]
  PROVE  Count(r, kept, a) = Count(u, nodes, a)
<1> DEFINE lu == LeavesOfNumber(u, nodes, a)
           lr == LeavesOfNumber(r, kept, a)
<1>1. /\ \A l \in lu : Count(u, nodes, a) = u.node[l][Side(a, 1)]
      /\ lu = {} => Count(u, nodes, a) = 0
  BY CountOfLeaf
<1>2. /\ \A l \in lr : Count(r, kept, a) = r.node[l][Side(a, 1)]
      /\ lr = {} => Count(r, kept, a) = 0
  BY CountOfLeaf
<1> HIDE DEF lu, lr
<1>3. CASE Count(u, nodes, a) # 0
  <2>1. PICK l \in lu : TRUE
    BY <1>1, <1>3
  <2> QED BY <1>1, <1>2, <1>3, <2>1 DEF lu, lr
<1>4. CASE Count(r, kept, a) # 0
  <2>1. PICK l \in lr : TRUE
    BY <1>2, <1>4
  <2> QED BY <1>1, <1>2, <1>4, <2>1 DEF lu, lr
<1> QED BY <1>3, <1>4

\* The leaves of a tree stay what they are when a node is placed.
LEMMA PlacedLeaves ==
  ASSUME NEW u, NEW nodes, Shape(u, nodes), NEW p \in PointersOf(u, nodes),
         NEW r, NEW m, NEW contents, Placed(u, r, nodes, p, m, contents), NEW x \in nodes
  PROVE  /\ Interior(r, x) <=> Interior(u, x)
         /\ ~Interior(u, x) => r.node[x] = u.node[x]
<1>1. /\ r.node[x].bit_pos = u.node[x].bit_pos
      /\ x # p.node => r.node[x] = u.node[x]
  BY DEF Placed
<1>2. x # NULL
  BY NodeParts
<1>3. ~Interior(u, x) => x # p.node
  BY <1>2, MemberOf DEF Global
<1> QED BY <1>1, <1>3 DEF Interior

\* What a new leaf counts.
LEMMA OwnLeaf ==
  ASSUME NEW number \in Number, NEW a \in Number
  PROVE  /\ Agree(number, a, 1) => Leaf(number)[Side(a, 1)] = IF a = number THEN 1 ELSE 0
         /\ a = number => Agree(number, a, 1)
<1>1. /\ BitOf(a, 1) = a % 2 /\ a % 2 \in {0, 1} /\ a = 2 * (a \div 2) + (a % 2)
      /\ number % 2 \in {0, 1} /\ number = 2 * (number \div 2) + (number % 2)
      /\ Agree(number, a, 1) <=> number \div 2 = a \div 2
  BY AgreeLowest
<1>2. a \in Nat /\ number \in Nat
  BY NumbersAgree
<1>3. Leaf(number)[Side(a, 1)] = IF a % 2 = 0 THEN (IF number % 2 = 0 THEN 1 ELSE 0) ELSE number % 2
  BY <1>1 DEF Leaf, Side
<1>4. number \div 2 = a \div 2 => (a = number <=> a % 2 = number % 2)
  <2> DEFINE h == a \div 2
             k == number \div 2
             e == a % 2
             f == number % 2
  <2>1. h \in Nat /\ k \in Nat /\ e \in {0, 1} /\ f \in {0, 1} /\ a = 2 * h + e /\ number = 2 * k + f
    BY <1>1, <1>2
  <2> HIDE DEF h, k, e, f
  <2>2. k = h => (a = number <=> e = f)
    BY <2>1
  <2> QED BY <2>2 DEF h, k, e, f
<1> QED BY <1>1, <1>3, <1>4

\* A number is counted once more when a leaf is placed for it, as long as it has none.
LEMMA LeafCounted ==
  ASSUME NEW u, NEW nodes, Shape(u, nodes), Parted(u, nodes), NEW p \in PointersOf(u, nodes),
         PointerAt(u, p) = NULL, NEW number \in Number, Leads(u, p, number),
         Leaf(number) \in Node, Leaf(number).bit_pos = 1,
         NEW r, NEW m, Placed(u, r, nodes, p, m, Leaf(number)), NEW a \in Number
  PROVE  Count(r, nodes \cup {m}, a) = Count(u, nodes, a) + (IF a = number THEN 1 ELSE 0)
<1> DEFINE more == nodes \cup {m}
<1>1. Shape(r, more) /\ Parted(r, more)
  <2>1. Leads(u, p, Leaf(number).number)
    BY DEF Leaf
  <2> QED BY <2>1, LeafPlaced, LeafParted
<1>2. m \notin nodes /\ r.node[m] = Leaf(number)
  BY DEF Placed
<1>3. \A x \in nodes : /\ Interior(r, x) <=> Interior(u, x)
                       /\ ~Interior(u, x) => r.node[x] = u.node[x]
  BY PlacedLeaves
<1>4. \A x \in nodes : x \in LeavesOfNumber(r, more, a) <=> x \in LeavesOfNumber(u, nodes, a)
  BY <1>3 DEF LeavesOfNumber
<1>5. m \in LeavesOfNumber(r, more, a) <=> Agree(number, a, 1)
  <2>1. Leaf(number).number = number
    BY DEF Leaf
  <2>2. ~Interior(r, m) /\ m \in more
    BY <1>2 DEF Interior
  <2> QED BY <1>2, <2>1, <2>2 DEF LeavesOfNumber
<1>6. Count(u, nodes, a) \in Nat
  BY CountOfLeaf
<1>7. CASE Agree(number, a, 1)
  <2>1. LeavesOfNumber(u, nodes, a) = {}
    <3> SUFFICES ASSUME NEW x \in LeavesOfNumber(u, nodes, a) PROVE FALSE
      OBVIOUS
    <3>1. x \in nodes /\ ~Interior(u, x) /\ Agree(u.node[x].number, number, 1)
      BY <1>7 DEF LeavesOfNumber, Agree
    <3>2. u.node[x].bit_pos = 1
      BY <3>1, NodeParts DEF Interior
    <3> QED BY <3>1, <3>2, NothingBelow
  <2>2. Count(u, nodes, a) = 0
    BY <2>1, CountOfLeaf
  <2>3. Count(r, more, a) = Leaf(number)[Side(a, 1)]
    BY <1>1, <1>2, <1>5, <1>7, CountOfLeaf
  <2> HIDE DEF more
  <2>4. Count(r, more, a) = IF a = number THEN 1 ELSE 0
    BY <1>7, <2>3, OwnLeaf
  <2> QED BY <2>2, <2>4 DEF more
<1>8. CASE ~Agree(number, a, 1)
  <2>1. a # number
    BY <1>8, OwnLeaf
  <2>2. LeavesOfNumber(r, more, a) = LeavesOfNumber(u, nodes, a)
    <3>1. LeavesOfNumber(r, more, a) \subseteq more /\ LeavesOfNumber(u, nodes, a) \subseteq nodes
      BY DEF LeavesOfNumber
    <3> QED BY <1>4, <1>5, <1>8, <3>1
  <2>3. \A l \in LeavesOfNumber(u, nodes, a) : r.node[l] = u.node[l]
    BY <1>3 DEF LeavesOfNumber
  <2> HIDE DEF more
  <2>4. Count(r, more, a) = Count(u, nodes, a)
    BY <1>1, <2>2, <2>3, CountsAlike
  <2> QED BY <1>6, <2>1, <2>4 DEF more
<1> QED BY <1>7, <1>8

-----------------------------------------------------------------------------
(***************************************************************************)
(* add_number: the descent ends, and what is done at its end keeps the     *)
(* shape of the tree.                                                      *)
(***************************************************************************)

\* The bit on which a turn of the descent branches, and whether it goes further.
TurnsOn(u, bit_pos, p) == AtMost(bit_pos, u.node[PointerAt(u, p)].bit_pos)

GoesOn(u, number, bit_pos, p) ==
  LET n == u.node[PointerAt(u, p)]
  IN  /\ PointerAt(u, p) # NULL /\ Differing(number, n.number, bit_pos, n.bit_pos) = {}
      /\ TurnsOn(u, bit_pos, p) > 1

NextPointer(u, number, bit_pos, p) ==
  Child(PointerAt(u, p), Side(number, TurnsOn(u, bit_pos, p)))

\* A turn from every bit and pointer, when f is where the later turns end.
Descended(u, number, f) ==
  [bit_pos \in Levels |-> [p \in Leading(u) |->
     IF GoesOn(u, number, bit_pos, p)
     THEN f[TurnsOn(u, bit_pos, p) \div 2][NextPointer(u, number, bit_pos, p)]
     ELSE [parent |-> p, bit_pos |-> bit_pos]]]

\* Turns branch on bits that get lower.
LEMMA TurnsGoDown ==
  ASSUME NEW u \in Trees, NEW number, NEW bit_pos \in Levels, NEW p \in Leading(u),
         GoesOn(u, number, bit_pos, p)
  PROVE  /\ TurnsOn(u, bit_pos, p) \in BitPositions /\ TurnsOn(u, bit_pos, p) <= bit_pos
         /\ TurnsOn(u, bit_pos, p) \div 2 \in Levels
         /\ TurnsOn(u, bit_pos, p) \div 2 < bit_pos
<1> DEFINE pos == TurnsOn(u, bit_pos, p)
           k == u.node[PointerAt(u, p)].bit_pos
<1>1. PointerAt(u, p) \in NodeAddr /\ pos > 1
  BY DEF GoesOn, Leading
<1>2. k \in BitPositions /\ k \in Nat
  BY <1>1, TreeParts, RadixTreeAssumption
<1>3. pos \in {bit_pos, k} /\ bit_pos \in Nat /\ pos <= bit_pos
  BY <1>2, LevelBelow DEF TurnsOn, AtMost
<1> HIDE DEF pos, k
<1>4. pos \in BitPositions /\ pos \in Levels /\ pos # 0 /\ pos \in Nat
  BY <1>1, <1>2, <1>3 DEF Levels
<1>5. pos \div 2 \in Levels /\ pos \div 2 < pos /\ pos \div 2 \in Nat
  BY <1>4, LevelBelow
<1> QED BY <1>3, <1>4, <1>5 DEF pos

\* So the descent is defined.
LEMMA DescentDefined ==
  ASSUME NEW u \in Trees, NEW number
  PROVE  Descent(u, number) = Descended(u, number, Descent(u, number))
<1> DEFINE Upto(k, f) ==
             /\ f = [bit_pos \in Levels |-> f[bit_pos]]
             /\ \A bit_pos \in Levels :
                  bit_pos < k => f[bit_pos] = Descended(u, number, f)[bit_pos]
           S == {k \in Nat : \E f : Upto(k, f)}
<1>1. Levels \subseteq Nat /\ MAX_BITS \in Nat /\ \A bit_pos \in Levels : bit_pos <= MAX_BITS
  BY HighestLevel, LevelBelow, RadixTreeAssumption DEF Levels
<1>2. 0 \in S
  <2>1. Upto(0, [bit_pos \in Levels |-> 0])
    BY <1>1
  <2> QED BY <2>1
<1>3. ASSUME NEW k \in S PROVE k + 1 \in S
  <2>1. PICK f : Upto(k, f)
    BY <1>3
  <2> DEFINE g == [bit_pos \in Levels |-> IF bit_pos = k THEN Descended(u, number, f)[k]
                                          ELSE f[bit_pos]]
  <2>2. \A bit_pos \in Levels : bit_pos # k => g[bit_pos] = f[bit_pos]
    OBVIOUS
  <2>3. k \in Levels => g[k] = Descended(u, number, f)[k]
    OBVIOUS
  <2>4. ASSUME NEW bit_pos \in Levels, bit_pos <= k
        PROVE  Descended(u, number, g)[bit_pos] = Descended(u, number, f)[bit_pos]
    <3> DEFINE To(e, p) ==
                 IF GoesOn(u, number, bit_pos, p)
                 THEN e[TurnsOn(u, bit_pos, p) \div 2][NextPointer(u, number, bit_pos, p)]
                 ELSE [parent |-> p, bit_pos |-> bit_pos]
    <3>1. ASSUME NEW p \in Leading(u) PROVE To(g, p) = To(f, p)
      <4>1. CASE GoesOn(u, number, bit_pos, p)
        <5>1. TurnsOn(u, bit_pos, p) \div 2 \in Levels /\ TurnsOn(u, bit_pos, p) \div 2 < bit_pos
          BY <4>1, TurnsGoDown
        <5>2. TurnsOn(u, bit_pos, p) \div 2 # k
          BY <1>1, <2>4, <5>1
        <5> HIDE DEF g
        <5> QED BY <2>2, <5>1, <5>2
      <4>2. CASE ~GoesOn(u, number, bit_pos, p)
        BY <4>2
      <4> QED BY <4>1, <4>2
    <3>2. \A e : Descended(u, number, e)[bit_pos] = [p \in Leading(u) |-> To(e, p)]
      BY DEF Descended
    <3> HIDE DEF To, g
    <3> QED BY <3>1, <3>2
  <2>5. \A bit_pos \in Levels : bit_pos < k + 1 => bit_pos < k \/ bit_pos = k
    BY <1>1, <1>3
  <2>6. \A bit_pos \in Levels : bit_pos < k => bit_pos <= k /\ bit_pos # k
    BY <1>1, <1>3
  <2>7. k \in Nat /\ k <= k
    BY <1>3
  <2>8. g = [bit_pos \in Levels |-> g[bit_pos]]
    OBVIOUS
  <2> HIDE DEF g
  <2>9. \A bit_pos \in Levels : bit_pos < k + 1 => g[bit_pos] = Descended(u, number, g)[bit_pos]
    BY <2>1, <2>2, <2>3, <2>4, <2>5, <2>6, <2>7
  <2>10. Upto(k + 1, g)
    BY <2>8, <2>9
  <2> HIDE DEF Upto
  <2> QED BY <2>7, <2>10
<1>4. S = Nat
  <2> HIDE DEF S
  <2>1. S \subseteq Nat
    BY DEF S
  <2> QED BY <1>2, <1>3, <2>1, Induction
<1>5. PICK f : Upto(MAX_BITS + 1, f)
  <2>1. MAX_BITS + 1 \in S
    <3> HIDE DEF S
    <3> QED BY <1>1, <1>4
  <2> HIDE DEF Upto
  <2> QED BY <2>1
<1>6. f = Descended(u, number, f)
  <2>1. \A bit_pos \in Levels : bit_pos < MAX_BITS + 1
    BY <1>1
  <2>2. f = [bit_pos \in Levels |-> Descended(u, number, f)[bit_pos]]
    BY <1>5, <2>1
  <2>3. Descended(u, number, f) = [bit_pos \in Levels |-> Descended(u, number, f)[bit_pos]]
    BY DEF Descended
  <2> QED BY <2>2, <2>3
<1> QED BY Zenon, <1>6 DEF Descent, Descended, GoesOn, TurnsOn, NextPointer

\* The descent for a number has come to a pointer on its way down: the pointer leads to
\* the numbers that agree with it above the bit, and to no others.
MetAt(u, number, bit_pos, p) ==
  /\ p # Global => bit_pos < u.node[p.node].bit_pos
  /\ PointerAt(u, p) # NULL => u.node[PointerAt(u, p)].bit_pos <= bit_pos
  /\ bit_pos \in BitPositions /\ Leads(u, p, number)
  /\ \A a \in Number : Leads(u, p, a) => Agree(number, a, bit_pos)

\* Where it may end: at no node, at a subtree that the number parts from, or at a leaf.
EndsAt(u, nodes, number, end) ==
  /\ end.parent \in PointersOf(u, nodes) /\ end.bit_pos \in Levels
  /\ MetAt(u, number, end.bit_pos, end.parent)
  /\ LET nptr == PointerAt(u, end.parent)
         n == u.node[nptr]
     IN  nptr # NULL /\ Differing(number, n.number, end.bit_pos, n.bit_pos) = {} =>
           n.bit_pos = 1

\* It ends there.
LEMMA DescentEnds ==
  ASSUME NEW u, NEW nodes, Shape(u, nodes), Parted(u, nodes), NEW number \in Number
  PROVE  EndsAt(u, nodes, number, Descent(u, number)[MAX_BITS][Global])
<1> DEFINE f == Descent(u, number)
           S == {k \in Nat : k \in Levels => \A p \in PointersOf(u, nodes) :
                               MetAt(u, number, k, p) => EndsAt(u, nodes, number, f[k][p])}
<1>1. u \in Trees /\ f = Descended(u, number, f)
  BY DescentDefined DEF Shape
<1>2. PointersOf(u, nodes) \subseteq Leading(u)
  BY PointerForms DEF Leading, Shape
<1> HIDE DEF f
<1>3. \A k \in Levels, p \in PointersOf(u, nodes) :
        f[k][p] = IF GoesOn(u, number, k, p)
                  THEN f[TurnsOn(u, k, p) \div 2][NextPointer(u, number, k, p)]
                  ELSE [parent |-> p, bit_pos |-> k]
  <2> DEFINE To(k, p) == IF GoesOn(u, number, k, p)
                         THEN f[TurnsOn(u, k, p) \div 2][NextPointer(u, number, k, p)]
                         ELSE [parent |-> p, bit_pos |-> k]
  <2>1. Descended(u, number, f) = [k \in Levels |-> [p \in Leading(u) |-> To(k, p)]]
    BY DEF Descended
  <2> HIDE DEF To
  <2>2. \A k \in Levels, p \in Leading(u) : f[k][p] = To(k, p)
    BY <1>1, <2>1
  <2> QED BY Zenon, <1>2, <2>2 DEF To
<1>4. ASSUME NEW k \in Nat, \A m \in Nat : m < k => m \in S PROVE k \in S
  <2> SUFFICES ASSUME k \in Levels, NEW p \in PointersOf(u, nodes),
                      MetAt(u, number, k, p)
               PROVE  EndsAt(u, nodes, number, f[k][p])
    OBVIOUS
  <2> DEFINE nptr == PointerAt(u, p)
             n == u.node[nptr]
             pos == TurnsOn(u, k, p)
             next == NextPointer(u, number, k, p)
  <2>1. nptr # NULL => /\ nptr \in nodes /\ n.bit_pos \in BitPositions /\ n.bit_pos \in Nat \ {0}
                       /\ pos = n.bit_pos
    <3> SUFFICES ASSUME nptr # NULL
                 PROVE  /\ nptr \in nodes /\ n.bit_pos \in BitPositions
                        /\ n.bit_pos \in Nat \ {0} /\ pos = n.bit_pos
      OBVIOUS
    <3>1. nptr \in nodes /\ nptr \in NodeAddr
      BY DEF Shape
    <3>2. n.bit_pos \in BitPositions /\ n.bit_pos \in Nat \ {0}
      BY <1>1, <3>1, TreeParts, RadixTreeAssumption
    <3>3. n.bit_pos <= k
      BY DEF MetAt
    <3>4. pos = n.bit_pos
      BY <3>2, <3>3 DEF TurnsOn, AtMost
    <3> QED BY <3>1, <3>2, <3>4
  <2>2. CASE GoesOn(u, number, k, p)
    <3>1. nptr # NULL /\ pos > 1
      BY <2>2 DEF GoesOn
    <3>2. pos \in BitPositions /\ pos \div 2 \in Levels /\ pos \div 2 < k
      BY <1>1, <1>2, <2>2, TurnsGoDown
    <3>3. next \in PointersOf(u, nodes) /\ next # Global /\ next.node = nptr
      <4>1. next = Child(nptr, Side(number, pos)) /\ Side(number, pos) \in {"zero", "one"}
        BY DEF NextPointer, Side
      <4>2. Interior(u, nptr) /\ nptr \in nodes
        BY <2>1, <3>1 DEF Interior
      <4> HIDE DEF next, nptr, pos
      <4> QED BY <4>1, <4>2, PointerForms, Members
    <3>4. pos \in Levels /\ pos \in Nat /\ pos # 0 /\ pos \div 2 < pos /\ pos \div 2 \in Nat
      BY <2>1, <3>1, <3>2, LevelBelow DEF Levels
    <3>5. /\ pos \in BitPositions \ {1} /\ pos \div 2 \in BitPositions /\ pos = n.bit_pos
          /\ next.side = Side(number, pos) /\ n.number \in Number
      <4>1. pos \in BitPositions \ {1}
        BY <3>1, <3>2
      <4>2. next.side = Side(number, pos)
        BY Members DEF NextPointer
      <4>3. n.number \in Number
        BY <2>1, <3>1, NodeParts
      <4> QED BY <2>1, <3>1, <4>1, <4>2, <4>3, RadixTreeAssumption
    <3>6. Agree(number, n.number, pos)
      <4>1. Leads(u, p, n.number)
        BY <3>1 DEF Parted
      <4>2. Agree(number, n.number, k) /\ k \in BitPositions
        BY <3>5, <4>1 DEF MetAt
      <4>3. Differing(number, n.number, k, n.bit_pos) = {} /\ n.bit_pos <= k
        BY <2>2, <3>1 DEF GoesOn, MetAt
      <4> HIDE DEF n, pos
      <4> QED BY <3>5, <4>2, <4>3, AgreeDown
    <3>7. /\ Leads(u, next, number)
          /\ \A a \in Number : Leads(u, next, a) => Agree(number, a, pos \div 2)
      <4>1. \A a : Leads(u, next, a) <=> Agree(a, n.number, pos) /\ Side(a, pos) = Side(number, pos)
        BY <3>3, <3>5 DEF Leads
      <4> HIDE DEF next, pos, n
      <4>2. Leads(u, next, number)
        BY <3>6, <4>1
      <4>3. ASSUME NEW a \in Number, Leads(u, next, a) PROVE Agree(number, a, pos \div 2)
        <5>1. Agree(number, a, pos) /\ BitOf(number, pos) = BitOf(a, pos)
          BY <3>5, <3>6, <4>1, <4>3, Sides DEF Agree
        <5> QED BY <3>5, <5>1, AgreeLower
      <4> QED BY <4>2, <4>3
    <3>8. MetAt(u, number, pos \div 2, next)
      <4>1. pos \div 2 < u.node[next.node].bit_pos
        BY <2>1, <3>1, <3>3, <3>4
      <4>2. ASSUME PointerAt(u, next) # NULL
            PROVE  u.node[PointerAt(u, next)].bit_pos <= pos \div 2
        <5>1. PointerAt(u, next) \in nodes /\ u.node[PointerAt(u, next)].bit_pos < n.bit_pos
          BY <3>3, <4>2 DEF Shape
        <5>2. u.node[PointerAt(u, next)].bit_pos \in BitPositions
          BY <1>1, <5>1, TreeParts DEF Shape
        <5> QED BY <2>1, <3>1, <3>4, <5>1, <5>2, LevelBelow
      <4> QED BY <3>5, <3>7, <4>1, <4>2 DEF MetAt
    <3>9. pos \div 2 \in S
      BY <1>4, <3>2, <3>4
    <3>10. EndsAt(u, nodes, number, f[pos \div 2][next])
      BY <3>2, <3>3, <3>8, <3>9
    <3> QED BY <1>3, <2>2, <3>10
  <2>3. CASE ~GoesOn(u, number, k, p)
    <3>1. f[k][p] = [parent |-> p, bit_pos |-> k]
      BY <1>3, <2>3
    <3>2. nptr # NULL /\ Differing(number, n.number, k, n.bit_pos) = {} => n.bit_pos = 1
      BY <2>1, <2>3 DEF GoesOn
    <3> QED BY <3>1, <3>2 DEF EndsAt
  <2> QED BY <2>2, <2>3
<1>5. MAX_BITS \in S
  <2> HIDE DEF S
  <2> QED BY <1>4, StrongInduction, HighestLevel
<1>6. Global \in PointersOf(u, nodes)
  BY DEF PointersOf
<1>7. MetAt(u, number, MAX_BITS, Global)
  <2>1. PointerAt(u, Global) \in nodes \cup {NULL} /\ nodes \subseteq NodeAddr
    BY <1>6 DEF Shape
  <2>2. PointerAt(u, Global) # NULL => u.node[PointerAt(u, Global)].bit_pos \in BitPositions
    BY <1>1, <2>1, TreeParts
  <2> QED BY <2>2, HighestLevel, NumbersAgree DEF MetAt, Leads
<1> QED BY <1>5, <1>6, <1>7, HighestLevel DEF f

\* Where nodes branch and their numbers say what the pointers lead to.
LEMMA SameLeads ==
  ASSUME NEW u, NEW nodes \in SUBSET NodeAddr, NEW r, SameBits(u, r)
  PROVE  /\ \A a : \A q \in PointersOf(u, nodes) : Leads(r, q, a) <=> Leads(u, q, a)
         /\ \A bit : \A q \in PointersOf(u, nodes) : Below(r, q, bit) <=> Below(u, q, bit)
         /\ \A x, k \in nodes : Under(r, x, k) <=> Under(u, x, k)
         /\ \A x \in nodes : Interior(r, x) <=> Interior(u, x)
         /\ \A a : LeavesOfNumber(r, nodes, a) = LeavesOfNumber(u, nodes, a)
<1>1. \A x \in nodes : /\ r.node[x].bit_pos = u.node[x].bit_pos
                       /\ r.node[x].number = u.node[x].number
  BY DEF SameBits
<1>2. \A q \in PointersOf(u, nodes) : q = Global \/ q.node \in nodes
  BY MemberOf
<1>3. \A a : \A q \in PointersOf(u, nodes) : Leads(r, q, a) <=> Leads(u, q, a)
  BY <1>1, <1>2 DEF Leads
<1>4. \A bit : \A q \in PointersOf(u, nodes) : Below(r, q, bit) <=> Below(u, q, bit)
  BY <1>1, <1>2 DEF Below
<1>5. \A x, k \in nodes : Under(r, x, k) <=> Under(u, x, k)
  BY <1>1 DEF Under
<1>6. \A x \in nodes : Interior(r, x) <=> Interior(u, x)
  BY <1>1 DEF Interior
<1>7. \A a : LeavesOfNumber(r, nodes, a) = LeavesOfNumber(u, nodes, a)
  BY <1>1, <1>6 DEF LeavesOfNumber
<1> QED BY <1>3, <1>4, <1>5, <1>6, <1>7

\* Counting at a leaf leaves the shape as it is, and the numbers parted as they are.
LEMMA Recounted ==
  ASSUME NEW u, NEW nodes, Shape(u, nodes), NEW k, k \in nodes => u.node[k].bit_pos = 1,
         NEW r \in Trees, r.tree = u.tree, SameBits(u, r),
         \A n \in NodeAddr : n # k => r.node[n] = u.node[n]
  PROVE  /\ Shape(r, nodes) /\ PointersOf(r, nodes) = PointersOf(u, nodes)
         /\ \A p \in PointersOf(u, nodes) : PointerAt(r, p) = PointerAt(u, p)
         /\ Parted(u, nodes) => Parted(r, nodes)
<1>1. nodes \subseteq NodeAddr
  BY DEF Shape
<1>2. PointersOf(r, nodes) = PointersOf(u, nodes)
  <2>1. \A n \in nodes : Interior(r, n) <=> Interior(u, n)
    BY <1>1 DEF SameBits, Interior
  <2> QED BY <2>1 DEF PointersOf
<1>3. \A p \in PointersOf(u, nodes) : PointerAt(r, p) = PointerAt(u, p)
  <2> TAKE p \in PointersOf(u, nodes)
  <2>1. CASE p = Global
    BY <2>1 DEF PointerAt
  <2>2. CASE p # Global
    <3>1. p.node \in nodes /\ Interior(u, p.node)
      BY <2>2, MemberOf
    <3>2. p.node # k
      BY <3>1 DEF Interior
    <3> QED BY <1>1, <2>2, <3>1, <3>2 DEF PointerAt
  <2> QED BY <2>1, <2>2
<1>4. \A p \in PointersOf(u, nodes) : p # Global => p.node \in nodes
  BY MemberOf
<1>5. Shape(r, nodes)
  BY <1>1, <1>2, <1>3, <1>4 DEF Shape, SameBits
<1>6. ASSUME Parted(u, nodes) PROVE Parted(r, nodes)
  <2>1. /\ \A a : \A q \in PointersOf(u, nodes) : Leads(r, q, a) <=> Leads(u, q, a)
        /\ \A bit : \A q \in PointersOf(u, nodes) : Below(r, q, bit) <=> Below(u, q, bit)
        /\ \A x, y \in nodes : Under(r, x, y) <=> Under(u, x, y)
    BY <1>1, SameLeads
  <2>2. \A x \in nodes : /\ r.node[x].bit_pos = u.node[x].bit_pos
                         /\ r.node[x].number = u.node[x].number
    BY <1>1 DEF SameBits
  <2>3. \A p \in PointersOf(u, nodes) : PointerAt(u, p) # NULL => PointerAt(u, p) \in nodes
    BY BelowPointers
  <2>4. \A p \in PointersOf(r, nodes) :
          PointerAt(r, p) # NULL => Leads(r, p, r.node[PointerAt(r, p)].number)
    BY <1>2, <1>3, <1>6, <2>1, <2>2, <2>3 DEF Parted
  <2>5. \A p \in PointersOf(r, nodes), m \in nodes :
          Leads(r, p, r.node[m].number) /\ Below(r, p, r.node[m].bit_pos) =>
            PointerAt(r, p) # NULL /\ Under(r, m, PointerAt(r, p))
    BY <1>2, <1>3, <1>6, <2>1, <2>2, <2>3 DEF Parted
  <2>6. \A m, y \in nodes :
          r.node[m].bit_pos = r.node[y].bit_pos
          /\ Agree(r.node[m].number, r.node[y].number, r.node[y].bit_pos) => m = y
    BY <1>6, <2>2 DEF Parted
  <2> QED BY <2>4, <2>5, <2>6 DEF Parted
<1> QED BY <1>2, <1>3, <1>5, <1>6

\* The nodes that add_number makes.
LEMMA NewContents ==
  ASSUME NEW number \in Number
  PROVE  /\ Leaf(number) \in Node /\ Leaf(number).bit_pos = 1
         /\ ~(Leaf(number).zero = 0 /\ Leaf(number).one = 0)
         /\ \A bit \in BitPositions, nptr \in NodeAddr :
              LET above == Above(nptr, number, bit)
                  side == Side(number, bit)
                  other == IF side = "zero" THEN "one" ELSE "zero"
              IN  /\ above \in Node /\ above.bit_pos = bit
                  /\ above[side] = NULL /\ above[other] = nptr
                  /\ ~(above.zero = 0 /\ above.one = 0)
<1>1. number \in Nat /\ number % 2 \in {0, 1}
  <2>1. 2 * MAX_BITS - 1 \in Int
    BY HighestLevel
  <2> QED BY <2>1 DEF Number
<1>2. Leaf(number) \in Node /\ Leaf(number).bit_pos = 1 /\ ~(Leaf(number).zero = 0 /\ Leaf(number).one = 0)
  <2>1. Leaf(number) = [bit_pos |-> 1, number |-> number,
                        zero |-> IF number % 2 = 0 THEN 1 ELSE 0, one |-> number % 2]
    BY DEF Leaf
  <2> QED BY <1>1, <2>1, RadixTreeAssumption DEF Node
<1>3. ASSUME NEW bit \in BitPositions, NEW nptr \in NodeAddr
      PROVE  LET above == Above(nptr, number, bit)
                 side == Side(number, bit)
                 other == IF side = "zero" THEN "one" ELSE "zero"
             IN  /\ above \in Node /\ above.bit_pos = bit
                 /\ above[side] = NULL /\ above[other] = nptr
                 /\ ~(above.zero = 0 /\ above.one = 0)
  <2>1. nptr \in Nat /\ nptr # 0 /\ NULL = 0 /\ NULL \in Nat
    BY NodeAddresses DEF NULL
  <2>2. CASE BitOf(number, bit) = 0
    BY <2>1, <2>2 DEF Above, Side, Node
  <2>3. CASE BitOf(number, bit) # 0
    BY <2>1, <2>3 DEF Above, Side, Node
  <2> QED BY <2>2, <2>3
<1> QED BY <1>2, <1>3

\* A tree with the nodes more holds a number once more than one with the nodes, and all
\* others as often.
OnceMore(u, nodes, r, more, number) ==
  \A a \in Number :
    Count(r, more, a) = Count(u, nodes, a) + (IF a = number THEN 1 ELSE 0)

\* A node above a subtree counts nothing.
LEMMA AboveCounted ==
  ASSUME NEW u, NEW nodes, Shape(u, nodes), Parted(u, nodes), NEW p \in PointersOf(u, nodes),
         NEW r, NEW m, NEW contents, contents.bit_pos > 1, Placed(u, r, nodes, p, m, contents),
         Shape(r, nodes \cup {m}), Parted(r, nodes \cup {m}), NEW a \in Number
  PROVE  Count(r, nodes \cup {m}, a) = Count(u, nodes, a)
<1> DEFINE more == nodes \cup {m}
<1>1. \A x \in nodes : /\ Interior(r, x) <=> Interior(u, x)
                       /\ ~Interior(u, x) => r.node[x] = u.node[x]
  BY PlacedLeaves
<1>2. Interior(r, m)
  BY DEF Placed, Interior
<1>3. /\ LeavesOfNumber(r, more, a) = LeavesOfNumber(u, nodes, a)
      /\ \A l \in LeavesOfNumber(u, nodes, a) : r.node[l] = u.node[l]
  BY <1>1, <1>2 DEF LeavesOfNumber
<1> HIDE DEF more
<1>4. Shape(r, more) /\ Parted(r, more)
  BY DEF more
<1>5. Count(r, more, a) = Count(u, nodes, a)
  BY <1>3, <1>4, CountsAlike
<1> QED BY <1>5 DEF more

\* A leaf of the number counts it.
LEMMA LeafCounts ==
  ASSUME NEW u, NEW nodes, Shape(u, nodes), Parted(u, nodes), NEW number \in Number,
         NEW l \in LeavesOfNumber(u, nodes, number), NEW r, Shape(r, nodes), Parted(r, nodes),
         SameBits(u, r), \A n \in NodeAddr : n # l => r.node[n] = u.node[n],
         r.node[l][Side(number, 1)] = u.node[l][Side(number, 1)] + 1,
         \A s \in {"zero", "one"} : s # Side(number, 1) => r.node[l][s] = u.node[l][s]
  PROVE  OnceMore(u, nodes, r, nodes, number)
<1> SUFFICES ASSUME NEW a \in Number
             PROVE  Count(r, nodes, a) = Count(u, nodes, a) + (IF a = number THEN 1 ELSE 0)
  BY DEF OnceMore
<1>1. nodes \subseteq NodeAddr /\ l \in nodes /\ Agree(u.node[l].number, number, 1)
  BY DEF Shape, LeavesOfNumber
<1>2. LeavesOfNumber(r, nodes, a) = LeavesOfNumber(u, nodes, a)
  BY <1>1, SameLeads
<1>3. Count(u, nodes, a) \in Nat
  BY CountOfLeaf
<1>4. CASE a = number
  <2>1. Count(u, nodes, a) = u.node[l][Side(a, 1)] /\ Count(r, nodes, a) = r.node[l][Side(a, 1)]
    BY <1>2, <1>4, CountOfLeaf
  <2> QED BY <1>4, <2>1
<1>5. CASE a # number
  <2>1. l \in LeavesOfNumber(u, nodes, a) => Side(a, 1) # Side(number, 1)
    <3> SUFFICES ASSUME Agree(u.node[l].number, a, 1), Side(a, 1) = Side(number, 1) PROVE FALSE
      BY DEF LeavesOfNumber
    <3>1. Agree(number, a, 1)
      BY <1>1 DEF Agree
    <3>2. BitOf(a, 1) = BitOf(number, 1)
      BY Sides, RadixTreeAssumption
    <3>3. a = number
      BY <3>1, <3>2, AgreeLowest
    <3> QED BY <1>5, <3>3
  <2>2. Side(a, 1) \in {"zero", "one"}
    BY DEF Side
  <2>3. \A x \in LeavesOfNumber(u, nodes, a) : r.node[x][Side(a, 1)] = u.node[x][Side(a, 1)]
    <3> TAKE x \in LeavesOfNumber(u, nodes, a)
    <3>1. x \in NodeAddr
      BY <1>1 DEF LeavesOfNumber
    <3> QED BY <2>1, <2>2, <3>1
  <2>4. Count(r, nodes, a) = Count(u, nodes, a)
    BY <1>2, <2>3, CountsAlike
  <2> QED BY <1>3, <1>5, <2>4
<1> QED BY <1>4, <1>5

\* add_number makes a node or two, or counts, keeps the tree a tree, and puts the number
\* into it.
LEMMA AddNumber ==
  ASSUME NEW u, NEW nodes, Grown(u, nodes, {}), HasRoom(u.heap, NodeSize),
         NEW number \in Number
  PROVE  \E more : /\ Grown(add_number(u, number), more, {})
                   /\ OnceMore(u, nodes, add_number(u, number), more, number)
<1> DEFINE end == Descent(u, number)[MAX_BITS][Global]
           p == end.parent
           nptr == PointerAt(u, p)
           n == u.node[nptr]
           diff == Differing(number, n.number, end.bit_pos, n.bit_pos)
           bit == Max(diff)
           side == Side(number, bit)
           other == IF side = "zero" THEN "one" ELSE "zero"
           above == WithNode(u, p, Above(nptr, number, bit))
           r == add_number(u, number)
<1>1. /\ Shape(u, nodes) /\ HeapHas(u.heap, nodes) /\ Full(u, nodes, {}) /\ Parted(u, nodes)
      /\ u \in Trees
  BY DEF Grown, Shape
<1>2. NodeAfforded(u.heap, nodes)
  BY DEF NodeAfforded, Affords
<1>3. EndsAt(u, nodes, number, end)
  BY <1>1, DescentEnds
<1>4. p \in PointersOf(u, nodes) /\ nptr \in nodes \cup {NULL} /\ nodes \subseteq NodeAddr
  BY <1>1, <1>3 DEF EndsAt, Shape
<1>5. r = CASE nptr = NULL -> WithNode(u, p, Leaf(number))
            [] nptr # NULL /\ diff # {} ->
                 WithNode(above, Child(PointerAt(above, p), side), Leaf(number))
            [] nptr # NULL /\ diff = {} -> [u EXCEPT !.node[nptr][Side(number, 1)] = @ + 1]
  BY DEF add_number
<1> HIDE DEF r, end
<1>6. Leads(u, p, number) /\ Leaf(number).number = number
  BY <1>3 DEF EndsAt, MetAt, Leaf
<1>7. nptr # NULL => /\ nptr \in nodes /\ n.number \in Number /\ n.bit_pos \in BitPositions
                     /\ Leads(u, p, n.number) /\ n.bit_pos <= end.bit_pos
                     /\ end.bit_pos \in BitPositions /\ Agree(number, n.number, end.bit_pos)
  <2> SUFFICES ASSUME nptr # NULL
               PROVE  /\ nptr \in nodes /\ n.number \in Number /\ n.bit_pos \in BitPositions
                      /\ Leads(u, p, n.number) /\ n.bit_pos <= end.bit_pos
                      /\ end.bit_pos \in BitPositions /\ Agree(number, n.number, end.bit_pos)
    BY Zenon
  <2>1. nptr \in nodes
    BY <1>4
  <2>2. n.number \in Number /\ n.bit_pos \in BitPositions
    BY <1>1, <2>1, NodeParts
  <2>3. Leads(u, p, n.number)
    BY <1>1, <1>4 DEF Parted
  <2>4. MetAt(u, number, end.bit_pos, p)
    BY ONLY <1>3 DEF EndsAt
  <2>5. n.bit_pos <= end.bit_pos /\ end.bit_pos \in BitPositions
    BY ONLY nptr # NULL, <2>4 DEF MetAt
  <2>6. Agree(number, n.number, end.bit_pos)
    BY <2>2, <2>3, <2>4 DEF MetAt
  <2> QED BY Zenon, <2>1, <2>2, <2>3, <2>5, <2>6
<1>8. CASE nptr = NULL
  <2> DEFINE m == PointerAt(r, p)
  <2>1. r = WithNode(u, p, Leaf(number))
    BY <1>5, <1>8
  <2>2. Placed(u, r, nodes, p, m, Leaf(number)) /\ HeapHas(r.heap, nodes \cup {m})
    BY <1>1, <1>2, <1>4, <2>1, NewContents, NodePlaced
  <2> HIDE DEF m
  <2>3. Shape(r, nodes \cup {m})
    BY <1>1, <1>4, <1>8, <2>2, NewContents, LeafPlaced
  <2>4. Full(r, nodes \cup {m}, {})
    BY <1>1, <1>4, <2>2, NewContents, FullPlaced
  <2>5. Leaf(number) \in Node /\ Leaf(number).bit_pos = 1
    BY NewContents
  <2>6. Parted(r, nodes \cup {m})
    BY <1>1, <1>4, <1>8, <1>6, <2>2, <2>5, LeafParted
  <2>7. OnceMore(u, nodes, r, nodes \cup {m}, number)
    BY <1>1, <1>4, <1>8, <1>6, <2>2, <2>5, LeafCounted DEF OnceMore
  <2>8. Grown(r, nodes \cup {m}, {})
    BY <2>2, <2>3, <2>4, <2>6 DEF Grown
  <2> QED BY <2>7, <2>8 DEF r
<1>9. CASE nptr # NULL /\ diff # {}
  <2> DEFINE m == PointerAt(above, p)
             q == Child(m, side)
             more == nodes \cup {m}
             l == PointerAt(r, q)
  <2>1. r = WithNode(above, q, Leaf(number))
    BY Zenon, <1>5, <1>9
  <2>2. nptr \in nodes /\ nptr \in NodeAddr /\ n.bit_pos \in BitPositions
    BY <1>1, <1>4, <1>9, TreeParts
  <2>3. bit \in BitPositions /\ n.bit_pos < bit /\ bit <= end.bit_pos
    <3>1. bit \in diff
      BY Zenon, <1>9, HighestBit DEF Differing
    <3> HIDE DEF bit
    <3> QED BY <3>1 DEF Differing
  <2>4. Agree(number, n.number, bit) /\ BitOf(number, bit) # BitOf(n.number, bit)
    <3>1. /\ diff \subseteq BitPositions /\ bit \in diff
          /\ \A b \in diff : b <= bit
      BY Zenon, <1>9, HighestBit DEF Differing
    <3>2. BitOf(number, bit) # BitOf(n.number, bit)
      <4> HIDE DEF bit
      <4> QED BY <3>1 DEF Differing
    <3>3. Differing(number, n.number, end.bit_pos, bit) = {}
      <4> SUFFICES ASSUME NEW b \in BitPositions, bit < b, b <= end.bit_pos,
                          BitOf(number, b) # BitOf(n.number, b)
                   PROVE  FALSE
        BY DEF Differing
      <4>1. b \in Nat /\ bit \in Nat /\ n.bit_pos \in Nat
        <5> HIDE DEF bit
        <5> QED BY <2>2, <2>3, RadixTreeAssumption
      <4>2. n.bit_pos < b
        <5> HIDE DEF bit, n
        <5> QED BY <2>3, <4>1
      <4>3. b \in diff
        BY <4>2 DEF Differing
      <4> HIDE DEF bit, diff
      <4> QED BY <3>1, <4>1, <4>3
    <3>4. Agree(number, n.number, bit)
      <4> HIDE DEF bit, n, diff
      <4> QED BY <1>9, <1>7, <2>3, <3>3, AgreeDown
    <3> QED BY Zenon, <3>2, <3>4
  <2>5. p # Global => bit < u.node[p.node].bit_pos
    <3>1. p # Global => end.bit_pos < u.node[p.node].bit_pos /\ p.node \in nodes
      BY <1>3, <1>4, MemberOf DEF EndsAt, MetAt
    <3>2. bit \in Nat /\ end.bit_pos \in Nat
      <4>1. end.bit_pos \in Nat
        BY <1>3, LevelBelow DEF EndsAt
      <4> HIDE DEF bit
      <4> QED BY <2>3, <4>1, RadixTreeAssumption
    <3>3. p # Global => u.node[p.node].bit_pos \in Nat
      BY <1>1, <1>4, <3>1, TreeParts, RadixTreeAssumption
    <3> HIDE DEF bit
    <3> QED BY <2>3, <3>1, <3>2, <3>3
  <2> DEFINE contents == Above(nptr, number, bit)
  <2>6. /\ contents \in Node /\ contents.bit_pos = bit
        /\ contents[side] = NULL /\ contents[other] = nptr
        /\ ~(contents.zero = 0 /\ contents.one = 0)
        /\ side \in {"zero", "one"} /\ other \in {"zero", "one"} /\ other # side
        /\ contents.number = number /\ Side(contents.number, contents.bit_pos) = side
        /\ Side(n.number, contents.bit_pos) = other
    <3>1. contents.number = number /\ contents.bit_pos = bit
      BY DEF Above
    <3>2. Side(number, bit) # Side(n.number, bit) /\ Side(n.number, bit) \in {"zero", "one"}
      <4> HIDE DEF bit, n
      <4> QED BY <1>9, <1>7, <2>3, <2>4, Sides
    <3>3. side \in {"zero", "one"} /\ other \in {"zero", "one"} /\ other # side
      BY DEF Side
    <3>4. /\ contents \in Node /\ contents.bit_pos = bit
          /\ contents[side] = NULL /\ contents[other] = nptr
          /\ ~(contents.zero = 0 /\ contents.one = 0)
      <4> HIDE DEF bit, nptr
      <4> QED BY <2>2, <2>3, NewContents
    <3>5. Side(n.number, bit) = other
      <4> HIDE DEF bit, n
      <4> QED BY <3>3, <3>2
    <3> HIDE DEF contents, other, bit, n
    <3> QED BY <3>3, <3>4, <3>1, <3>5
  <2>7. Agree(contents.number, n.number, contents.bit_pos) /\ contents.bit_pos > 1
    <3>1. bit \in Nat /\ n.bit_pos \in Nat \ {0}
      <4> HIDE DEF bit, n
      <4> QED BY <2>2, <2>3, RadixTreeAssumption
    <3> HIDE DEF contents, bit, n
    <3> QED BY <2>3, <2>6, <2>4, <3>1
  <2> HIDE DEF contents, other, side
  <2>8. /\ Placed(u, above, nodes, p, m, contents) /\ HeapHas(above.heap, more)
        /\ NodeAfforded(above.heap, more)
    BY Zenon, <1>1, <1>2, <1>4, <2>6, NodePlaced DEF contents
  <2> HIDE DEF above
  <2>9. /\ PointerAt(u, p) # NULL /\ contents[other] = PointerAt(u, p)
        /\ u.node[PointerAt(u, p)].bit_pos < contents.bit_pos
        /\ p # Global => contents.bit_pos < u.node[p.node].bit_pos
    <3>1. PointerAt(u, p) # NULL /\ contents[other] = PointerAt(u, p)
      BY ONLY Zenon, <1>9, <2>6
    <3>2. u.node[PointerAt(u, p)].bit_pos < contents.bit_pos
      BY ONLY <2>3, <2>6
    <3>3. p # Global => contents.bit_pos < u.node[p.node].bit_pos
      BY ONLY <2>5, <2>6
    <3> QED BY ONLY <3>1, <3>2, <3>3
  <2>10. Shape(above, more) /\ q \in PointersOf(above, more) /\ PointerAt(above, q) = NULL
    <3>1. /\ contents \in Node /\ contents[side] = NULL /\ other # side
          /\ side \in {"zero", "one"} /\ other \in {"zero", "one"}
      BY <2>6
    <3>2. /\ Shape(above, nodes \cup {m}) /\ Child(m, side) \in PointersOf(above, nodes \cup {m})
          /\ PointerAt(above, Child(m, side)) = NULL
      <4> HIDE DEF m, bit, p
      <4> QED BY <1>1, <1>4, <2>8, <2>9, <3>1, AbovePlaced
    <3> HIDE DEF m
    <3> QED BY <3>2
  <2>11. Parted(above, more) /\ Leads(above, q, number)
    <3>1. /\ Agree(contents.number, u.node[PointerAt(u, p)].number, contents.bit_pos)
          /\ Side(u.node[PointerAt(u, p)].number, contents.bit_pos) = other
          /\ Leads(u, p, contents.number)
      BY Zenon, <1>6, <2>6, <2>7
    <3>2. Parted(above, nodes \cup {m}) /\ Leads(above, Child(m, side), contents.number)
      <4> HIDE DEF m, bit, p
      <4> QED BY <1>1, <1>4, <2>6, <2>8, <2>9, <3>1, AboveParted
    <3> HIDE DEF m
    <3> QED BY <2>6, <3>2
  <2>12. \A a \in Number : Count(above, more, a) = Count(u, nodes, a)
    <3>1. Shape(above, nodes \cup {m}) /\ Parted(above, nodes \cup {m})
      BY <2>10, <2>11
    <3>2. \A a \in Number : Count(above, nodes \cup {m}, a) = Count(u, nodes, a)
      <4> HIDE DEF m, p, bit
      <4> QED BY <1>1, <1>4, <2>8, <2>7, <3>1, AboveCounted
    <3> QED BY <3>2
  <2>13. Full(above, more, {})
    <3> HIDE DEF m, bit
    <3> QED BY <1>1, <1>4, <2>6, <2>8, FullPlaced
  <2> HIDE DEF q, more
  <2>14. Placed(above, r, more, q, l, Leaf(number)) /\ HeapHas(r.heap, more \cup {l})
    BY <2>1, <2>8, <2>10, NewContents, NodePlaced
  <2> HIDE DEF l
  <2>15. Shape(r, more \cup {l})
    BY <2>10, <2>14, NewContents, LeafPlaced
  <2>16. Full(r, more \cup {l}, {})
    BY <2>10, <2>13, <2>14, NewContents, FullPlaced
  <2>17. Leaf(number) \in Node /\ Leaf(number).bit_pos = 1
    BY NewContents
  <2>18. Parted(r, more \cup {l})
    BY <1>6, <2>10, <2>14, <2>11, <2>17, LeafParted
  <2>19. \A a \in Number : Count(r, more \cup {l}, a)
                            = Count(above, more, a) + (IF a = number THEN 1 ELSE 0)
    BY <2>10, <2>14, <2>11, <2>17, LeafCounted
  <2>20. OnceMore(u, nodes, r, more \cup {l}, number)
    BY <2>12, <2>19 DEF OnceMore
  <2>21. Grown(r, more \cup {l}, {})
    BY <2>14, <2>15, <2>16, <2>18 DEF Grown
  <2> QED BY <2>20, <2>21 DEF r
<1>10. CASE nptr # NULL /\ diff = {}
  <2> DEFINE s == Side(number, 1)
             f == [u.node EXCEPT ![nptr] = [u.node[nptr] EXCEPT ![s] = u.node[nptr][s] + 1]]
  <2>1. nptr \in nodes /\ nptr \in NodeAddr /\ n.bit_pos = 1 /\ n \in Node
    <3>1. nptr \in nodes /\ nptr \in NodeAddr
      <4> HIDE DEF nptr
      <4> QED BY <1>4, <1>10
    <3>2. n.bit_pos = 1
      BY <1>3, <1>10 DEF EndsAt
    <3>3. n \in Node
      <4> HIDE DEF nptr
      <4> QED BY <1>1, <3>1, TreeParts
    <3> QED BY <3>1, <3>2, <3>3
  <2>2. r = [heap |-> u.heap, node |-> f, tree |-> u.tree]
    <3>1. r = [u EXCEPT !.node[nptr][s] = @ + 1]
      BY <1>5, <1>10
    <3>2. u = [heap |-> u.heap, node |-> u.node, tree |-> u.tree]
      BY <1>1, TreeParts
    <3> HIDE DEF nptr, s
    <3> QED BY <3>1, <3>2
  <2>3. s \in {"zero", "one"}
    BY DEF Side
  <2>4. /\ f \in [NodeAddr -> Node] /\ \A k \in NodeAddr : k # nptr => f[k] = u.node[k]
        /\ f[nptr].bit_pos = n.bit_pos /\ f[nptr].number = n.number
        /\ f[nptr][s] = n[s] + 1
        /\ \A s1 \in {"zero", "one"} : s1 # s => f[nptr][s1] = n[s1]
    <3> HIDE DEF nptr, s
    <3>1. u.node \in [NodeAddr -> Node]
      BY <1>1, TreeParts
    <3>2. CASE s = "zero"
      BY <2>1, <3>1, <3>2 DEF Node
    <3>3. CASE s = "one"
      BY <2>1, <3>1, <3>3 DEF Node
    <3> QED BY <2>3, <3>2, <3>3
  <2> HIDE DEF f, nptr, s
  <2>5. r \in Trees /\ r.heap = u.heap /\ r.tree = u.tree /\ r.node = f
    BY <1>1, <2>2, <2>4, TreeParts
  <2>6. SameBits(u, r)
    BY <2>4, <2>5 DEF SameBits
  <2>7. Shape(r, nodes) /\ Parted(r, nodes)
    BY <1>1, <2>1, <2>4, <2>5, <2>6, Recounted
  <2>8. nptr \in LeavesOfNumber(u, nodes, number)
    <3>1. Agree(number, n.number, 1)
      <4> HIDE DEF n, diff
      <4> QED BY <1>10, <1>7, <2>1, AgreeDown DEF diff
    <3> QED BY <2>1, <3>1 DEF LeavesOfNumber, Interior, Agree
  <2>9. OnceMore(u, nodes, r, nodes, number)
    BY <1>1, <2>4, <2>5, <2>6, <2>7, <2>8, LeafCounts DEF s
  <2>10. ~(f[nptr].zero = 0 /\ f[nptr].one = 0)
    <3>1. n.zero \in Nat /\ n.one \in Nat
      BY <2>1 DEF Node
    <3> QED BY <2>3, <2>4, <3>1
  <2>11. Full(r, nodes, {})
    BY <1>1, <1>4, <2>4, <2>5, <2>10 DEF Full
  <2>12. Grown(r, nodes, {})
    BY <1>1, <2>5, <2>7, <2>11 DEF Grown
  <2> QED BY <2>9, <2>12 DEF r
<1> QED BY <1>8, <1>9, <1>10

-----------------------------------------------------------------------------
(***************************************************************************)
(* take_numbers_2: what a call does to the subtree at a pointer, while the *)
(* nodes on the path to it are about to be looked at again.                *)
(***************************************************************************)

\* A pointer whose node stays is a pointer still.
LEMMA PointersStay ==
  ASSUME NEW u, NEW nodes \in SUBSET NodeAddr, NEW q \in PointersOf(u, nodes), NEW r,
         SameBits(u, r), NEW kept, q = Global \/ q.node \in kept
  PROVE  q \in PointersOf(r, kept)
<1>1. CASE q = Global
  BY <1>1 DEF PointersOf
<1>2. CASE q # Global
  <2>1. /\ q.node \in nodes /\ Interior(u, q.node) /\ q.side \in {"zero", "one"}
        /\ q = Child(q.node, q.side) /\ q.node \in kept
    BY <1>2, MemberOf
  <2>2. Interior(r, q.node)
    BY <2>1 DEF Interior, SameBits
  <2> QED BY <2>1, <2>2, PointerForms
<1> QED BY <1>1, <1>2

\* A tree with the nodes that are kept holds the numbers as often.
SameCounts(u, nodes, r, kept) ==
  \A a \in Number : Count(r, kept, a) = Count(u, nodes, a)

\* No other node is in the subtree of an empty one.
LEMMA NothingUnder ==
  ASSUME NEW u, NEW nodes, Shape(u, nodes), Parted(u, nodes), NEW k \in nodes,
         u.node[k].zero = 0, u.node[k].one = 0, NEW m \in nodes, Under(u, m, k)
  PROVE  m = k
<1> DEFINE x == u.node[m]
           n == u.node[k]
<1>1. /\ n.bit_pos \in BitPositions /\ n.bit_pos \in Nat \ {0} /\ x.bit_pos \in Nat \ {0}
      /\ Agree(x.number, n.number, n.bit_pos) /\ x.bit_pos <= n.bit_pos
  BY NodeParts DEF Under
<1>2. CASE x.bit_pos = n.bit_pos
  BY <1>1, <1>2 DEF Parted
<1>3. CASE x.bit_pos # n.bit_pos
  <2> DEFINE side == Side(x.number, n.bit_pos)
             q == Child(k, side)
  <2>1. x.bit_pos < n.bit_pos /\ n.bit_pos > 1
    <3> HIDE DEF x, n
    <3> QED BY <1>1, <1>3
  <2>2. side \in {"zero", "one"}
    BY DEF Side
  <2>3. q \in PointersOf(u, nodes) /\ q # Global /\ q.node = k /\ q.side = side
    <3> HIDE DEF side
    <3> QED BY <2>1, <2>2, PointerForms, Members DEF Interior
  <2>4. PointerAt(u, q) = NULL
    <3> HIDE DEF side, q
    <3> QED BY <2>2, <2>3 DEF PointerAt, NULL
  <2>5. Leads(u, q, x.number) /\ Below(u, q, x.bit_pos)
    <3>1. side = Side(x.number, n.bit_pos)
      OBVIOUS
    <3> HIDE DEF q, side
    <3> QED BY <1>1, <2>1, <2>3, <3>1 DEF Leads, Below
  <2> HIDE DEF q
  <2> QED BY <2>3, <2>4, <2>5 DEF Parted
<1> QED BY <1>2, <1>3

\* An empty node that is pruned is released, and nothing leads to it any more.
LEMMA PrunedEmpty ==
  ASSUME NEW u, NEW nodes, NEW path, NEW k, Grown(u, nodes, path \cup {k}),
         NEW p \in PointersOf(u, nodes), PointerAt(u, p) = k, k # NULL, k \notin path,
         p = Global \/ p.node \in path, u.node[k].zero = 0, u.node[k].one = 0
  PROVE  LET r == Pruned(u, p)
         IN  /\ Grown(r, nodes \ {k}, path) /\ SameBits(u, r) /\ PointerAt(r, p) = NULL
             /\ \A q \in PointersOf(u, nodes) : q # p => PointerAt(r, q) = PointerAt(u, q)
             /\ SameCounts(u, nodes, r, nodes \ {k})
<1> DEFINE v == WithPointer(u, p, NULL)
           h == release(u.heap, k)
           r == [v EXCEPT !.heap = h]
           old == PointersOf(u, nodes)
           kept == nodes \ {k}
<1>1. /\ Shape(u, nodes) /\ HeapHas(u.heap, nodes) /\ Full(u, nodes, path \cup {k})
      /\ Parted(u, nodes) /\ u \in Trees /\ nodes \subseteq NodeAddr /\ k \in nodes /\ k \in NodeAddr
  BY DEF Grown, Shape
<1>2. Pruned(u, p) = r
  BY DEF Pruned, Removed
<1>3. HeapHas(h, kept) /\ h \in Heaps
  BY <1>1, ReleaseNode, NodesInUse
<1>4. p \in Pointers /\ old \subseteq Pointers
  BY <1>1, PointerForms
<1>5. /\ v \in Trees /\ v.heap = u.heap /\ SameBits(u, v) /\ PointerAt(v, p) = NULL
      /\ \A q \in Pointers : q # p => PointerAt(v, q) = PointerAt(u, q)
      /\ \A n \in NodeAddr : n # p.node => v.node[n] = u.node[n]
  BY <1>1, <1>4, Relinked
<1> HIDE DEF v, h
<1>6. r \in Trees /\ r.heap = h /\ r.node = v.node /\ r.tree = v.tree
  BY <1>3, <1>5 DEF Trees
<1> HIDE DEF r
<1>7. SameBits(u, r) /\ \A q : PointerAt(r, q) = PointerAt(v, q)
  BY <1>5, <1>6 DEF SameBits, PointerAt
<1>8. \A q \in old : q # p => PointerAt(r, q) = PointerAt(u, q)
  BY <1>4, <1>5, <1>7
<1>9. PointerAt(r, p) = NULL
  BY <1>5, <1>7
<1>10. /\ PointersOf(r, kept) \subseteq old
       /\ \A q \in old : q = Global \/ q.node # k => q \in PointersOf(r, kept)
  <2>1. ASSUME NEW q \in PointersOf(r, kept), q # Global PROVE q \in old
    <3>1. /\ q.node \in kept /\ Interior(r, q.node) /\ q.side \in {"zero", "one"}
          /\ q = Child(q.node, q.side)
      BY <2>1, MemberOf
    <3>2. Interior(u, q.node) /\ q.node \in nodes
      BY <1>1, <1>7, <3>1 DEF Interior, SameBits
    <3> QED BY <3>1, <3>2, PointerForms
  <2>2. Global \in old
    BY DEF PointersOf
  <2>3. ASSUME NEW q \in old, q = Global \/ q.node # k PROVE q \in PointersOf(r, kept)
    <3>1. q = Global \/ q.node \in kept
      BY <2>3, MemberOf
    <3> HIDE DEF kept
    <3> QED BY <1>1, <1>7, <3>1, PointersStay
  <2> QED BY <2>1, <2>2, <2>3
<1>11. \A q \in old : q # Global /\ q.node = k => PointerAt(u, q) = NULL
  BY MemberOf DEF NULL
<1>12. \A q \in PointersOf(r, kept) : q # p => PointerAt(u, q) # k
  BY <1>1, <1>10 DEF Shape
<1>13. Shape(r, kept)
  <2>1. ASSUME NEW q \in PointersOf(r, kept)
        PROVE  /\ PointerAt(r, q) \in kept \cup {NULL}
               /\ q # Global /\ PointerAt(r, q) # NULL =>
                    r.node[PointerAt(r, q)].bit_pos < r.node[q.node].bit_pos
    <3>1. CASE q = p
      BY <1>9, <3>1
    <3>2. CASE q # p
      <4>1. q \in old /\ PointerAt(r, q) = PointerAt(u, q) /\ PointerAt(r, q) # k
        BY <1>8, <1>10, <1>12, <3>2
      <4>2. PointerAt(u, q) \in nodes \cup {NULL}
        BY <1>1, <4>1 DEF Shape
      <4>3. q # Global => q.node \in nodes
        BY <4>1, MemberOf
      <4> QED BY <1>1, <1>7, <4>1, <4>2, <4>3 DEF Shape, SameBits
    <3> QED BY <3>1, <3>2
  <2>2. ASSUME NEW q1 \in PointersOf(r, kept), NEW q2 \in PointersOf(r, kept),
               PointerAt(r, q1) = PointerAt(r, q2), PointerAt(r, q1) # NULL
        PROVE  q1 = q2
    <3>1. q1 # p /\ q2 # p
      BY <1>9, <2>2
    <3>2. /\ q1 \in old /\ q2 \in old
          /\ PointerAt(u, q1) = PointerAt(r, q1) /\ PointerAt(u, q2) = PointerAt(r, q2)
      BY <1>8, <1>10, <3>1
    <3>3. \A q, q3 \in old :
            PointerAt(u, q) = PointerAt(u, q3) /\ PointerAt(u, q) # NULL => q = q3
      BY <1>1 DEF Shape
    <3> HIDE DEF old, kept
    <3> QED BY <2>2, <3>2, <3>3
  <2>3. ASSUME NEW n \in kept PROVE \E q \in PointersOf(r, kept) : PointerAt(r, q) = n
    <3>1. PICK q \in old : PointerAt(u, q) = n
      BY <1>1 DEF Shape
    <3>2. q # p /\ n # NULL
      BY <1>1, <3>1, NodeAddresses
    <3>3. q = Global \/ q.node # k
      BY <1>11, <3>1, <3>2
    <3> QED BY <1>8, <1>10, <3>1, <3>2, <3>3
  <2>4. kept \subseteq NodeAddr
    BY <1>1
  <2> HIDE DEF kept
  <2> QED BY <1>6, <2>1, <2>2, <2>3, <2>4 DEF Shape
<1>14. Full(r, kept, path)
  <2>1. p = Global => p.node \notin NodeAddr
    BY NodeAddresses DEF Global
  <2>2. \A n \in kept \ path : n # p.node /\ n \in NodeAddr
    BY <1>1, <2>1
  <2>3. \A n \in kept \ path : r.node[n] = u.node[n]
    BY <1>5, <1>6, <2>2
  <2> QED BY <1>1, <2>3 DEF Full
<1>15. /\ \A a : \A q \in old : Leads(r, q, a) <=> Leads(u, q, a)
       /\ \A bit : \A q \in old : Below(r, q, bit) <=> Below(u, q, bit)
       /\ \A x, y \in nodes : Under(r, x, y) <=> Under(u, x, y)
       /\ \A x \in nodes : Interior(r, x) <=> Interior(u, x)
       /\ \A x \in nodes : /\ r.node[x].bit_pos = u.node[x].bit_pos
                           /\ r.node[x].number = u.node[x].number
  <2>1. SameBits(u, r) /\ nodes \in SUBSET NodeAddr
    BY <1>1, <1>7
  <2>2. \A x \in nodes : /\ r.node[x].bit_pos = u.node[x].bit_pos
                         /\ r.node[x].number = u.node[x].number
    BY <2>1 DEF SameBits
  <2> QED BY <2>1, <2>2, SameLeads
<1>16. Parted(r, kept)
  <2>1. ASSUME NEW q \in PointersOf(r, kept), PointerAt(r, q) # NULL
        PROVE  Leads(r, q, r.node[PointerAt(r, q)].number)
    <3>1. q \in old /\ PointerAt(r, q) = PointerAt(u, q)
      BY <1>8, <1>9, <1>10, <2>1
    <3>2. PointerAt(u, q) \in nodes /\ Leads(u, q, u.node[PointerAt(u, q)].number)
      BY <1>1, <2>1, <3>1, BelowPointers DEF Parted
    <3> HIDE DEF old
    <3> QED BY <1>15, <3>1, <3>2
  <2>2. ASSUME NEW q \in PointersOf(r, kept), NEW m \in kept,
               Leads(r, q, r.node[m].number), Below(r, q, r.node[m].bit_pos)
        PROVE  PointerAt(r, q) # NULL /\ Under(r, m, PointerAt(r, q))
    <3>1. q \in old /\ m \in nodes /\ m # k
      BY <1>10
    <3>2. Leads(u, q, u.node[m].number) /\ Below(u, q, u.node[m].bit_pos)
      <4> HIDE DEF old, kept
      <4> QED BY <1>15, <2>2, <3>1
    <3>3. PointerAt(u, q) # NULL /\ Under(u, m, PointerAt(u, q))
      BY <1>1, <3>1, <3>2 DEF Parted
    <3>4. q # p
      BY <1>1, <3>1, <3>3, NothingUnder
    <3>5. PointerAt(r, q) = PointerAt(u, q) /\ PointerAt(u, q) \in nodes
      BY <1>1, <1>8, <3>1, <3>3, <3>4, BelowPointers
    <3> HIDE DEF old, kept
    <3> QED BY <1>15, <3>1, <3>3, <3>5
  <2>3. ASSUME NEW m \in kept, NEW y \in kept, r.node[m].bit_pos = r.node[y].bit_pos,
               Agree(r.node[m].number, r.node[y].number, r.node[y].bit_pos)
        PROVE  m = y
    <3>1. m \in nodes /\ y \in nodes
      OBVIOUS
    <3>2. /\ u.node[m].bit_pos = u.node[y].bit_pos
          /\ Agree(u.node[m].number, u.node[y].number, u.node[y].bit_pos)
      <4> HIDE DEF kept
      <4> QED BY <1>15, <2>3, <3>1
    <3> QED BY <1>1, <3>1, <3>2 DEF Parted
  <2> HIDE DEF kept
  <2> QED BY <2>1, <2>2, <2>3 DEF Parted
<1>17. ASSUME NEW a \in Number PROVE Count(r, kept, a) = Count(u, nodes, a)
  <2>1. \A x \in nodes : x # p.node => r.node[x] = u.node[x]
    BY <1>1, <1>5, <1>6
  <2>2. \A x \in nodes : ~Interior(u, x) => r.node[x] = u.node[x]
    <3>1. p # Global => Interior(u, p.node)
      BY MemberOf
    <3>2. p = Global => \A x \in nodes : x # p.node
      BY <1>1, NodeAddresses DEF Global
    <3> QED BY <2>1, <3>1, <3>2
  <2>3. Side(a, 1) \in {"zero", "one"}
    BY DEF Side
  <2>4. \A l \in LeavesOfNumber(u, nodes, a) : u.node[l][Side(a, 1)] # 0 =>
          l \in LeavesOfNumber(r, kept, a) /\ r.node[l][Side(a, 1)] = u.node[l][Side(a, 1)]
    <3> SUFFICES ASSUME NEW l \in nodes, ~Interior(u, l), Agree(u.node[l].number, a, 1),
                        u.node[l][Side(a, 1)] # 0
                 PROVE  /\ l \in kept /\ ~Interior(r, l) /\ Agree(r.node[l].number, a, 1)
                        /\ r.node[l][Side(a, 1)] = u.node[l][Side(a, 1)]
      BY DEF LeavesOfNumber
    <3>1. l # k
      BY <2>3
    <3> QED BY <1>15, <2>2, <3>1
  <2>5. \A l \in LeavesOfNumber(r, kept, a) :
          l \in LeavesOfNumber(u, nodes, a) /\ u.node[l][Side(a, 1)] = r.node[l][Side(a, 1)]
    <3> SUFFICES ASSUME NEW l \in kept, ~Interior(r, l), Agree(r.node[l].number, a, 1)
                 PROVE  /\ l \in nodes /\ ~Interior(u, l) /\ Agree(u.node[l].number, a, 1)
                        /\ u.node[l][Side(a, 1)] = r.node[l][Side(a, 1)]
      BY DEF LeavesOfNumber
    <3> QED BY <1>15, <2>2
  <2> HIDE DEF kept
  <2> QED BY <1>1, <1>13, <1>16, <2>4, <2>5, CountsAlike
<1>18. Grown(r, kept, path)
  BY <1>3, <1>6, <1>13, <1>14, <1>16 DEF Grown
<1> QED BY <1>2, <1>7, <1>8, <1>9, <1>18, <1>17 DEF SameCounts

\* What a call at the pointer p leaves of the nodes, when it leaves the tree r: the
\* nodes that are kept, those on the path among them with all other pointers.
LeavesOf(u, r, nodes, kept, path, p) ==
  /\ kept \subseteq nodes /\ path \subseteq kept
  /\ Grown(r, kept, path) /\ SameBits(u, r)
  /\ PointerAt(r, p) \in {PointerAt(u, p), NULL}
  /\ \A q \in PointersOf(u, nodes) :
       q # p /\ (q = Global \/ q.node \in path) => PointerAt(r, q) = PointerAt(u, q)

\* Pruning is such a call for a node that is just below the path; it takes no number.
LEMMA PrunedLeaves ==
  ASSUME NEW u, NEW nodes, NEW path \in SUBSET nodes, NEW k, Grown(u, nodes, path \cup {k}),
         NEW p \in PointersOf(u, nodes), PointerAt(u, p) = k, k # NULL, k \notin path,
         p = Global \/ p.node \in path
  PROVE  \E kept : /\ LeavesOf(u, Pruned(u, p), nodes, kept, path, p)
                   /\ SameCounts(u, nodes, Pruned(u, p), kept)
<1>1. CASE u.node[k].zero = 0 /\ u.node[k].one = 0
  <2>1. /\ Grown(Pruned(u, p), nodes \ {k}, path) /\ SameBits(u, Pruned(u, p))
        /\ PointerAt(Pruned(u, p), p) = NULL
        /\ \A q \in PointersOf(u, nodes) : q # p => PointerAt(Pruned(u, p), q) = PointerAt(u, q)
        /\ SameCounts(u, nodes, Pruned(u, p), nodes \ {k})
    BY <1>1, PrunedEmpty
  <2>2. LeavesOf(u, Pruned(u, p), nodes, nodes \ {k}, path, p)
    BY <2>1 DEF LeavesOf
  <2> QED BY <2>1, <2>2
<1>2. CASE ~(u.node[k].zero = 0 /\ u.node[k].one = 0)
  <2>1. Pruned(u, p) = u
    BY <1>2 DEF Pruned
  <2>2. Full(u, nodes, path)
    BY <1>2 DEF Grown, Full
  <2>3. LeavesOf(u, u, nodes, nodes, path, p)
    BY <2>2 DEF LeavesOf, Grown, SameBits
  <2>4. SameCounts(u, nodes, u, nodes)
    BY DEF SameCounts
  <2> QED BY <2>1, <2>3, <2>4
<1> QED BY <1>1, <1>2

-----------------------------------------------------------------------------
(***************************************************************************)
(* How often a number is in a sequence.                                    *)
(***************************************************************************)

Occurs(s, a) == Cardinality({i \in DOMAIN s : s[i] = a})

\* It is as often in two sequences, one after the other, as in both.
LEMMA OccursInBoth ==
  ASSUME NEW x \in Seq(Nat), NEW y \in Seq(Nat), NEW a
  PROVE  /\ Occurs(x, a) \in Nat
         /\ Occurs(x \o y, a) = Occurs(x, a) + Occurs(y, a)
<1> DEFINE m == Len(x)
           both == x \o y
           X == {i \in DOMAIN x : x[i] = a}
           Y == {i \in DOMAIN y : y[i] = a}
           Moved == {i + m : i \in Y}
           f == [i \in Y |-> i + m]
<1>1. m \in Nat /\ DOMAIN x = 1 .. m /\ Len(y) \in Nat /\ DOMAIN y = 1 .. Len(y)
  OBVIOUS
<1>2. /\ both \in Seq(Nat) /\ Len(both) = m + Len(y)
      /\ \A i \in 1 .. m + Len(y) : both[i] = IF i <= m THEN x[i] ELSE y[i - m]
  BY ConcatProperties
<1>3. DOMAIN both = 1 .. m + Len(y)
  <2> HIDE DEF both, m
  <2> QED BY <1>2
<1> HIDE DEF both, m
<1>4. X \subseteq 1 .. m /\ Y \subseteq 1 .. Len(y)
  BY <1>1
<1>5. IsFiniteSet(X) /\ IsFiniteSet(Y) /\ Cardinality(X) \in Nat /\ Cardinality(Y) \in Nat
  <2>1. IsFiniteSet(1 .. m) /\ IsFiniteSet(1 .. Len(y))
    BY <1>1, FS_Interval
  <2> HIDE DEF X, Y
  <2> QED BY <1>4, <2>1, FS_Subset, FS_CardinalityType
<1>6. IsFiniteSet(Moved) /\ Cardinality(Moved) = Cardinality(Y)
  <2>1. f \in Bijection(Y, Moved)
    <3>1. Y \subseteq Nat
      BY <1>1, <1>4
    <3> HIDE DEF Y
    <3>2. f \in [Y -> Moved] /\ \A k, l \in Y : f[k] = f[l] => k = l
      BY <1>1, <3>1
    <3>3. \A z \in Moved : \E k \in Y : f[k] = z
      OBVIOUS
    <3> HIDE DEF f, Moved
    <3> QED BY <3>2, <3>3 DEF Bijection, Injection, Surjection, IsInjective
  <2> HIDE DEF f, Moved, Y
  <2> QED BY <1>5, <2>1, FS_Bijection DEF ExistsBijection
<1>7. X \cap Moved = {}
  <2> SUFFICES ASSUME NEW i \in X, NEW k \in Y, i = k + m PROVE FALSE
    OBVIOUS
  <2>1. i \in 1 .. m /\ k \in 1 .. Len(y)
    BY <1>4
  <2> HIDE DEF X, Y
  <2> QED BY <1>1, <2>1
<1>8. {i \in DOMAIN both : both[i] = a} = X \cup Moved
  <2>1. ASSUME NEW i \in 1 .. m + Len(y), both[i] = a PROVE i \in X \cup Moved
    <3>1. CASE i <= m
      BY <1>1, <1>2, <2>1, <3>1
    <3>2. CASE ~(i <= m)
      <4>1. i - m \in 1 .. Len(y) /\ i = (i - m) + m
        BY <1>1, <3>2
      <4>2. y[i - m] = a
        BY <1>2, <2>1, <3>2
      <4>3. i - m \in Y
        BY <1>1, <4>1, <4>2
      <4> HIDE DEF Y
      <4> QED BY <4>1, <4>3
    <3> QED BY <3>1, <3>2
  <2>2. ASSUME NEW i \in X PROVE i \in 1 .. m + Len(y) /\ both[i] = a
    <3>1. i \in 1 .. m /\ x[i] = a
      BY <1>1
    <3>2. i \in 1 .. m + Len(y) /\ i <= m
      BY <1>1, <3>1
    <3> QED BY <1>2, <3>1, <3>2
  <2>3. ASSUME NEW k \in Y PROVE k + m \in 1 .. m + Len(y) /\ both[k + m] = a
    <3>1. k \in 1 .. Len(y) /\ y[k] = a
      BY <1>1
    <3>2. k + m \in 1 .. m + Len(y) /\ ~(k + m <= m) /\ (k + m) - m = k
      BY <1>1, <3>1
    <3> QED BY <1>2, <3>1, <3>2
  <2> HIDE DEF X, Y
  <2> QED BY <1>3, <2>1, <2>2, <2>3
<1>9. Cardinality(X \cup Moved) = Cardinality(X) + Cardinality(Y)
  <2> HIDE DEF X, Y, Moved
  <2>1. Cardinality(X \cup Moved) = Cardinality(X) + Cardinality(Y) - Cardinality(X \cap Moved)
    BY <1>5, <1>6, FS_Union
  <2>2. Cardinality(X \cap Moved) = 0
    BY <1>7, FS_EmptySet
  <2> QED BY <1>5, <2>1, <2>2
<1> QED BY <1>5, <1>8, <1>9 DEF Occurs, both

\* A number that is all of a sequence, or none of it.
LEMMA OccursRepeated ==
  ASSUME NEW x \in Seq(Nat), NEW a
  PROVE  /\ (\A i \in 1 .. Len(x) : x[i] = a) => Occurs(x, a) = Len(x)
         /\ (\A i \in 1 .. Len(x) : x[i] # a) => Occurs(x, a) = 0
<1>1. DOMAIN x = 1 .. Len(x) /\ Len(x) \in Nat
  OBVIOUS
<1>2. Cardinality(1 .. Len(x)) = Len(x) /\ Cardinality({}) = 0
  <2> DEFINE n == Len(x)
  <2>1. n \in Nat
    BY <1>1
  <2> HIDE DEF n
  <2>2. Cardinality(1 .. n) = n
    BY <2>1, FS_Interval
  <2> QED BY <2>2, FS_EmptySet DEF n
<1>3. ASSUME \A i \in 1 .. Len(x) : x[i] = a PROVE Occurs(x, a) = Len(x)
  <2>1. {k \in DOMAIN x : x[k] = a} = 1 .. Len(x)
    BY <1>1, <1>3
  <2> QED BY <1>2, <2>1 DEF Occurs
<1>4. ASSUME \A i \in 1 .. Len(x) : x[i] # a PROVE Occurs(x, a) = 0
  <2>1. {k \in DOMAIN x : x[k] = a} = {}
    BY <1>1, <1>4
  <2> QED BY <1>2, <2>1 DEF Occurs
<1> QED BY <1>3, <1>4

\* A number occurs if it is one of the sequence's.
LEMMA OccursSome ==
  ASSUME NEW x \in Seq(Nat), NEW a
  PROVE  Occurs(x, a) # 0 <=> \E i \in DOMAIN x : x[i] = a
<1> DEFINE X == {i \in DOMAIN x : x[i] = a}
<1>1. DOMAIN x = 1 .. Len(x) /\ Len(x) \in Nat
  OBVIOUS
<1>2. IsFiniteSet(X)
  <2>1. X \in SUBSET (1 .. Len(x)) /\ IsFiniteSet(1 .. Len(x))
    BY <1>1, FS_Interval
  <2> HIDE DEF X
  <2> QED BY <2>1, FS_Subset
<1>3. Cardinality(X) = 0 <=> X = {}
  <2> HIDE DEF X
  <2> QED BY <1>2, FS_EmptySet
<1> QED BY <1>3 DEF Occurs

\* The subtree at a pointer counts the numbers that the pointer leads to.
LEMMA CountedUnder ==
  ASSUME NEW u, NEW nodes, Shape(u, nodes), Parted(u, nodes), NEW p \in PointersOf(u, nodes),
         NEW a \in Number, Leads(u, p, a), Count(u, nodes, a) # 0
  PROVE  LET n == u.node[PointerAt(u, p)]
         IN  PointerAt(u, p) # NULL /\ Agree(a, n.number, n.bit_pos)
<1> DEFINE k == PointerAt(u, p)
           n == u.node[k]
<1>1. LeavesOfNumber(u, nodes, a) # {}
  BY CountOfLeaf
<1>2. PICK l \in nodes : ~Interior(u, l) /\ Agree(u.node[l].number, a, 1)
  BY <1>1 DEF LeavesOfNumber
<1>3. u.node[l].bit_pos = 1 /\ u.node[l].number \in Number /\ 1 \in BitPositions
  <2>1. u.node[l].bit_pos \in Nat \ {0} /\ u.node[l].number \in Number
    BY NodeParts
  <2> QED BY <1>2, <2>1, RadixTreeAssumption DEF Interior
<1>4. Leads(u, p, u.node[l].number) /\ Below(u, p, u.node[l].bit_pos)
  <2>1. Agree(a, u.node[l].number, 1) /\ Below(u, p, 1)
    BY <1>2, BelowPointers DEF Agree
  <2> QED BY <1>3, <2>1, LeadsAlike
<1>5. k # NULL /\ Under(u, l, k)
  BY <1>4 DEF Parted
<1>6. n.bit_pos \in BitPositions /\ n.number \in Number /\ 1 <= n.bit_pos
  <2>1. k \in nodes
    BY <1>5, BelowPointers
  <2>2. n.bit_pos \in BitPositions /\ n.number \in Number /\ n.bit_pos \in Nat \ {0}
    BY <2>1, NodeParts
  <2> HIDE DEF n
  <2> QED BY <2>2
<1>7. Agree(a, u.node[l].number, n.bit_pos)
  <2>1. Agree(a, u.node[l].number, 1)
    BY <1>2 DEF Agree
  <2> HIDE DEF n
  <2> QED BY <1>3, <1>6, <2>1, AgreeUp
<1>8. Agree(a, n.number, n.bit_pos)
  BY <1>5, <1>7 DEF Under, Agree
<1> QED BY <1>5, <1>8

\* How many of a number are among so many even and odd ones of a leaf.
OfLeaf(number, zeros, ones, a) ==
  IF ~Agree(number, a, 1) THEN 0 ELSE IF Side(a, 1) = "zero" THEN zeros ELSE ones

\* The numbers that are taken from a leaf.
LEMMA LeafNumbers ==
  ASSUME NEW number \in Number, NEW zeros \in Nat, NEW ones \in Nat
  PROVE  LET even == 2 * (number \div 2)
             new == [i \in 1 .. zeros |-> even] \o [i \in 1 .. ones |-> even + 1]
         IN  /\ new \in Seq(Number) /\ Len(new) = zeros + ones
             /\ \A a \in Number : Occurs(new, a) = OfLeaf(number, zeros, ones, a)
             /\ \A i \in DOMAIN new : /\ Agree(number, new[i], 1)
                                      /\ new[i] = IF i <= zeros THEN even ELSE even + 1
             /\ \A i, j \in DOMAIN new : i <= j => new[i] <= new[j]
<1> DEFINE even == 2 * (number \div 2)
           x == [i \in 1 .. zeros |-> even]
           y == [i \in 1 .. ones |-> even + 1]
           new == x \o y
<1>1. /\ even \in Number /\ even + 1 \in Number /\ even \in Nat /\ number \in Nat
      /\ number \div 2 \in Nat
  <2>1. even \in Number /\ even + 1 \in Number
    BY AgreeLowest
  <2> HIDE DEF even
  <2>2. even \in Nat /\ number \in Nat
    BY <2>1, NumbersAgree
  <2>3. number \div 2 \in Nat
    BY <2>2
  <2> QED BY <2>1, <2>2, <2>3
<1>2. even \div 2 = number \div 2 /\ (even + 1) \div 2 = number \div 2
      /\ even % 2 = 0 /\ (even + 1) % 2 = 1
  <2> DEFINE half == number \div 2
  <2>1. half \in Nat
    BY <1>1
  <2> HIDE DEF half
  <2>2. /\ (2 * half) \div 2 = half /\ (2 * half + 1) \div 2 = half
        /\ (2 * half) % 2 = 0 /\ (2 * half + 1) % 2 = 1
    BY <2>1
  <2> QED BY <2>2 DEF half
<1> HIDE DEF even
<1>3. x \in Seq(Number) /\ y \in Seq(Number) /\ Len(x) = zeros /\ Len(y) = ones
  BY <1>1
<1>4. \A i \in 1 .. zeros : x[i] = even
  OBVIOUS
<1>5. \A i \in 1 .. ones : y[i] = even + 1
  OBVIOUS
<1>6. Number \subseteq Nat
  BY NumbersAgree
<1>7. x \in Seq(Nat) /\ y \in Seq(Nat)
  BY <1>1
<1> HIDE DEF x, y
<1>8. \A a : Occurs(new, a) = (IF a = even THEN zeros ELSE 0) + (IF a = even + 1 THEN ones ELSE 0)
  <2> TAKE a
  <2>1. Occurs(x, a) = IF a = even THEN zeros ELSE 0
    BY ONLY <1>3, <1>4, <1>7, zeros \in Nat, OccursRepeated
  <2>2. Occurs(y, a) = IF a = even + 1 THEN ones ELSE 0
    BY ONLY <1>3, <1>5, <1>7, ones \in Nat, OccursRepeated
  <2>3. Occurs(new, a) = Occurs(x, a) + Occurs(y, a)
    BY <1>7, OccursInBoth
  <2> QED BY <2>1, <2>2, <2>3
<1>9. /\ new \in Seq(Number) /\ Len(new) = zeros + ones
      /\ \A i \in 1 .. zeros + ones : new[i] = IF i <= zeros THEN x[i] ELSE y[i - zeros]
  BY <1>3, ConcatProperties
<1> HIDE DEF new
<1>10. DOMAIN new = 1 .. zeros + ones
  BY <1>9
<1>11. \A i \in DOMAIN new : new[i] = IF i <= zeros THEN even ELSE even + 1
  <2> TAKE i \in DOMAIN new
  <2>1. i \in 1 .. zeros + ones
    BY <1>10
  <2>2. CASE i <= zeros
    <3>1. i \in 1 .. zeros
      BY <2>1, <2>2
    <3> QED BY <1>4, <1>9, <2>1, <2>2, <3>1
  <2>3. CASE ~(i <= zeros)
    <3>1. i - zeros \in 1 .. ones
      BY <2>1, <2>3
    <3> QED BY <1>5, <1>9, <2>1, <2>3, <3>1
  <2> QED BY <2>2, <2>3
<1>12. Agree(number, even, 1) /\ Agree(number, even + 1, 1)
  BY <1>1, <1>2, AgreeLowest
<1>13. \A a \in Number : Occurs(new, a) = OfLeaf(number, zeros, ones, a)
  <2> TAKE a \in Number
  <2>1. /\ Agree(number, a, 1) <=> number \div 2 = a \div 2
        /\ a = 2 * (a \div 2) + (a % 2) /\ a % 2 \in {0, 1}
    BY AgreeLowest
  <2>2. Side(a, 1) = "zero" <=> a % 2 = 0
    BY AgreeLowest, Sides, RadixTreeAssumption
  <2>3. Agree(number, a, 1) => a = even \/ a = even + 1
    <3>1. number \div 2 = a \div 2 => a = even + (a % 2)
      BY <2>1 DEF even
    <3> QED BY <1>1, <2>1, <3>1
  <2>4. a = even \/ a = even + 1 => Agree(number, a, 1)
    BY <1>12
  <2>5. Occurs(new, a) = (IF a = even THEN zeros ELSE 0) + (IF a = even + 1 THEN ones ELSE 0)
    BY <1>8
  <2>6. even # even + 1
    BY <1>1
  <2>7. CASE a = even
    BY <1>2, <2>2, <2>4, <2>5, <2>6, <2>7 DEF OfLeaf
  <2>8. CASE a = even + 1
    BY <1>2, <2>2, <2>4, <2>5, <2>6, <2>8 DEF OfLeaf
  <2>9. CASE a # even /\ a # even + 1
    BY <2>3, <2>5, <2>9 DEF OfLeaf
  <2> QED BY <2>7, <2>8, <2>9
<1>14. \A i, j \in DOMAIN new : i <= j => new[i] <= new[j]
  <2> TAKE i, j \in DOMAIN new
  <2>1. i \in Nat /\ j \in Nat
    BY <1>10
  <2>2. /\ new[i] = IF i <= zeros THEN even ELSE even + 1
        /\ new[j] = IF j <= zeros THEN even ELSE even + 1
    BY <1>11
  <2> QED BY <1>1, <2>1, <2>2
<1>15. \A i \in DOMAIN new : Agree(number, new[i], 1)
  BY <1>11, <1>12
<1> QED BY <1>9, <1>11, <1>13, <1>14, <1>15 DEF new, x, y, even

\* What a call does from its arguments, when the calls for the subtrees do what low does.
TakenBy(end, low, bit_pos, s, p) ==
  LET u == s.t
      nptr == PointerAt(u, p)
      n == u.node[nptr]
      room == end - Len(s.buffer)
      zeros == AtMost(n.zero, room)
      ones == AtMost(n.one, room - zeros)
      counted == [u EXCEPT !.node[nptr] = [n EXCEPT !.zero = n.zero - zeros,
                                                    !.one = n.one - ones]]
      first == low[s][Child(nptr, "zero")]
      both == low[first][Child(nptr, "one")]
  IN  CASE bit_pos = 0 \/ room <= 0 \/ nptr = NULL -> s
        [] bit_pos # 0 /\ room > 0 /\ nptr # NULL /\ n.bit_pos = 1 ->
             [t |-> Pruned(counted, p),
              buffer |-> s.buffer \o [i \in 1 .. zeros |-> 2 * (n.number \div 2)]
                                  \o [i \in 1 .. ones |-> 2 * (n.number \div 2) + 1]]
        [] bit_pos # 0 /\ room > 0 /\ nptr # NULL /\ n.bit_pos > 1 ->
             [both EXCEPT !.t = Pruned(@, p)]

TakenAll(end, f) ==
  [bit_pos \in Levels |-> [s \in Takings |-> [p \in Pointers |->
     TakenBy(end, f[bit_pos \div 2], bit_pos, s, p)]]]

\* The calls are defined.
LEMMA TakeDefined ==
  ASSUME NEW end
  PROVE  take_numbers_2(end) = TakenAll(end, take_numbers_2(end))
<1> DEFINE Upto(k, f) ==
             /\ f = [bit_pos \in Levels |-> f[bit_pos]]
             /\ \A bit_pos \in Levels :
                  bit_pos < k => f[bit_pos] = TakenAll(end, f)[bit_pos]
           S == {k \in Nat : \E f : Upto(k, f)}
<1>1. Levels \subseteq Nat /\ MAX_BITS \in Nat /\ \A bit_pos \in Levels : bit_pos <= MAX_BITS
  BY HighestLevel, LevelBelow, RadixTreeAssumption DEF Levels
<1>2. 0 \in S
  <2>1. Upto(0, [bit_pos \in Levels |-> 0])
    BY <1>1
  <2> QED BY <2>1
<1>3. ASSUME NEW k \in S PROVE k + 1 \in S
  <2>1. PICK f : Upto(k, f)
    BY <1>3
  <2> DEFINE g == [bit_pos \in Levels |-> IF bit_pos = k THEN TakenAll(end, f)[k]
                                          ELSE f[bit_pos]]
  <2>2. \A bit_pos \in Levels : bit_pos # k => g[bit_pos] = f[bit_pos]
    OBVIOUS
  <2>3. k \in Levels => g[k] = TakenAll(end, f)[k]
    OBVIOUS
  <2>4. ASSUME NEW bit_pos \in Levels, bit_pos <= k
        PROVE  TakenAll(end, g)[bit_pos] = TakenAll(end, f)[bit_pos]
    <3> DEFINE To(e) == [s \in Takings |-> [p \in Pointers |->
                           TakenBy(end, e[bit_pos \div 2], bit_pos, s, p)]]
    <3>1. To(g) = To(f)
      <4>1. CASE bit_pos = 0
        <5>1. \A low, s, p : TakenBy(end, low, bit_pos, s, p) = s
          BY <4>1 DEF TakenBy
        <5> QED BY <5>1
      <4>2. CASE bit_pos # 0
        <5>1. bit_pos \div 2 \in Levels /\ bit_pos \div 2 < bit_pos
          BY <4>2, LevelBelow
        <5>2. bit_pos \div 2 # k
          BY <1>1, <2>4, <5>1
        <5> HIDE DEF g
        <5>3. g[bit_pos \div 2] = f[bit_pos \div 2]
          BY <2>2, <5>1, <5>2
        <5> QED BY <5>3
      <4> QED BY <4>1, <4>2
    <3>2. \A e : TakenAll(end, e)[bit_pos] = To(e)
      BY DEF TakenAll
    <3> HIDE DEF To, g
    <3> QED BY <3>1, <3>2
  <2>5. \A bit_pos \in Levels : bit_pos < k + 1 => bit_pos < k \/ bit_pos = k
    BY <1>1, <1>3
  <2>6. \A bit_pos \in Levels : bit_pos < k => bit_pos <= k /\ bit_pos # k
    BY <1>1, <1>3
  <2>7. k \in Nat /\ k <= k
    BY <1>3
  <2>8. g = [bit_pos \in Levels |-> g[bit_pos]]
    OBVIOUS
  <2> HIDE DEF g
  <2>9. \A bit_pos \in Levels : bit_pos < k + 1 => g[bit_pos] = TakenAll(end, g)[bit_pos]
    BY <2>1, <2>2, <2>3, <2>4, <2>5, <2>6, <2>7
  <2>10. Upto(k + 1, g)
    BY <2>8, <2>9
  <2> HIDE DEF Upto
  <2> QED BY <2>7, <2>10
<1>4. S = Nat
  <2> HIDE DEF S
  <2>1. S \subseteq Nat
    BY DEF S
  <2> QED BY <1>2, <1>3, <2>1, Induction
<1>5. PICK f : Upto(MAX_BITS + 1, f)
  <2>1. MAX_BITS + 1 \in S
    <3> HIDE DEF S
    <3> QED BY <1>1, <1>4
  <2> HIDE DEF Upto
  <2> QED BY <2>1
<1>6. f = TakenAll(end, f)
  <2>1. \A bit_pos \in Levels : bit_pos < MAX_BITS + 1
    BY <1>1
  <2>2. f = [bit_pos \in Levels |-> TakenAll(end, f)[bit_pos]]
    BY <1>5, <2>1
  <2>3. TakenAll(end, f) = [bit_pos \in Levels |-> TakenAll(end, f)[bit_pos]]
    BY DEF TakenAll
  <2> QED BY <2>2, <2>3
<1> QED BY Zenon, <1>6 DEF take_numbers_2, TakenAll, TakenBy

\* A call may be made at a pointer for the bits up to bit_pos: its node is the global's
\* or the last of the path, whose nodes all branch on higher bits than the subtree.
Ready(u, nodes, path, p, bit_pos) ==
  /\ Grown(u, nodes, path) /\ path \subseteq nodes
  /\ p \in PointersOf(u, nodes) /\ (p = Global \/ p.node \in path)
  /\ PointerAt(u, p) # NULL =>
       /\ u.node[PointerAt(u, p)].bit_pos <= bit_pos
       /\ \A nptr \in path : u.node[PointerAt(u, p)].bit_pos < u.node[nptr].bit_pos

\* The numbers that the call takes, when it leaves r: they come after those in the buffer,
\* in ascending order, and are the smallest of the subtree, as many as there is room for.
Took(end, s, r, nodes, kept, p, new) ==
  /\ r.buffer = s.buffer \o new
  /\ \A a \in Number : Count(s.t, nodes, a) = Count(r.t, kept, a) + Occurs(new, a)
  /\ \A i \in DOMAIN new : Leads(s.t, p, new[i])
  /\ \A i, j \in DOMAIN new : i <= j => new[i] <= new[j]
  /\ \A a \in Number : Leads(s.t, p, a) /\ Count(r.t, kept, a) # 0 =>
       Len(r.buffer) = end /\ \A i \in DOMAIN new : new[i] <= a

\* What the call leaves of its arguments.
CallLeaves(end, s, r, nodes, path, p) ==
  /\ r \in Takings /\ Len(r.buffer) <= end
  /\ \E kept \in SUBSET NodeAddr :
       /\ LeavesOf(s.t, r.t, nodes, kept, path, p)
       /\ \E new \in Seq(Number) : Took(end, s, r, nodes, kept, p, new)

\* A call at no node, or without room, takes nothing.
LEMMA NothingTaken ==
  ASSUME NEW end \in Nat, NEW s \in Takings, Len(s.buffer) <= end, NEW nodes \in SUBSET NodeAddr,
         NEW path, NEW p, NEW k, Ready(s.t, nodes, path, p, k),
         k = 0 \/ end <= Len(s.buffer) \/ PointerAt(s.t, p) = NULL
  PROVE  CallLeaves(end, s, s, nodes, path, p)
<1> DEFINE u == s.t
<1>1. /\ Shape(u, nodes) /\ Parted(u, nodes) /\ p \in PointersOf(u, nodes)
      /\ s.buffer \in Seq(Number) /\ Len(s.buffer) \in Nat
  BY DEF Ready, Grown, Takings
<1>2. LeavesOf(u, u, nodes, nodes, path, p)
  BY DEF LeavesOf, Ready, SameBits
<1>3. PointerAt(u, p) = NULL \/ Len(s.buffer) = end
  <2>1. CASE k = 0
    <3> SUFFICES ASSUME PointerAt(u, p) # NULL PROVE FALSE
      OBVIOUS
    <3>1. PointerAt(u, p) \in nodes
      BY <1>1, BelowPointers
    <3>2. u.node[PointerAt(u, p)].bit_pos \in Nat \ {0}
      BY <1>1, <3>1, NodeParts
    <3>3. u.node[PointerAt(u, p)].bit_pos <= 0
      BY <2>1 DEF Ready
    <3> QED BY <3>2, <3>3
  <2>2. CASE end <= Len(s.buffer)
    BY <1>1, <2>2
  <2> QED BY <2>1, <2>2
<1>4. <<>> \in Seq(Number) /\ <<>> \in Seq(Nat) /\ Len(<<>>) = 0 /\ DOMAIN <<>> = {}
  OBVIOUS
<1>5. ASSUME NEW a \in Number PROVE Count(u, nodes, a) = Count(u, nodes, a) + Occurs(<<>>, a)
  <2>1. Occurs(<<>>, a) = 0
    <3> DEFINE none == <<>>
    <3>1. none \in Seq(Nat) /\ \A i \in 1 .. Len(none) : none[i] # a
      BY <1>4
    <3> HIDE DEF none
    <3>2. Occurs(none, a) = 0
      BY <3>1, OccursRepeated
    <3> QED BY <3>2 DEF none
  <2>2. Count(u, nodes, a) \in Nat
    BY <1>1, CountOfLeaf
  <2> QED BY <2>1, <2>2
<1>6. ASSUME NEW a \in Number, Leads(u, p, a), Count(u, nodes, a) # 0 PROVE Len(s.buffer) = end
  BY <1>1, <1>3, <1>6, CountedUnder
<1>7. s.buffer = s.buffer \o <<>>
  BY <1>1, ConcatEmptySeq
<1>8. Took(end, s, s, nodes, nodes, p, <<>>)
  BY <1>4, <1>5, <1>6, <1>7 DEF Took
<1> QED BY <1>2, <1>4, <1>8 DEF CallLeaves

\* The leaf at p without so many of its even and of its odd numbers.
Counted(u, p, zeros, ones) ==
  LET nptr == PointerAt(u, p)
      n == u.node[nptr]
  IN  [u EXCEPT !.node[nptr] = [n EXCEPT !.zero = n.zero - zeros, !.one = n.one - ones]]

\* What the tree r with the nodes kept has less than u.
LeafLost(u, nodes, p, zeros, ones, r, kept) ==
  \A a \in Number :
    /\ Count(r, kept, a) \in Nat
    /\ Count(u, nodes, a) = Count(r, kept, a)
                              + OfLeaf(u.node[PointerAt(u, p)].number, zeros, ones, a)

\* A call at a leaf takes as many of its numbers as there is room for.
LEMMA LeafTaken ==
  ASSUME NEW u, NEW nodes, NEW path, NEW p, NEW bit_pos, Ready(u, nodes, path, p, bit_pos),
         PointerAt(u, p) # NULL, u.node[PointerAt(u, p)].bit_pos = 1,
         NEW zeros \in Nat, NEW ones \in Nat,
         zeros <= u.node[PointerAt(u, p)].zero, ones <= u.node[PointerAt(u, p)].one
  PROVE  LET r == Pruned(Counted(u, p, zeros, ones), p)
         IN  \E kept : /\ LeavesOf(u, r, nodes, kept, path, p)
                       /\ LeafLost(u, nodes, p, zeros, ones, r, kept)
<1> DEFINE nptr == PointerAt(u, p)
           n == u.node[nptr]
           contents == [n EXCEPT !.zero = n.zero - zeros, !.one = n.one - ones]
           f == [u.node EXCEPT ![nptr] = contents]
           counted == [u EXCEPT !.node[nptr] = contents]
<1>1. /\ Shape(u, nodes) /\ HeapHas(u.heap, nodes) /\ Full(u, nodes, path) /\ Parted(u, nodes)
      /\ u \in Trees /\ nodes \subseteq NodeAddr /\ path \subseteq nodes
      /\ p \in PointersOf(u, nodes) /\ (p = Global \/ p.node \in path)
      /\ \A a \in path : n.bit_pos < u.node[a].bit_pos
  BY DEF Ready, Grown, Shape
<1>2. nptr \in nodes /\ nptr \in NodeAddr /\ n \in Node /\ n.bit_pos \in Nat
  BY <1>1, TreeParts, RadixTreeAssumption DEF Shape
<1>3. nptr \notin path
  BY <1>1, <1>2
<1>4. /\ contents \in Node /\ contents.bit_pos = n.bit_pos /\ contents.number = n.number
      /\ contents.zero = n.zero - zeros /\ contents.one = n.one - ones
      /\ n.zero \in Nat /\ n.one \in Nat
  <2>1. n.zero - zeros \in Nat /\ n.one - ones \in Nat
    BY <1>2 DEF Node
  <2>2. n.zero \in Nat /\ n.one \in Nat
    BY <1>2 DEF Node
  <2> HIDE DEF n
  <2> QED BY <1>2, <2>1, <2>2 DEF Node
<1> HIDE DEF contents
<1>5. /\ f \in [NodeAddr -> Node] /\ f[nptr] = contents
      /\ \A m \in NodeAddr : m # nptr => f[m] = u.node[m]
  BY <1>1, <1>2, <1>4, TreeParts
<1>6. counted = [heap |-> u.heap, node |-> f, tree |-> u.tree]
  BY <1>1, TreeParts
<1> HIDE DEF f
<1>7. counted \in Trees /\ counted.heap = u.heap /\ counted.tree = u.tree /\ counted.node = f
  BY <1>1, <1>5, <1>6, TreeParts
<1> HIDE DEF counted
<1>8. SameBits(u, counted)
  BY <1>4, <1>5, <1>7 DEF SameBits
<1>9. Shape(counted, nodes) /\ Parted(counted, nodes)
  BY <1>1, <1>5, <1>7, <1>8, Recounted
<1>10. ASSUME NEW a \in Number
       PROVE  Count(u, nodes, a) = Count(counted, nodes, a) + OfLeaf(n.number, zeros, ones, a)
  <2>1. LeavesOfNumber(counted, nodes, a) = LeavesOfNumber(u, nodes, a)
    BY <1>1, <1>8, SameLeads
  <2>2. Side(a, 1) \in {"zero", "one"}
    BY DEF Side
  <2>3. CASE Agree(n.number, a, 1)
    <3>1. nptr \in LeavesOfNumber(u, nodes, a)
      BY <1>2, <2>3 DEF LeavesOfNumber, Interior
    <3>2. Count(u, nodes, a) = n[Side(a, 1)]
      BY <1>1, <3>1, CountOfLeaf
    <3>3. Count(counted, nodes, a) = contents[Side(a, 1)]
      <4>1. Count(counted, nodes, a) = counted.node[nptr][Side(a, 1)]
        <5> HIDE DEF nptr
        <5> QED BY <1>9, <2>1, <3>1, CountOfLeaf
      <4> QED BY <1>5, <1>7, <4>1
    <3> HIDE DEF n
    <3> QED BY <1>4, <2>2, <2>3, <3>2, <3>3 DEF OfLeaf
  <2>4. CASE ~Agree(n.number, a, 1)
    <3>1. nptr \notin LeavesOfNumber(u, nodes, a)
      BY <2>4 DEF LeavesOfNumber
    <3>2. \A l \in LeavesOfNumber(u, nodes, a) : counted.node[l] = u.node[l]
      <4> TAKE l \in LeavesOfNumber(u, nodes, a)
      <4>1. l \in NodeAddr /\ l # nptr
        BY <1>1, <3>1 DEF LeavesOfNumber
      <4> QED BY <1>5, <1>7, <4>1
    <3>3. Count(counted, nodes, a) = Count(u, nodes, a)
      BY <1>1, <1>9, <2>1, <3>2, CountsAlike
    <3>4. Count(u, nodes, a) \in Nat
      BY <1>1, CountOfLeaf
    <3> QED BY <2>4, <3>3, <3>4 DEF OfLeaf
  <2> QED BY <2>3, <2>4
<1>11. \A q \in PointersOf(u, nodes) : PointerAt(counted, q) = PointerAt(u, q)
                                       /\ q \in PointersOf(counted, nodes)
  <2> TAKE q \in PointersOf(u, nodes)
  <2>1. q # Global => q.node \in nodes /\ Interior(u, q.node)
    BY MemberOf
  <2>2. q # Global => q.node # nptr
    BY <2>1 DEF Interior
  <2>3. PointerAt(counted, q) = PointerAt(u, q)
    BY <1>1, <1>5, <1>7, <2>1, <2>2 DEF PointerAt
  <2>4. q \in PointersOf(counted, nodes)
    BY <1>1, <1>8, <2>1, PointersStay
  <2> QED BY <2>3, <2>4
<1>12. Grown(counted, nodes, path \cup {nptr})
  <2>1. Full(counted, nodes, path \cup {nptr})
    BY <1>1, <1>5, <1>7 DEF Full
  <2> QED BY <1>1, <1>7, <1>9, <2>1 DEF Grown
<1>13. PICK kept : /\ LeavesOf(counted, Pruned(counted, p), nodes, kept, path, p)
                   /\ SameCounts(counted, nodes, Pruned(counted, p), kept)
  <2> HIDE DEF nptr
  <2>1. PointerAt(counted, p) = nptr /\ p \in PointersOf(counted, nodes)
    BY <1>1, <1>11 DEF nptr
  <2>2. path \in SUBSET nodes /\ nptr # NULL
    BY <1>1 DEF nptr
  <2> QED BY <1>1, <1>3, <1>12, <2>1, <2>2, PrunedLeaves
<1>14. LeavesOf(u, Pruned(counted, p), nodes, kept, path, p)
  BY <1>1, <1>8, <1>11, <1>13 DEF LeavesOf, SameBits
<1>15. LeafLost(u, nodes, p, zeros, ones, Pruned(counted, p), kept)
  <2>1. \A a \in Number : Count(Pruned(counted, p), kept, a) \in Nat
    <3>1. Shape(Pruned(counted, p), kept) /\ Parted(Pruned(counted, p), kept)
      BY <1>13 DEF LeavesOf, Grown
    <3> QED BY <3>1, CountOfLeaf
  <2> QED BY <1>13, <1>10, <2>1 DEF SameCounts, LeafLost
<1>16. counted = Counted(u, p, zeros, ones)
  BY DEF counted, contents, Counted
<1> QED BY <1>14, <1>15, <1>16

\* What calls for the bits up to bit_pos do, at every pointer at which one may be made.
Calls(end, low, bit_pos) ==
  \A s \in Takings, p \in Pointers, nodes, path \in SUBSET NodeAddr :
    Ready(s.t, nodes, path, p, bit_pos) /\ Len(s.buffer) <= end =>
      CallLeaves(end, s, low[s][p], nodes, path, p)

\* A call may be made at the members of the node that the path ends with.
LEMMA ChildReady ==
  ASSUME NEW u, NEW nodes, NEW path \in SUBSET nodes, Grown(u, nodes, path),
         NEW nptr \in path, Interior(u, nptr), NEW k \in Levels, u.node[nptr].bit_pos <= k,
         \A a \in path : u.node[nptr].bit_pos <= u.node[a].bit_pos,
         NEW side \in {"zero", "one"}
  PROVE  Ready(u, nodes, path, Child(nptr, side), k \div 2)
<1> DEFINE p == Child(nptr, side)
           below == PointerAt(u, p)
<1>1. p \in PointersOf(u, nodes) /\ p.node = nptr /\ p # Global
  BY PointerForms, Members
<1> HIDE DEF p
<1>2. ASSUME below # NULL
      PROVE  /\ u.node[below].bit_pos <= k \div 2
             /\ \A a \in path : u.node[below].bit_pos < u.node[a].bit_pos
  <2>1. /\ below \in nodes /\ u.node[below].bit_pos < u.node[nptr].bit_pos
        /\ nodes \subseteq NodeAddr /\ u \in Trees
    BY <1>1, <1>2 DEF Grown, Shape
  <2>2. \A a \in nodes : u.node[a].bit_pos \in BitPositions /\ u.node[a].bit_pos \in Nat
    BY <2>1, TreeParts, RadixTreeAssumption
  <2>3. k \in Nat
    BY LevelBelow
  <2> HIDE DEF below
  <2>4. u.node[below].bit_pos < k
    BY <2>1, <2>2, <2>3
  <2>5. u.node[below].bit_pos <= k \div 2
    BY <2>1, <2>2, <2>4, LevelBelow
  <2>6. \A a \in path : u.node[below].bit_pos < u.node[a].bit_pos
    BY <2>1, <2>2
  <2> QED BY <2>5, <2>6
<1>3. Ready(u, nodes, path, p, k \div 2)
  BY <1>1, <1>2 DEF Ready
<1> QED BY <1>3 DEF p

\* What the calls for the members of an interior node take, the numbers at its zero
\* before those at its one, is what a call at the node takes.
LEMMA BothTaken ==
  ASSUME NEW u, NEW nodes, Shape(u, nodes), Parted(u, nodes), NEW p \in PointersOf(u, nodes),
         NEW nptr, nptr = PointerAt(u, p), nptr # NULL, Interior(u, nptr),
         NEW end \in Nat, NEW s \in Takings, s.t = u, NEW first \in Takings,
         SameBits(u, first.t), NEW both \in Takings, Len(both.buffer) <= end,
         NEW kept1, NEW new1 \in Seq(Number),
         Took(end, s, first, nodes, kept1, Child(nptr, "zero"), new1),
         NEW kept2, NEW new2 \in Seq(Number),
         Took(end, first, both, kept1, kept2, Child(nptr, "one"), new2),
         Shape(both.t, kept2), Parted(both.t, kept2),
         NEW r, r.buffer = both.buffer, NEW kept, SameCounts(both.t, kept2, r.t, kept)
  PROVE  Took(end, s, r, nodes, kept, p, new1 \o new2)
<1> DEFINE n == u.node[nptr]
           zero == Child(nptr, "zero")
           one == Child(nptr, "one")
           m == Len(new1)
           new == new1 \o new2
<1>1. /\ nptr \in nodes /\ nodes \in SUBSET NodeAddr /\ n.bit_pos \in BitPositions
      /\ n.number \in Number /\ Leads(u, p, n.number) /\ Below(u, p, n.bit_pos)
  <2>1. nptr \in nodes /\ Below(u, p, n.bit_pos)
    BY BelowPointers
  <2>2. n.bit_pos \in BitPositions /\ n.number \in Number /\ nodes \in SUBSET NodeAddr
    BY <2>1, NodeParts DEF Shape
  <2>3. Leads(u, p, n.number)
    BY DEF Parted
  <2> QED BY <2>1, <2>2, <2>3
<1>2. /\ zero \in PointersOf(u, nodes) /\ zero # Global /\ zero.node = nptr /\ zero.side = "zero"
      /\ one \in PointersOf(u, nodes) /\ one # Global /\ one.node = nptr /\ one.side = "one"
  <2>1. ASSUME NEW side \in {"zero", "one"}
        PROVE  /\ Child(nptr, side) \in PointersOf(u, nodes) /\ Child(nptr, side) # Global
               /\ Child(nptr, side).node = nptr /\ Child(nptr, side).side = side
    <3> DEFINE q == Child(nptr, side)
    <3>1. q # Global /\ q.node = nptr /\ q.side = side
      BY Members
    <3>2. Interior(u, nptr) /\ q = Child(nptr, side)
      OBVIOUS
    <3> HIDE DEF q
    <3>3. q \in PointersOf(u, nodes)
      BY ONLY <1>1, <3>2, side \in {"zero", "one"}, PointerForms
    <3> QED BY <3>1, <3>3 DEF q
  <2> QED BY <2>1
<1> HIDE DEF zero, one
<1>3. \A a : /\ Leads(u, zero, a) <=> Agree(a, n.number, n.bit_pos) /\ Side(a, n.bit_pos) = "zero"
             /\ Leads(u, one, a) <=> Agree(a, n.number, n.bit_pos) /\ Side(a, n.bit_pos) = "one"
  BY <1>2 DEF Leads
<1>4. \A a : Leads(first.t, one, a) <=> Leads(u, one, a)
  BY <1>1, <1>2, SameLeads
<1> HIDE DEF n
<1>5. \A a \in Number : Leads(u, zero, a) \/ Leads(u, one, a) => Leads(u, p, a)
  <2> SUFFICES ASSUME NEW a \in Number, Leads(u, zero, a) \/ Leads(u, one, a)
               PROVE  Leads(u, p, a)
    OBVIOUS
  <2>1. Agree(n.number, a, n.bit_pos)
    BY ONLY <1>3, Leads(u, zero, a) \/ Leads(u, one, a) DEF Agree
  <2>2. Leads(u, p, n.number) /\ Below(u, p, n.bit_pos) /\ n.number \in Number
    BY <1>1
  <2> QED BY <1>1, <2>1, <2>2, LeadsAlike
<1>6. \A a, c \in Number : Leads(u, zero, a) /\ Leads(u, one, c) => a < c
  <2> SUFFICES ASSUME NEW a \in Number, NEW c \in Number, Leads(u, zero, a), Leads(u, one, c)
               PROVE  a < c
    OBVIOUS
  <2>1. Agree(a, n.number, n.bit_pos) /\ Side(a, n.bit_pos) = "zero"
    BY ONLY <1>3, Leads(u, zero, a)
  <2>2. Agree(c, n.number, n.bit_pos) /\ Side(c, n.bit_pos) = "one"
    BY ONLY <1>3, Leads(u, one, c)
  <2>3. BitOf(a, n.bit_pos) = 0
    BY ONLY <1>1, <2>1, a \in Number, Sides
  <2>4. BitOf(c, n.bit_pos) # 0
    BY ONLY <1>1, <2>2, c \in Number, Sides
  <2>5. Agree(a, c, n.bit_pos)
    BY ONLY <2>1, <2>2 DEF Agree
  <2> QED BY ONLY <1>1, <2>3, <2>4, <2>5, a \in Number, c \in Number, AgreeOrder
<1>7. /\ first.buffer = s.buffer \o new1 /\ both.buffer = first.buffer \o new2
      /\ \A a \in Number : Count(u, nodes, a) = Count(first.t, kept1, a) + Occurs(new1, a)
      /\ \A a \in Number : Count(first.t, kept1, a) = Count(both.t, kept2, a) + Occurs(new2, a)
      /\ \A a \in Number : Count(r.t, kept, a) = Count(both.t, kept2, a)
  BY DEF Took, SameCounts, zero, one
<1>8. /\ \A i \in DOMAIN new1 : Leads(u, zero, new1[i])
      /\ \A i, j \in DOMAIN new1 : i <= j => new1[i] <= new1[j]
      /\ \A a \in Number : Leads(u, zero, a) /\ Count(first.t, kept1, a) # 0 =>
           Len(first.buffer) = end /\ \A i \in DOMAIN new1 : new1[i] <= a
  BY DEF Took, zero
<1>9. /\ \A i \in DOMAIN new2 : Leads(u, one, new2[i])
      /\ \A i, j \in DOMAIN new2 : i <= j => new2[i] <= new2[j]
      /\ \A a \in Number : Leads(u, one, a) /\ Count(both.t, kept2, a) # 0 =>
           Len(both.buffer) = end /\ \A i \in DOMAIN new2 : new2[i] <= a
  BY <1>4 DEF Took, one
<1>10. /\ Number \subseteq Nat /\ new1 \in Seq(Nat) /\ new2 \in Seq(Nat)
  <2>1. Number \subseteq Nat
    BY NumbersAgree
  <2> QED BY ONLY <2>1, new1 \in Seq(Number), new2 \in Seq(Number), SeqMonotonic
<1>11. \A a \in Number : /\ Occurs(new1, a) \in Nat /\ Occurs(new2, a) \in Nat
                         /\ Occurs(new, a) = Occurs(new1, a) + Occurs(new2, a)
                         /\ Count(both.t, kept2, a) \in Nat
  BY <1>10, OccursInBoth, CountOfLeaf
<1>12. /\ m \in Nat /\ DOMAIN new1 = 1 .. m /\ Len(new2) \in Nat /\ DOMAIN new2 = 1 .. Len(new2)
       /\ new \in Seq(Number) /\ Len(new) = m + Len(new2)
       /\ \A i \in 1 .. m + Len(new2) : new[i] = IF i <= m THEN new1[i] ELSE new2[i - m]
  BY ConcatProperties
<1> HIDE DEF m
<1>13. DOMAIN new = 1 .. m + Len(new2)
  BY <1>12
<1> HIDE DEF new
<1>14. \A i \in DOMAIN new : \/ i \in DOMAIN new1 /\ i <= m /\ new[i] = new1[i]
                             \/ i - m \in DOMAIN new2 /\ ~(i <= m) /\ new[i] = new2[i - m]
  <2> TAKE i \in DOMAIN new
  <2>1. i \in 1 .. m + Len(new2) /\ i \in Nat
    BY <1>12, <1>13
  <2>2. CASE i <= m
    BY <1>12, <2>1, <2>2
  <2>3. CASE ~(i <= m)
    BY <1>12, <2>1, <2>3
  <2> QED BY <2>2, <2>3
<1>15. /\ \A i \in DOMAIN new1 : new1[i] \in Number
       /\ \A i \in DOMAIN new2 : new2[i] \in Number
  BY <1>12
<1>16. r.buffer = s.buffer \o new
  <2>1. s.buffer \in Seq(Number) /\ new1 \in Seq(Number) /\ new2 \in Seq(Number)
    BY DEF Takings
  <2>2. (s.buffer \o new1) \o new2 = s.buffer \o (new1 \o new2)
    <3>1. \A x, y, z \in Seq(Number) : (x \o y) \o z = x \o (y \o z)
      <4> TAKE x, y, z \in Seq(Number)
      <4>1. x \in Seq(Number) /\ y \in Seq(Number) /\ z \in Seq(Number)
        OBVIOUS
      <4> QED BY ONLY <4>1, ConcatAssociative
    <3> QED BY ONLY <2>1, <3>1
  <2>3. r.buffer = both.buffer
    OBVIOUS
  <2> QED BY ONLY <1>7, <2>2, <2>3 DEF new
<1>17. \A a \in Number : Count(u, nodes, a) = Count(r.t, kept, a) + Occurs(new, a)
  BY <1>7, <1>11
<1>18. \A i \in DOMAIN new : Leads(u, p, new[i])
  BY <1>5, <1>8, <1>9, <1>14, <1>15
<1>19. ASSUME NEW i \in DOMAIN new, NEW j \in DOMAIN new, i <= j PROVE new[i] <= new[j]
  <2>1. i \in Nat /\ j \in Nat
    BY <1>12, <1>13
  <2>2. CASE i <= m /\ j <= m
    BY <1>8, <1>14, <1>19, <2>2
  <2>3. CASE ~(i <= m) /\ ~(j <= m)
    <3>1. /\ i - m \in DOMAIN new2 /\ j - m \in DOMAIN new2 /\ i - m <= j - m
          /\ new[i] = new2[i - m] /\ new[j] = new2[j - m]
      BY <1>12, <1>14, <1>19, <2>1, <2>3
    <3> QED BY <1>9, <3>1
  <2>4. CASE i <= m /\ ~(j <= m)
    <3>1. /\ i \in DOMAIN new1 /\ j - m \in DOMAIN new2
          /\ new[i] = new1[i] /\ new[j] = new2[j - m]
      BY <1>14, <2>4
    <3>2. new1[i] < new2[j - m] /\ new1[i] \in Nat /\ new2[j - m] \in Nat
      BY <1>6, <1>8, <1>9, <1>10, <1>15, <3>1
    <3> QED BY <3>1, <3>2
  <2>5. CASE ~(i <= m) /\ j <= m
    BY <1>12, <1>19, <2>1, <2>5
  <2> QED BY <2>2, <2>3, <2>4, <2>5
<1>20. ASSUME NEW a \in Number, Leads(u, p, a), Count(r.t, kept, a) # 0
       PROVE  Len(r.buffer) = end /\ \A i \in DOMAIN new : new[i] <= a
  <2>1. /\ Count(both.t, kept2, a) # 0 /\ Count(first.t, kept1, a) # 0
        /\ Count(u, nodes, a) # 0 /\ a \in Nat
    BY <1>7, <1>10, <1>11, <1>20
  <2>2. Agree(a, n.number, n.bit_pos)
    BY <1>20, <2>1, CountedUnder DEF n
  <2>3. Leads(u, zero, a) \/ Leads(u, one, a)
    BY ONLY <1>1, <1>3, <2>2, a \in Number, Sides
  <2>4. Len(both.buffer) = Len(first.buffer) + Len(new2) /\ Len(first.buffer) \in Nat
    <3>1. first.buffer \in Seq(Number)
      BY DEF Takings
    <3> QED BY <1>7, <3>1, ConcatProperties
  <2>5. CASE Leads(u, zero, a)
    <3>1. Len(first.buffer) = end /\ \A i \in DOMAIN new1 : new1[i] <= a
      BY <1>8, <2>1, <2>5
    <3>2. Len(new2) = 0 /\ Len(both.buffer) = end
      BY <1>12, <2>4, <3>1
    <3>3. DOMAIN new2 = {}
      BY <1>12, <3>2
    <3> QED BY <1>14, <3>1, <3>2, <3>3
  <2>6. CASE Leads(u, one, a)
    <3>1. Len(both.buffer) = end /\ \A i \in DOMAIN new2 : new2[i] <= a
      BY <1>9, <2>1, <2>6
    <3>2. ASSUME NEW i \in DOMAIN new1 PROVE new1[i] <= a
      <4>1. new1[i] < a /\ new1[i] \in Nat
        BY <1>6, <1>8, <1>10, <1>15, <2>6
      <4> QED BY <2>1, <4>1
    <3> QED BY <1>14, <3>1, <3>2
  <2> QED BY <2>3, <2>5, <2>6
<1>21. Took(end, s, r, nodes, kept, p, new)
  BY Zenon, <1>16, <1>17, <1>18, <1>19, <1>20 DEF Took
<1> QED BY <1>21 DEF new

\* A call at an interior node makes the calls for its members, and prunes.
LEMMA InteriorTaken ==
  ASSUME NEW end \in Nat, NEW low, NEW k \in Levels, Calls(end, low, k \div 2),
         NEW s \in Takings, Len(s.buffer) <= end, NEW nodes \in SUBSET NodeAddr,
         NEW path \in SUBSET NodeAddr, NEW p \in Pointers, Ready(s.t, nodes, path, p, k),
         PointerAt(s.t, p) # NULL, Interior(s.t, PointerAt(s.t, p))
  PROVE  LET nptr == PointerAt(s.t, p)
             first == low[s][Child(nptr, "zero")]
             both == low[first][Child(nptr, "one")]
         IN  CallLeaves(end, s, [both EXCEPT !.t = Pruned(@, p)], nodes, path, p)
<1> DEFINE u == s.t
           nptr == PointerAt(u, p)
           zero == Child(nptr, "zero")
           one == Child(nptr, "one")
           first == low[s][zero]
           both == low[first][one]
           more == path \cup {nptr}
           r == Pruned(both.t, p)
<1>1. /\ Shape(u, nodes) /\ Parted(u, nodes) /\ Grown(u, nodes, path)
      /\ u \in Trees /\ path \subseteq nodes
      /\ p \in PointersOf(u, nodes) /\ (p = Global \/ p.node \in path)
      /\ nptr # NULL /\ Interior(u, nptr) /\ u.node[nptr].bit_pos <= k
      /\ \A a \in path : u.node[nptr].bit_pos < u.node[a].bit_pos
  BY DEF Ready, Grown, Shape
<1>2. nptr \in nodes /\ nptr \in NodeAddr
  BY <1>1 DEF Shape
<1>3. \A a \in nodes : u.node[a].bit_pos \in Nat /\ a \in NodeAddr
  BY <1>1, TreeParts, RadixTreeAssumption
<1>4. nptr \notin path /\ more \in SUBSET nodes /\ more \in SUBSET NodeAddr /\ nptr \in more
  BY <1>1, <1>2, <1>3
<1>5. \A a \in more : u.node[nptr].bit_pos <= u.node[a].bit_pos
  BY <1>1, <1>2, <1>3
<1>6. Grown(u, nodes, more)
  BY <1>1 DEF Grown, Full
<1>7. /\ zero \in Pointers /\ one \in Pointers
      /\ \A q : q = Global \/ q.node \in path => q # zero /\ q # one
  BY <1>2, <1>4, PointerForms, Members
<1> HIDE DEF u, nptr
<1>8. CallLeaves(end, s, first, nodes, more, zero)
  <2>1. Ready(u, nodes, more, zero, k \div 2)
    BY <1>1, <1>4, <1>5, <1>6, ChildReady
  <2> HIDE DEF zero, more
  <2> QED BY <1>4, <1>7, <2>1 DEF Calls, u
<1>9. PICK kept1 \in SUBSET NodeAddr :
        /\ LeavesOf(u, first.t, nodes, kept1, more, zero)
        /\ \E new \in Seq(Number) : Took(end, s, first, nodes, kept1, zero, new)
  BY <1>8 DEF CallLeaves, u
<1>10. PICK new1 \in Seq(Number) : Took(end, s, first, nodes, kept1, zero, new1)
  BY <1>9
<1>11. first \in Takings /\ Len(first.buffer) <= end
  BY <1>8 DEF CallLeaves
<1> DEFINE v == first.t
<1>12. CallLeaves(end, first, both, kept1, more, one)
  <2>1. /\ Grown(v, kept1, more) /\ more \in SUBSET kept1 /\ SameBits(u, v)
    BY <1>9 DEF LeavesOf
  <2> HIDE DEF v
  <2>2. Interior(v, nptr) /\ v.node[nptr].bit_pos <= k
    BY <1>1, <1>2, <2>1 DEF SameBits, Interior
  <2>3. \A a \in more : v.node[nptr].bit_pos <= v.node[a].bit_pos
    BY <1>2, <1>4, <1>5, <2>1 DEF SameBits
  <2>4. Ready(v, kept1, more, one, k \div 2)
    BY <1>4, <2>1, <2>2, <2>3, ChildReady
  <2> HIDE DEF one, more, first
  <2> QED BY <1>4, <1>7, <1>11, <2>4 DEF Calls, v
<1>13. PICK kept2 \in SUBSET NodeAddr :
         /\ LeavesOf(v, both.t, kept1, kept2, more, one)
         /\ \E new \in Seq(Number) : Took(end, first, both, kept1, kept2, one, new)
  BY <1>12 DEF CallLeaves
<1>14. PICK new2 \in Seq(Number) : Took(end, first, both, kept1, kept2, one, new2)
  BY <1>13
<1>15. both \in Takings /\ Len(both.buffer) <= end
  BY <1>12 DEF CallLeaves
<1> DEFINE w == both.t
<1> HIDE DEF first, both, zero, one
<1>16. \A q \in PointersOf(u, nodes) : q = Global \/ q.node \in path =>
         /\ q \in PointersOf(w, kept2) /\ PointerAt(w, q) = PointerAt(u, q)
  <2> SUFFICES ASSUME NEW q \in PointersOf(u, nodes), q = Global \/ q.node \in path
               PROVE  q \in PointersOf(w, kept2) /\ PointerAt(w, q) = PointerAt(u, q)
    OBVIOUS
  <2>1. q # zero /\ q # one /\ (q = Global \/ q.node \in more)
    BY <1>7
  <2>2. SameBits(u, v) /\ more \subseteq kept1 /\ PointerAt(v, q) = PointerAt(u, q)
    BY <1>9, <2>1 DEF LeavesOf
  <2>3. q \in PointersOf(v, kept1)
    BY <2>1, <2>2, PointersStay
  <2>4. SameBits(v, w) /\ more \subseteq kept2 /\ PointerAt(w, q) = PointerAt(v, q)
    BY <1>13, <2>1, <2>3 DEF LeavesOf
  <2> HIDE DEF more, v, w
  <2>5. q \in PointersOf(w, kept2)
    BY <2>1, <2>3, <2>4, PointersStay
  <2> QED BY <2>2, <2>4, <2>5
<1>17. PICK kept3 : LeavesOf(w, r, kept2, kept3, path, p) /\ SameCounts(w, kept2, r, kept3)
  <2>1. Grown(w, kept2, path \cup {nptr}) /\ path \in SUBSET kept2
    BY <1>13 DEF LeavesOf
  <2>2. p \in PointersOf(w, kept2) /\ PointerAt(w, p) = nptr
    BY <1>1, <1>16 DEF nptr
  <2> HIDE DEF w
  <2>3. \E kept : /\ LeavesOf(w, Pruned(w, p), kept2, kept, path, p)
                  /\ SameCounts(w, kept2, Pruned(w, p), kept)
    BY <1>1, <1>4, <2>1, <2>2, PrunedLeaves
  <2> QED BY <2>3 DEF w
<1>18. LeavesOf(u, r, nodes, kept3, path, p)
  <2>1. /\ kept3 \subseteq nodes /\ path \subseteq kept3 /\ Grown(r, kept3, path)
        /\ SameBits(u, v) /\ SameBits(v, w) /\ SameBits(w, r)
    BY <1>9, <1>13, <1>17 DEF LeavesOf
  <2>2. SameBits(u, r)
    BY <2>1 DEF SameBits
  <2>3. PointerAt(r, p) \in {PointerAt(u, p), NULL}
    BY <1>1, <1>16, <1>17 DEF LeavesOf
  <2>4. ASSUME NEW q \in PointersOf(u, nodes), q # p, q = Global \/ q.node \in path
        PROVE  PointerAt(r, q) = PointerAt(u, q)
    BY <1>16, <1>17, <2>4 DEF LeavesOf
  <2> HIDE DEF r
  <2> QED BY <2>1, <2>2, <2>3, <2>4 DEF LeavesOf
<1>19. r \in Trees /\ kept3 \in SUBSET NodeAddr
  BY <1>18 DEF LeavesOf, Grown, Shape
<1> DEFINE res == [both EXCEPT !.t = Pruned(@, p)]
<1>20. res \in Takings /\ res.t = r /\ res.buffer = both.buffer
  BY <1>15, <1>19 DEF Takings
<1> HIDE DEF res, r
<1>21. Took(end, s, res, nodes, kept3, p, new1 \o new2) /\ new1 \o new2 \in Seq(Number)
  <2>1. Shape(w, kept2) /\ Parted(w, kept2) /\ SameBits(u, v)
    BY <1>9, <1>13 DEF LeavesOf, Grown
  <2>2. nptr = PointerAt(u, p) /\ s.t = u
    BY DEF nptr, u
  <2>3. /\ Took(end, s, first, nodes, kept1, Child(nptr, "zero"), new1)
        /\ Took(end, first, both, kept1, kept2, Child(nptr, "one"), new2)
    BY <1>10, <1>14 DEF zero, one
  <2>4. SameCounts(both.t, kept2, res.t, kept3)
    BY <1>17, <1>20
  <2>5. new1 \o new2 \in Seq(Number)
    BY ConcatProperties
  <2> QED BY ONLY <1>1, <1>11, <1>15, <1>20, <2>1, <2>2, <2>3, <2>4, <2>5, end \in Nat,
                  s \in Takings, new1 \in Seq(Number), new2 \in Seq(Number), BothTaken
<1>22. CallLeaves(end, s, res, nodes, path, p)
  BY <1>15, <1>18, <1>19, <1>20, <1>21 DEF CallLeaves, u
<1> QED BY <1>22 DEF res, both, first, zero, one, nptr, u

\* A number repeated is a sequence of numbers.
LEMMA RepeatedNumber ==
  ASSUME NEW number \in Number, NEW count \in Nat
  PROVE  [i \in 1 .. count |-> number] \in Seq(Number)
<1> HIDE DEF Number
<1> QED OBVIOUS

\* Lengths added one after the other, and held against an end.
LEMMA SumAssociative ==
  \A a, b, c \in Nat : a + (b + c) = a + b + c
OBVIOUS

LEMMA SumFits ==
  \A a, b, c \in Nat, end \in Int : b + c <= end - a => a + b + c <= end
OBVIOUS

\* So many even and odd numbers are gone of a leaf, as many as there are and as there is
\* room for, and r with the nodes kept has the others.
LeafGone(u, nodes, p, n, end, s, zeros, ones, even, new, r, kept) ==
  /\ Shape(u, nodes) /\ Parted(u, nodes) /\ p \in PointersOf(u, nodes)
  /\ n = u.node[PointerAt(u, p)] /\ PointerAt(u, p) # NULL /\ n.bit_pos = 1
  /\ n.zero \in Nat /\ n.one \in Nat /\ n.number \in Number
  /\ end \in Nat /\ s \in Takings /\ s.t = u /\ Len(s.buffer) < end
  /\ zeros \in Nat /\ zeros = AtMost(n.zero, end - Len(s.buffer))
  /\ ones \in Nat /\ ones = AtMost(n.one, end - Len(s.buffer) - zeros)
  /\ new \in Seq(Number) /\ Len(new) = zeros + ones
  /\ \A a \in Number : Occurs(new, a) = OfLeaf(n.number, zeros, ones, a)
  /\ even = 2 * (n.number \div 2)
  /\ \A i \in DOMAIN new : /\ Agree(n.number, new[i], 1)
                           /\ new[i] = IF i <= zeros THEN even ELSE even + 1
  /\ \A i, j \in DOMAIN new : i <= j => new[i] <= new[j]
  /\ r.buffer = s.buffer \o new
  /\ LeafLost(u, nodes, p, zeros, ones, r.t, kept)

\* That is what a call at the leaf takes.
LEMMA LeafTook ==
  ASSUME NEW u, NEW nodes, NEW p, NEW n, NEW end, NEW s, NEW zeros, NEW ones, NEW even,
         NEW new, NEW r, NEW kept,
         LeafGone(u, nodes, p, n, end, s, zeros, ones, even, new, r, kept)
  PROVE  Took(end, s, r, nodes, kept, p, new)
<1> DEFINE k == PointerAt(u, p)
           len == Len(s.buffer)
<1>21. /\ Shape(u, nodes) /\ Parted(u, nodes) /\ p \in PointersOf(u, nodes)
       /\ n = u.node[PointerAt(u, p)] /\ PointerAt(u, p) # NULL /\ n.bit_pos = 1
  BY Zenon DEF LeafGone
<1>22. /\ n.zero \in Nat /\ n.one \in Nat /\ n.number \in Number
       /\ end \in Nat /\ s \in Takings /\ s.t = u /\ Len(s.buffer) < end
       /\ zeros \in Nat /\ zeros = AtMost(n.zero, end - Len(s.buffer))
       /\ ones \in Nat /\ ones = AtMost(n.one, end - Len(s.buffer) - zeros)
       /\ even = 2 * (n.number \div 2)
  BY Zenon DEF LeafGone
<1>23. /\ new \in Seq(Number) /\ Len(new) = zeros + ones
       /\ \A a \in Number : Occurs(new, a) = OfLeaf(n.number, zeros, ones, a)
       /\ \A i \in DOMAIN new : /\ Agree(n.number, new[i], 1)
                                /\ new[i] = IF i <= zeros THEN even ELSE even + 1
       /\ \A i, j \in DOMAIN new : i <= j => new[i] <= new[j]
       /\ r.buffer = s.buffer \o new
  BY Zenon DEF LeafGone
<1>24. \A a \in Number :
        /\ Count(r.t, kept, a) \in Nat
        /\ Count(u, nodes, a) = Count(r.t, kept, a) + OfLeaf(n.number, zeros, ones, a)
  <2>1. LeafLost(u, nodes, p, zeros, ones, r.t, kept)
    BY Zenon DEF LeafGone
  <2> QED BY ONLY <1>21, <2>1 DEF LeafLost
<1>1. /\ k \in nodes /\ Leads(u, p, n.number) /\ Below(u, p, 1) /\ 1 \in BitPositions
      /\ ~Interior(u, k)
  <2>1. k \in nodes /\ Below(u, p, 1)
    BY ONLY <1>21, BelowPointers
  <2>2. Leads(u, p, n.number)
    BY ONLY <1>21 DEF Parted
  <2> QED BY ONLY <1>21, <2>1, <2>2, RadixTreeAssumption DEF Interior
<1>2. len \in Nat /\ s.buffer \in Seq(Number)
  BY ONLY <1>22 DEF Takings
<1>3. Len(r.buffer) = len + zeros + ones
  <2>1. Len(s.buffer \o new) = Len(s.buffer) + Len(new)
    BY ONLY <1>2, <1>23, ConcatProperties
  <2>2. Len(r.buffer) = Len(s.buffer) + (zeros + ones)
    BY ONLY <1>23, <2>1
  <2>3. Len(s.buffer) \in Nat /\ zeros \in Nat /\ ones \in Nat
    BY ONLY <1>22, <1>2 DEF len
  <2>4. Len(s.buffer) + (zeros + ones) = Len(s.buffer) + zeros + ones
    BY ONLY <2>3, SumAssociative
  <2> QED BY ONLY <2>2, <2>4 DEF len
<1>4. DOMAIN new = 1 .. zeros + ones
  BY ONLY <1>23, LenProperties
<1>5. /\ zeros \in Nat /\ ones \in Nat /\ end \in Nat /\ n.zero \in Nat /\ n.one \in Nat
      /\ len \in Nat /\ len < end
      /\ zeros = AtMost(n.zero, end - len) /\ ones = AtMost(n.one, end - len - zeros)
  BY ONLY <1>2, <1>22
<1>6. \A i \in DOMAIN new : new[i] = IF i <= zeros THEN even ELSE even + 1
  BY ONLY <1>23
<1>7. n.number \in Number /\ even = 2 * (n.number \div 2)
  BY ONLY <1>22
<1> HIDE DEF len
<1>8. ASSUME NEW i \in DOMAIN new PROVE Leads(u, p, new[i])
  <2>1. new[i] \in Number /\ Agree(n.number, new[i], 1)
    BY ONLY <1>8, <1>23, ElementOfSeq
  <2> QED BY ONLY <1>21, <1>7, <1>1, <2>1, LeadsAlike
<1>9. ASSUME NEW a \in Number, Leads(u, p, a), Count(r.t, kept, a) # 0
      PROVE  Len(r.buffer) = end /\ \A i \in DOMAIN new : new[i] <= a
  <2> DEFINE gone == OfLeaf(n.number, zeros, ones, a)
             side == Side(a, 1)
  <2>1. gone \in Nat
    BY ONLY <1>5 DEF OfLeaf, gone
  <2>2. /\ Count(u, nodes, a) = Count(r.t, kept, a) + gone
        /\ Count(r.t, kept, a) \in Nat
    BY ONLY <1>9, <1>24 DEF gone
  <2> HIDE DEF gone
  <2>3. Count(u, nodes, a) # 0 /\ gone < Count(u, nodes, a)
    BY ONLY <1>9, <2>1, <2>2
  <2>4. Agree(a, n.number, 1)
    <3>1. Agree(a, u.node[PointerAt(u, p)].number, u.node[PointerAt(u, p)].bit_pos)
      BY ONLY <1>9, <1>21, <2>3, CountedUnder
    <3> QED BY ONLY <1>21, <3>1
  <2>5. Agree(n.number, a, 1) /\ k \in LeavesOfNumber(u, nodes, a)
    BY ONLY <1>9, <1>21, <1>1, <2>4 DEF LeavesOfNumber, Agree
  <2>6. Count(u, nodes, a) = n[side]
    BY ONLY <1>9, <1>21, <2>5, CountOfLeaf DEF side
  <2>7. a = even + (a % 2) /\ a % 2 \in {0, 1} /\ a \in Nat /\ even \in Nat
    <3>1. n.number \div 2 = a \div 2 /\ a = 2 * (a \div 2) + (a % 2) /\ a % 2 \in {0, 1}
      BY ONLY <1>9, <1>7, <2>5, AgreeLowest
    <3>2. 2 * (n.number \div 2) \in Number
      BY ONLY <1>7, AgreeLowest
    <3>3. a \in Nat /\ even \in Nat
      BY ONLY <1>9, <1>7, <3>2, NumbersAgree
    <3> QED BY ONLY <1>7, <3>1, <3>3
  <2>8. side = "zero" <=> a % 2 = 0
    BY ONLY <1>1, <1>9, AgreeLowest, Sides
  <2>9. CASE a % 2 = 0
    <3>1. side = "zero" /\ gone = zeros /\ zeros < n.zero
      BY ONLY <2>3, <2>5, <2>6, <2>8, <2>9 DEF OfLeaf, gone, side
    <3>2. zeros = end - len
      BY ONLY <1>5, <3>1 DEF AtMost
    <3>3. ones = 0
      BY ONLY <1>5, <3>2 DEF AtMost
    <3>4. \A i \in DOMAIN new : i <= zeros
      BY ONLY <1>4, <1>5, <3>3
    <3>5. a = even
      BY ONLY <2>7, <2>9
    <3>6. \A i \in DOMAIN new : new[i] = even
      BY ONLY <1>6, <3>4
    <3>7. Len(r.buffer) = end
      BY ONLY <1>3, <1>5, <3>2, <3>3
    <3> QED BY ONLY <2>7, <3>5, <3>6, <3>7
  <2>10. CASE a % 2 # 0
    <3>1. side = "one" /\ gone = ones /\ ones < n.one
      BY ONLY <2>3, <2>5, <2>6, <2>8, <2>10 DEF OfLeaf, gone, side, Side
    <3>2. ones = end - len - zeros
      BY ONLY <1>5, <3>1 DEF AtMost
    <3>3. a = even + 1
      BY ONLY <2>7, <2>10
    <3>4. \A i \in DOMAIN new : new[i] <= a
      BY ONLY <1>6, <2>7, <3>3
    <3>5. Len(r.buffer) = end
      BY ONLY <1>3, <1>5, <3>2
    <3> QED BY ONLY <3>4, <3>5
  <2> QED BY <2>9, <2>10
<1>10. /\ r.buffer = s.buffer \o new /\ s.t = u
       /\ \A i, j \in DOMAIN new : i <= j => new[i] <= new[j]
       /\ \A a \in Number : Count(u, nodes, a) = Count(r.t, kept, a) + Occurs(new, a)
  BY ONLY <1>22, <1>23, <1>24
<1> QED BY ONLY <1>8, <1>9, <1>10 DEF Took

\* A call at a leaf fills the buffer up to its end at most.
LEMMA LeafCall ==
  ASSUME NEW end \in Nat, NEW k \in Levels, NEW s \in Takings, NEW nodes, NEW path,
         NEW p, Ready(s.t, nodes, path, p, k), Len(s.buffer) < end,
         PointerAt(s.t, p) # NULL, s.t.node[PointerAt(s.t, p)].bit_pos = 1, NEW low
  PROVE  k # 0 => CallLeaves(end, s, TakenBy(end, low, k, s, p), nodes, path, p)
<1> DEFINE u == s.t
           nptr == PointerAt(u, p)
           n == u.node[nptr]
           room == end - Len(s.buffer)
           zeros == AtMost(n.zero, room)
           ones == AtMost(n.one, room - zeros)
           counted == Counted(u, p, zeros, ones)
           even == 2 * (n.number \div 2)
           x == [i \in 1 .. zeros |-> even]
           y == [i \in 1 .. ones |-> even + 1]
           new == x \o y
           longer == s.buffer \o x \o y
           res == [t |-> Pruned(counted, p), buffer |-> longer]
<1> SUFFICES ASSUME k # 0
             PROVE  CallLeaves(end, s, TakenBy(end, low, k, s, p), nodes, path, p)
  OBVIOUS
<1>1. u \in Trees /\ s.buffer \in Seq(Number) /\ Len(s.buffer) \in Nat
  BY DEF Takings
<1>2. n.zero \in Nat /\ n.one \in Nat /\ n.number \in Number
  <2>1. nptr \in NodeAddr
    BY DEF Ready, Grown, Shape
  <2> QED BY <1>1, <2>1, TreeParts
<1>3. room \in Nat /\ room > 0
  BY <1>1
<1>4. TakenBy(end, low, k, s, p) = res
  <2> DEFINE both == low[low[s][Child(nptr, "zero")]][Child(nptr, "one")]
             pruned == [both EXCEPT !.t = Pruned(@, p)]
  <2>1. TakenBy(end, low, k, s, p) =
          CASE k = 0 \/ room <= 0 \/ nptr = NULL -> s
            [] k # 0 /\ room > 0 /\ nptr # NULL /\ n.bit_pos = 1 -> res
            [] k # 0 /\ room > 0 /\ nptr # NULL /\ n.bit_pos > 1 -> pruned
    BY DEF TakenBy, Counted
  <2>2. ~(k = 0 \/ room <= 0 \/ nptr = NULL) /\ ~(n.bit_pos > 1)
    BY <1>3
  <2> HIDE DEF res, pruned, nptr, n, room
  <2> QED BY <1>3, <2>1, <2>2 DEF nptr, n
<1> HIDE DEF n
<1>5. zeros \in Nat /\ zeros <= n.zero /\ zeros <= room
  BY <1>2, <1>3 DEF AtMost
<1>6. ones \in Nat /\ ones <= n.one /\ zeros + ones <= room
  <2> HIDE DEF zeros, room
  <2> QED BY <1>2, <1>3, <1>5 DEF AtMost
<1> HIDE DEF zeros, ones
<1>7. /\ new \in Seq(Number) /\ Len(new) = zeros + ones
      /\ \A a \in Number : Occurs(new, a) = OfLeaf(n.number, zeros, ones, a)
      /\ \A i \in DOMAIN new : /\ Agree(n.number, new[i], 1)
                               /\ new[i] = IF i <= zeros THEN even ELSE even + 1
      /\ \A i, j \in DOMAIN new : i <= j => new[i] <= new[j]
  BY <1>2, <1>5, <1>6, LeafNumbers
<1>8. x \in Seq(Number) /\ y \in Seq(Number)
  <2>1. even \in Number /\ even + 1 \in Number
    BY <1>2, AgreeLowest
  <2> HIDE DEF even, zeros, ones
  <2>2. zeros \in Nat /\ ones \in Nat
    BY ONLY <1>5, <1>6
  <2>3. x \in Seq(Number)
    BY ONLY <2>1, <2>2, RepeatedNumber
  <2>4. y \in Seq(Number)
    BY ONLY <2>1, <2>2, RepeatedNumber
  <2> QED BY ONLY <2>3, <2>4
<1> HIDE DEF x, y
<1>9. longer = s.buffer \o new /\ longer \in Seq(Number) /\ Len(longer) = Len(s.buffer) + zeros + ones
  <2>1. \A x1, x2, x3 \in Seq(Number) : (x1 \o x2) \o x3 = x1 \o (x2 \o x3)
    <3> TAKE x1, x2, x3 \in Seq(Number)
    <3>1. x1 \in Seq(Number) /\ x2 \in Seq(Number) /\ x3 \in Seq(Number)
      OBVIOUS
    <3> QED BY ONLY <3>1, ConcatAssociative
  <2>2. longer = s.buffer \o new
    BY ONLY <1>1, <1>8, <2>1
  <2> HIDE DEF longer, new
  <2>3. Len(longer) = Len(s.buffer) + Len(new) /\ longer \in Seq(Number)
    BY <1>1, <1>7, <2>2, ConcatProperties
  <2>4. Len(new) = zeros + ones
    BY ONLY <1>7
  <2>5. Len(s.buffer) + (zeros + ones) = Len(s.buffer) + zeros + ones
    BY ONLY <1>1, <1>5, <1>6, SumAssociative
  <2> QED BY ONLY <2>2, <2>3, <2>4, <2>5
<1>10. PICK kept : /\ LeavesOf(u, Pruned(counted, p), nodes, kept, path, p)
                   /\ LeafLost(u, nodes, p, zeros, ones, Pruned(counted, p), kept)
  <2>1. /\ Ready(u, nodes, path, p, k) /\ PointerAt(u, p) # NULL
        /\ u.node[PointerAt(u, p)].bit_pos = 1
    OBVIOUS
  <2>2. /\ zeros \in Nat /\ ones \in Nat
        /\ zeros <= u.node[PointerAt(u, p)].zero /\ ones <= u.node[PointerAt(u, p)].one
    BY <1>5, <1>6 DEF n
  <2> HIDE DEF u
  <2> QED BY ONLY <2>1, <2>2, LeafTaken
<1> HIDE DEF counted, longer, new
<1>11. /\ Pruned(counted, p) \in Trees /\ kept \in SUBSET NodeAddr
       /\ Shape(Pruned(counted, p), kept) /\ Parted(Pruned(counted, p), kept)
  BY <1>10 DEF LeavesOf, Grown, Shape
<1>12. Len(longer) <= end
  <2>1. end \in Int /\ zeros + ones <= end - Len(s.buffer)
    BY <1>6
  <2>2. Len(s.buffer) \in Nat /\ zeros \in Nat /\ ones \in Nat
    BY ONLY <1>1, <1>5, <1>6
  <2>3. Len(s.buffer) + zeros + ones <= end
    BY ONLY <2>1, <2>2, SumFits
  <2> QED BY ONLY <1>9, <2>3
<1>13. res \in Takings
  BY <1>9, <1>11 DEF Takings
<1>14. res.t = Pruned(counted, p) /\ res.buffer = longer
  OBVIOUS
<1> HIDE DEF res
<1>15. Took(end, s, res, nodes, kept, p, new)
  <2>1. Shape(u, nodes) /\ Parted(u, nodes) /\ p \in PointersOf(u, nodes) /\ s.t = u
    BY DEF Ready, Grown
  <2>2. n = u.node[PointerAt(u, p)] /\ PointerAt(u, p) # NULL /\ n.bit_pos = 1
    BY DEF n
  <2>3. LeafLost(u, nodes, p, zeros, ones, res.t, kept)
    BY <1>10, <1>14
  <2>4. zeros = AtMost(n.zero, end - Len(s.buffer)) /\ ones = AtMost(n.one, end - Len(s.buffer) - zeros)
    BY DEF zeros, ones
  <2>5. res.buffer = s.buffer \o new /\ even = 2 * (n.number \div 2)
    BY <1>9, <1>14
  <2> HIDE DEF nptr, room, even, u
  <2>6. end \in Nat /\ s \in Takings /\ Len(s.buffer) < end
    OBVIOUS
  <2>7. LeafGone(u, nodes, p, n, end, s, zeros, ones, even, new, res, kept)
    BY ONLY Zenon, <1>2, <1>5, <1>6, <1>7, <2>1, <2>2, <2>3, <2>4, <2>5, <2>6 DEF LeafGone
  <2> QED BY ONLY <2>1, <2>7, LeafTook
<1> QED BY <1>4, <1>10, <1>11, <1>12, <1>13, <1>7, <1>14, <1>15 DEF CallLeaves

\* All calls keep the tree a tree and the buffer within its end.
LEMMA CallsKeep ==
  ASSUME NEW end \in Nat, NEW k \in Levels
  PROVE  Calls(end, take_numbers_2(end)[k], k)
<1> DEFINE f == take_numbers_2(end)
           S == {m \in Nat : m \in Levels => Calls(end, f[m], m)}
<1>1. \A m \in Levels, s \in Takings, p \in Pointers :
        f[m][s][p] = TakenBy(end, f[m \div 2], m, s, p)
  <2> DEFINE To(m, s, p) == TakenBy(end, f[m \div 2], m, s, p)
  <2> HIDE DEF f
  <2>1. f = TakenAll(end, f)
    BY TakeDefined DEF f
  <2>2. TakenAll(end, f) = [m \in Levels |-> [s \in Takings |-> [p \in Pointers |-> To(m, s, p)]]]
    BY DEF TakenAll
  <2> HIDE DEF To
  <2>3. \A m \in Levels : f[m] = [s \in Takings |-> [p \in Pointers |-> To(m, s, p)]]
    BY <2>1, <2>2
  <2>4. ASSUME NEW m \in Levels, NEW s \in Takings, NEW p \in Pointers
        PROVE  f[m][s][p] = To(m, s, p)
    <3>1. f[m][s] = [q \in Pointers |-> To(m, s, q)]
      BY <2>3
    <3> QED BY <3>1
  <2> QED BY <2>4 DEF To
<1> HIDE DEF f
<1>2. ASSUME NEW m \in Nat, \A l \in Nat : l < m => l \in S PROVE m \in S
  <2> SUFFICES ASSUME m \in Levels, NEW s \in Takings, NEW p \in Pointers,
                      NEW nodes \in SUBSET NodeAddr, NEW path \in SUBSET NodeAddr,
                      Ready(s.t, nodes, path, p, m), Len(s.buffer) <= end
               PROVE  CallLeaves(end, s, f[m][s][p], nodes, path, p)
    BY DEF Calls
  <2> DEFINE nptr == PointerAt(s.t, p)
             n == s.t.node[nptr]
             room == end - Len(s.buffer)
             first == f[m \div 2][s][Child(nptr, "zero")]
             both == f[m \div 2][first][Child(nptr, "one")]
  <2>1. f[m][s][p] = TakenBy(end, f[m \div 2], m, s, p)
    BY <1>1
  <2>2. Len(s.buffer) \in Nat /\ s.buffer \in Seq(Number) /\ s.t \in Trees
    BY DEF Takings
  <2>3. CASE m = 0 \/ room <= 0 \/ nptr = NULL
    <3>1. f[m][s][p] = s
      <4>1. room > 0 => ~(room <= 0)
        BY <2>2
      <4> QED BY Zenon, <2>1, <2>3, <4>1 DEF TakenBy
    <3>2. m = 0 \/ end <= Len(s.buffer) \/ nptr = NULL
      BY <2>2, <2>3
    <3>3. CallLeaves(end, s, s, nodes, path, p)
      BY <3>2, NothingTaken
    <3> QED BY <3>1, <3>3
  <2>4. CASE ~(m = 0 \/ room <= 0 \/ nptr = NULL) /\ n.bit_pos = 1
    <3>1. Len(s.buffer) < end
      BY <2>2, <2>4
    <3> QED BY <2>1, <2>4, <3>1, LeafCall
  <2>5. CASE ~(m = 0 \/ room <= 0 \/ nptr = NULL) /\ n.bit_pos > 1
    <3>1. m \div 2 \in Levels /\ m \div 2 < m /\ m \div 2 \in Nat
      BY <2>5, LevelBelow
    <3>2. m \div 2 \in S
      BY <1>2, <3>1
    <3>3. Calls(end, f[m \div 2], m \div 2)
      BY <3>1, <3>2
    <3>4. Interior(s.t, nptr)
      BY <2>5 DEF Interior
    <3>5. CallLeaves(end, s, [both EXCEPT !.t = Pruned(@, p)], nodes, path, p)
      BY Zenon, <2>5, <3>3, <3>4, InteriorTaken
    <3>6. f[m][s][p] = [both EXCEPT !.t = Pruned(@, p)]
      <4>1. ~(n.bit_pos = 1) /\ room > 0
        BY <2>2, <2>5
      <4> QED BY Zenon, <2>1, <2>5, <4>1 DEF TakenBy
    <3> QED BY Zenon, <3>5, <3>6
  <2>6. nptr # NULL => n.bit_pos = 1 \/ n.bit_pos > 1
    <3>1. nptr # NULL => nptr \in NodeAddr
      BY DEF Ready, Grown, Shape
    <3>2. nptr # NULL => n.bit_pos \in Nat \ {0}
      BY <2>2, <3>1, TreeParts, RadixTreeAssumption
    <3> HIDE DEF n
    <3> QED BY <3>2
  <2> QED BY <2>3, <2>4, <2>5, <2>6
<1>3. k \in Nat
  BY LevelBelow
<1>4. k \in S
  <2> HIDE DEF S
  <2> QED BY <1>2, <1>3, StrongInduction
<1> QED BY <1>4 DEF f

\* The numbers new are the smallest of those that the tree u with the nodes holds, in
\* ascending order, and r with the nodes kept holds the others.
SmallestOf(u, nodes, r, kept, new) ==
  /\ new \in Seq(Number)
  /\ \A a \in Number : Count(u, nodes, a) = Count(r, kept, a) + Occurs(new, a)
  /\ \A i, j \in DOMAIN new : i <= j => new[i] <= new[j]
  /\ \A i \in DOMAIN new, a \in Number : Count(r, kept, a) # 0 => new[i] <= a

\* take_numbers keeps the tree a tree, and takes the smallest numbers, as many as it may.
LEMMA TakeNumbers ==
  ASSUME NEW u, NEW nodes, Grown(u, nodes, {}), NEW max_nums \in Nat
  PROVE  LET result == take_numbers(u, max_nums)
         IN  /\ result.t \in Trees /\ result.buffer \in Seq(Number)
             /\ Len(result.buffer) <= max_nums
             /\ \E kept :
                  /\ Grown(result.t, kept, {})
                  /\ SmallestOf(u, nodes, result.t, kept, result.buffer)
                  /\ \A a \in Number :
                       Count(result.t, kept, a) # 0 => Len(result.buffer) = max_nums
<1> DEFINE s == [t |-> u, buffer |-> <<>>]
           result == take_numbers(u, max_nums)
<1>1. /\ Shape(u, nodes) /\ u \in Trees /\ nodes \in SUBSET NodeAddr
  BY DEF Grown, Shape
<1>2. s \in Takings /\ Len(s.buffer) <= max_nums /\ s.t = u
  <2>1. <<>> \in Seq(Number) /\ Len(<<>>) = 0
    BY EmptySeq
  <2> QED BY <1>1, <2>1 DEF Takings
<1>3. result = take_numbers_2(max_nums)[MAX_BITS][s][Global]
  BY DEF take_numbers
<1> HIDE DEF s, result
<1>4. Ready(u, nodes, {}, Global, MAX_BITS)
  <2>1. Global \in PointersOf(u, nodes)
    BY PointerForms
  <2>2. PointerAt(u, Global) # NULL => PointerAt(u, Global) \in NodeAddr
    BY <1>1, <2>1 DEF Shape
  <2>3. PointerAt(u, Global) # NULL => u.node[PointerAt(u, Global)].bit_pos <= MAX_BITS
    BY <1>1, <2>2, TreeParts, HighestLevel
  <2> QED BY <2>1, <2>3 DEF Ready
<1>5. Global \in Pointers /\ {} \in SUBSET NodeAddr
  BY PointerForms
<1>6. Calls(max_nums, take_numbers_2(max_nums)[MAX_BITS], MAX_BITS)
  BY CallsKeep, HighestLevel
<1>7. CallLeaves(max_nums, s, result, nodes, {}, Global)
  BY <1>1, <1>2, <1>3, <1>4, <1>5, <1>6 DEF Calls
<1>8. PICK kept : /\ LeavesOf(u, result.t, nodes, kept, {}, Global)
                  /\ \E new \in Seq(Number) : Took(max_nums, s, result, nodes, kept, Global, new)
  BY <1>2, <1>7 DEF CallLeaves
<1>9. PICK new \in Seq(Number) : Took(max_nums, s, result, nodes, kept, Global, new)
  BY <1>8
<1>10. result.buffer = new
  <2>1. result.buffer = s.buffer \o new /\ s.buffer = <<>>
    BY <1>9 DEF Took, s
  <2> QED BY <2>1, ConcatEmptySeq
<1>11. \A a : Leads(u, Global, a)
  BY DEF Leads
<1>12. SmallestOf(u, nodes, result.t, kept, result.buffer)
  BY <1>2, <1>9, <1>10, <1>11 DEF Took, SmallestOf
<1>13. \A a \in Number : Count(result.t, kept, a) # 0 => Len(result.buffer) = max_nums
  BY <1>2, <1>9, <1>11 DEF Took
<1>14. Grown(result.t, kept, {})
  BY <1>8 DEF LeavesOf
<1> QED BY <1>7, <1>14, <1>12, <1>13 DEF CallLeaves, Takings, result

-----------------------------------------------------------------------------
(***************************************************************************)
(* NodesBelow: every node of the tree, once.                               *)
(***************************************************************************)

\* The nodes of a subtree, when low are those of the subtrees below.
Collected(u, low, bit_pos, p) ==
  IF bit_pos = 0 \/ p = NULL THEN <<>>
  ELSE IF u.node[p].bit_pos > 1
  THEN low[u.node[p].zero] \o low[u.node[p].one] \o <<p>>
  ELSE <<p>>

CollectedAll(u, f) ==
  [bit_pos \in Levels |-> [p \in NodeAddr \cup {NULL} |->
     Collected(u, f[bit_pos \div 2], bit_pos, p)]]

\* The subtrees' nodes are defined.
LEMMA BelowDefined ==
  ASSUME NEW u
  PROVE  NodesBelow(u) = CollectedAll(u, NodesBelow(u))
<1> DEFINE Upto(k, f) ==
             /\ f = [bit_pos \in Levels |-> f[bit_pos]]
             /\ \A bit_pos \in Levels :
                  bit_pos < k => f[bit_pos] = CollectedAll(u, f)[bit_pos]
           S == {k \in Nat : \E f : Upto(k, f)}
<1>1. Levels \subseteq Nat /\ MAX_BITS \in Nat /\ \A bit_pos \in Levels : bit_pos <= MAX_BITS
  BY HighestLevel, LevelBelow, RadixTreeAssumption DEF Levels
<1>2. 0 \in S
  <2>1. Upto(0, [bit_pos \in Levels |-> 0])
    BY <1>1
  <2> QED BY <2>1
<1>3. ASSUME NEW k \in S PROVE k + 1 \in S
  <2>1. PICK f : Upto(k, f)
    BY <1>3
  <2> DEFINE g == [bit_pos \in Levels |-> IF bit_pos = k THEN CollectedAll(u, f)[k]
                                          ELSE f[bit_pos]]
  <2>2. \A bit_pos \in Levels : bit_pos # k => g[bit_pos] = f[bit_pos]
    OBVIOUS
  <2>3. k \in Levels => g[k] = CollectedAll(u, f)[k]
    OBVIOUS
  <2>4. ASSUME NEW bit_pos \in Levels, bit_pos <= k
        PROVE  CollectedAll(u, g)[bit_pos] = CollectedAll(u, f)[bit_pos]
    <3> DEFINE To(e) == [p \in NodeAddr \cup {NULL} |->
                           Collected(u, e[bit_pos \div 2], bit_pos, p)]
    <3>1. To(g) = To(f)
      <4>1. CASE bit_pos = 0
        <5>1. \A low, p : Collected(u, low, bit_pos, p) = <<>>
          BY <4>1 DEF Collected
        <5> QED BY <5>1
      <4>2. CASE bit_pos # 0
        <5>1. bit_pos \div 2 \in Levels /\ bit_pos \div 2 < bit_pos
          BY <4>2, LevelBelow
        <5>2. bit_pos \div 2 # k
          BY <1>1, <2>4, <5>1
        <5> HIDE DEF g
        <5>3. g[bit_pos \div 2] = f[bit_pos \div 2]
          BY <2>2, <5>1, <5>2
        <5> QED BY <5>3
      <4> QED BY <4>1, <4>2
    <3>2. \A e : CollectedAll(u, e)[bit_pos] = To(e)
      BY DEF CollectedAll
    <3> HIDE DEF To, g
    <3> QED BY <3>1, <3>2
  <2>5. \A bit_pos \in Levels : bit_pos < k + 1 => bit_pos < k \/ bit_pos = k
    BY <1>1, <1>3
  <2>6. \A bit_pos \in Levels : bit_pos < k => bit_pos <= k /\ bit_pos # k
    BY <1>1, <1>3
  <2>7. k \in Nat /\ k <= k
    BY <1>3
  <2>8. g = [bit_pos \in Levels |-> g[bit_pos]]
    OBVIOUS
  <2> HIDE DEF g
  <2>9. \A bit_pos \in Levels : bit_pos < k + 1 => g[bit_pos] = CollectedAll(u, g)[bit_pos]
    BY <2>1, <2>2, <2>3, <2>4, <2>5, <2>6, <2>7
  <2>10. Upto(k + 1, g)
    BY <2>8, <2>9
  <2> HIDE DEF Upto
  <2> QED BY <2>7, <2>10
<1>4. S = Nat
  <2> HIDE DEF S
  <2>1. S \subseteq Nat
    BY DEF S
  <2> QED BY <1>2, <1>3, <2>1, Induction
<1>5. PICK f : Upto(MAX_BITS + 1, f)
  <2>1. MAX_BITS + 1 \in S
    <3> HIDE DEF S
    <3> QED BY <1>1, <1>4
  <2> HIDE DEF Upto
  <2> QED BY <2>1
<1>6. f = CollectedAll(u, f)
  <2>1. \A bit_pos \in Levels : bit_pos < MAX_BITS + 1
    BY <1>1
  <2>2. f = [bit_pos \in Levels |-> CollectedAll(u, f)[bit_pos]]
    BY <1>5, <2>1
  <2>3. CollectedAll(u, f) = [bit_pos \in Levels |-> CollectedAll(u, f)[bit_pos]]
    BY DEF CollectedAll
  <2> QED BY <2>2, <2>3
<1> QED BY Zenon, <1>6 DEF NodesBelow, CollectedAll, Collected

\* The elements of sequences that are put together.
LEMMA Together ==
  ASSUME NEW S, NEW a \in Seq(S), NEW b \in Seq(S), IsInjective(a), IsInjective(b),
         ToSet(a) \cap ToSet(b) = {}
  PROVE  /\ a \o b \in Seq(S) /\ ToSet(a \o b) = ToSet(a) \cup ToSet(b)
         /\ IsInjective(a \o b)
<1>1. /\ a \o b \in Seq(S) /\ Len(a \o b) = Len(a) + Len(b)
      /\ Len(a) \in Nat /\ Len(b) \in Nat
      /\ \A i \in 1 .. Len(a) + Len(b) :
           (a \o b)[i] = IF i <= Len(a) THEN a[i] ELSE b[i - Len(a)]
  BY ConcatProperties
<1>2. /\ DOMAIN a = 1 .. Len(a) /\ DOMAIN b = 1 .. Len(b)
      /\ DOMAIN (a \o b) = 1 .. Len(a) + Len(b)
  BY <1>1
<1> DEFINE c == a \o b
<1> HIDE DEF c
<1>3. ToSet(c) = ToSet(a) \cup ToSet(b)
  <2>1. ASSUME NEW i \in DOMAIN c PROVE c[i] \in ToSet(a) \cup ToSet(b)
    <3>1. CASE i <= Len(a)
      <4>1. i \in DOMAIN a /\ c[i] = a[i]
        BY <1>1, <1>2, <3>1 DEF c
      <4> QED BY <4>1 DEF ToSet
    <3>2. CASE ~(i <= Len(a))
      <4>1. i - Len(a) \in DOMAIN b /\ c[i] = b[i - Len(a)]
        BY <1>1, <1>2, <3>2 DEF c
      <4> QED BY <4>1 DEF ToSet
    <3> QED BY <3>1, <3>2
  <2>2. ASSUME NEW i \in DOMAIN a PROVE a[i] \in ToSet(c)
    <3>1. i \in DOMAIN c /\ c[i] = a[i]
      BY <1>1, <1>2 DEF c
    <3> QED BY <3>1 DEF ToSet
  <2>3. ASSUME NEW i \in DOMAIN b PROVE b[i] \in ToSet(c)
    <3>1. i + Len(a) \in DOMAIN c /\ c[i + Len(a)] = b[i]
      BY <1>1, <1>2 DEF c
    <3> QED BY <3>1 DEF ToSet
  <2> QED BY <2>1, <2>2, <2>3 DEF ToSet
<1>4. IsInjective(c)
  <2> SUFFICES ASSUME NEW i \in DOMAIN c, NEW j \in DOMAIN c, c[i] = c[j] PROVE i = j
    BY DEF IsInjective
  <2>1. i \in Nat /\ j \in Nat
    BY <1>1, <1>2 DEF c
  <2>2. \A k \in DOMAIN c : k <= Len(a) => k \in DOMAIN a /\ c[k] = a[k]
    BY <1>1, <1>2 DEF c
  <2>3. \A k \in DOMAIN c : ~(k <= Len(a)) => k - Len(a) \in DOMAIN b /\ c[k] = b[k - Len(a)]
    BY <1>1, <1>2 DEF c
  <2>4. CASE i <= Len(a) /\ j <= Len(a)
    BY <2>2, <2>4 DEF IsInjective
  <2>5. CASE ~(i <= Len(a)) /\ ~(j <= Len(a))
    <3>1. i - Len(a) = j - Len(a)
      BY <2>3, <2>5 DEF IsInjective
    <3> QED BY <1>1, <2>1, <3>1
  <2>6. CASE i <= Len(a) /\ ~(j <= Len(a))
    BY <2>2, <2>3, <2>6 DEF ToSet
  <2>7. CASE ~(i <= Len(a)) /\ j <= Len(a)
    BY <2>2, <2>3, <2>7 DEF ToSet
  <2> QED BY <2>4, <2>5, <2>6, <2>7
<1> QED BY <1>1, <1>3, <1>4 DEF c

\* A sequence of one element.
LEMMA Alone ==
  ASSUME NEW S, NEW x \in S
  PROVE  <<x>> \in Seq(S) /\ ToSet(<<x>>) = {x} /\ IsInjective(<<x>>)
<1>1. <<x>> \in Seq(S) /\ DOMAIN <<x>> = {1} /\ <<x>>[1] = x
  OBVIOUS
<1> QED BY <1>1 DEF ToSet, IsInjective

\* The nodes of the subtree that the pointer p leads to.
SubtreeOf(u, nodes, s, p) ==
  /\ s \in Seq(nodes) /\ IsInjective(s)
  /\ IF p = NULL THEN ToSet(s) = {} ELSE p \in ToSet(s)
  /\ \A n \in ToSet(s) :
       /\ u.node[n].bit_pos <= u.node[p].bit_pos
       /\ \A side \in {"zero", "one"} :
            Interior(u, n) => PointerAt(u, Child(n, side)) \in ToSet(s) \cup {NULL}
       /\ n # p => \E a \in ToSet(s), side \in {"zero", "one"} :
                     Interior(u, a) /\ PointerAt(u, Child(a, side)) = n

\* The subtrees below two members of a node have no node in common.
LEMMA SubtreesApart ==
  ASSUME NEW u, NEW nodes, Shape(u, nodes), NEW p \in nodes, Interior(u, p),
         NEW z, SubtreeOf(u, nodes, z, PointerAt(u, Child(p, "zero"))),
         NEW o, SubtreeOf(u, nodes, o, PointerAt(u, Child(p, "one")))
  PROVE  ToSet(z) \cap ToSet(o) = {}
<1> DEFINE zero == Child(p, "zero")
           one == Child(p, "one")
           pz == PointerAt(u, zero)
           po == PointerAt(u, one)
           I == ToSet(z) \cap ToSet(o)
           bits == {u.node[m].bit_pos : m \in I}
<1>1. /\ ToSet(z) \subseteq nodes /\ ToSet(o) \subseteq nodes
      /\ nodes \subseteq NodeAddr /\ u \in Trees
  BY DEF SubtreeOf, ToSet, Shape
<1>2. \A m \in nodes : u.node[m].bit_pos \in BitPositions /\ u.node[m].bit_pos \in Nat /\ m # NULL
  BY <1>1, TreeParts, RadixTreeAssumption, NodeAddresses
<1>3. \A a \in nodes, side \in {"zero", "one"} : Interior(u, a) =>
        Child(a, side) \in PointersOf(u, nodes) /\ Child(a, side) # Global
  BY PointerForms, Members
<1>4. zero # one /\ zero \in PointersOf(u, nodes) /\ one \in PointersOf(u, nodes)
      /\ zero.node = p /\ one.node = p
  BY <1>3, Members
<1>5. \A m \in ToSet(z) : pz # NULL /\ u.node[m].bit_pos < u.node[p].bit_pos
  <2> SUFFICES ASSUME NEW m \in ToSet(z)
               PROVE  pz # NULL /\ u.node[m].bit_pos < u.node[p].bit_pos
    OBVIOUS
  <2>1. pz # NULL /\ u.node[m].bit_pos <= u.node[pz].bit_pos
    BY DEF SubtreeOf
  <2>2. pz \in nodes /\ u.node[pz].bit_pos < u.node[p].bit_pos
    BY <1>3, <1>4, <2>1 DEF Shape
  <2> HIDE DEF pz
  <2> QED BY <1>1, <1>2, <2>1, <2>2
<1>6. \A m \in ToSet(o) : po # NULL /\ u.node[m].bit_pos < u.node[p].bit_pos
  <2> SUFFICES ASSUME NEW m \in ToSet(o)
               PROVE  po # NULL /\ u.node[m].bit_pos < u.node[p].bit_pos
    OBVIOUS
  <2>1. po # NULL /\ u.node[m].bit_pos <= u.node[po].bit_pos
    BY DEF SubtreeOf
  <2>2. po \in nodes /\ u.node[po].bit_pos < u.node[p].bit_pos
    BY <1>3, <1>4, <2>1 DEF Shape
  <2> HIDE DEF po
  <2> QED BY <1>1, <1>2, <2>1, <2>2
<1>7. \A a \in nodes : ~(u.node[a].bit_pos < u.node[a].bit_pos)
  BY <1>2
<1>8. p \notin ToSet(z) /\ p \notin ToSet(o)
  BY <1>5, <1>6, <1>7
<1>9. \A a, b \in nodes, s1, s2 \in {"zero", "one"} :
        Interior(u, a) /\ Interior(u, b) /\ PointerAt(u, Child(a, s1)) = PointerAt(u, Child(b, s2))
        /\ PointerAt(u, Child(a, s1)) # NULL => a = b /\ s1 = s2
  <2> SUFFICES ASSUME NEW a \in nodes, NEW b \in nodes,
                      NEW s1 \in {"zero", "one"}, NEW s2 \in {"zero", "one"},
                      Interior(u, a), Interior(u, b),
                      PointerAt(u, Child(a, s1)) = PointerAt(u, Child(b, s2)),
                      PointerAt(u, Child(a, s1)) # NULL
               PROVE  a = b /\ s1 = s2
    OBVIOUS
  <2>1. Child(a, s1) \in PointersOf(u, nodes) /\ Child(b, s2) \in PointersOf(u, nodes)
    BY <1>3
  <2>2. Child(a, s1) = Child(b, s2)
    BY <2>1 DEF Shape
  <2> QED BY <2>2, Members
<1> SUFFICES ASSUME I # {} PROVE FALSE
  OBVIOUS
<1>10. PICK m \in I : \A x \in I : u.node[x].bit_pos <= u.node[m].bit_pos
  <2>1. bits \in SUBSET BitPositions /\ bits # {}
    BY <1>1, <1>2
  <2> HIDE DEF bits
  <2>2. Max(bits) \in bits /\ \A bit \in bits : bit <= Max(bits)
    BY <2>1, HighestBit
  <2> QED BY <2>2 DEF bits
<1>11. m \in ToSet(z) /\ m \in ToSet(o) /\ m \in nodes /\ m # NULL
  BY <1>1, <1>2
<1>12. m # pz
  <2> SUFFICES ASSUME m = pz PROVE FALSE
    OBVIOUS
  <2>1. CASE m = po
    BY <1>9, <1>11, <2>1
  <2>2. CASE m # po
    <3>1. PICK a \in ToSet(o), side \in {"zero", "one"} :
            Interior(u, a) /\ PointerAt(u, Child(a, side)) = m
      BY <1>11, <2>2 DEF SubtreeOf
    <3>2. a = p
      BY <1>1, <1>9, <1>11, <3>1
    <3> QED BY <1>8, <3>2
  <2> QED BY <2>1, <2>2
<1>13. m # po
  <2> SUFFICES ASSUME m = po PROVE FALSE
    OBVIOUS
  <2>1. PICK a \in ToSet(z), side \in {"zero", "one"} :
          Interior(u, a) /\ PointerAt(u, Child(a, side)) = m
    BY <1>11, <1>12 DEF SubtreeOf
  <2>2. a = p
    BY <1>1, <1>9, <1>11, <2>1
  <2> QED BY <1>8, <2>2
<1>14. PICK a \in ToSet(z), s1 \in {"zero", "one"} :
         Interior(u, a) /\ PointerAt(u, Child(a, s1)) = m
  BY <1>11, <1>12 DEF SubtreeOf
<1>15. PICK b \in ToSet(o), s2 \in {"zero", "one"} :
         Interior(u, b) /\ PointerAt(u, Child(b, s2)) = m
  BY <1>11, <1>13 DEF SubtreeOf
<1>16. a = b /\ a \in nodes
  BY <1>1, <1>9, <1>11, <1>14, <1>15
<1>17. u.node[m].bit_pos < u.node[a].bit_pos
  <2>1. Child(a, s1) \in PointersOf(u, nodes) /\ Child(a, s1) # Global /\ Child(a, s1).node = a
    BY <1>3, <1>14, <1>16, Members
  <2> QED BY <1>11, <1>14, <2>1 DEF Shape
<1>18. u.node[a].bit_pos <= u.node[m].bit_pos
  BY <1>10, <1>14, <1>15, <1>16
<1> QED BY <1>2, <1>11, <1>16, <1>17, <1>18

\* Two subtrees and the node above them make a subtree.
LEMMA SubtreeAbove ==
  ASSUME NEW u, NEW nodes, Shape(u, nodes), NEW p \in nodes, Interior(u, p),
         NEW z, SubtreeOf(u, nodes, z, PointerAt(u, Child(p, "zero"))),
         NEW o, SubtreeOf(u, nodes, o, PointerAt(u, Child(p, "one")))
  PROVE  SubtreeOf(u, nodes, z \o o \o <<p>>, p)
<1> DEFINE pz == PointerAt(u, Child(p, "zero"))
           po == PointerAt(u, Child(p, "one"))
           s == z \o o \o <<p>>
<1>1. /\ ToSet(z) \subseteq nodes /\ ToSet(o) \subseteq nodes
      /\ nodes \subseteq NodeAddr /\ u \in Trees
      /\ z \in Seq(nodes) /\ o \in Seq(nodes) /\ IsInjective(z) /\ IsInjective(o)
  BY DEF SubtreeOf, ToSet, Shape
<1>2. \A m \in nodes : u.node[m].bit_pos \in Nat /\ m # NULL
  BY <1>1, TreeParts, RadixTreeAssumption, NodeAddresses
<1>3. \A side \in {"zero", "one"} :
        LET q == PointerAt(u, Child(p, side))
        IN  q \in nodes \cup {NULL} /\ (q # NULL => u.node[q].bit_pos < u.node[p].bit_pos)
  <2> TAKE side \in {"zero", "one"}
  <2>1. Child(p, side) \in PointersOf(u, nodes) /\ Child(p, side) # Global /\ Child(p, side).node = p
    BY PointerForms, Members
  <2> QED BY <2>1 DEF Shape
<1>4. \A m \in ToSet(z) \cup ToSet(o) : u.node[m].bit_pos < u.node[p].bit_pos
  <2> SUFFICES ASSUME NEW m \in nodes, NEW q \in nodes, u.node[m].bit_pos <= u.node[q].bit_pos,
                      u.node[q].bit_pos < u.node[p].bit_pos
               PROVE  u.node[m].bit_pos < u.node[p].bit_pos
    BY <1>1, <1>3 DEF SubtreeOf
  <2> QED BY <1>2
<1>5. p \notin ToSet(z) \cup ToSet(o)
  BY <1>2, <1>4
<1>6. z \o o \in Seq(nodes) /\ ToSet(z \o o) = ToSet(z) \cup ToSet(o) /\ IsInjective(z \o o)
  BY <1>1, SubtreesApart, Together
<1>7. s \in Seq(nodes) /\ ToSet(s) = ToSet(z) \cup ToSet(o) \cup {p} /\ IsInjective(s)
  <2> DEFINE zo == z \o o
             own == <<p>>
  <2>1. own \in Seq(nodes) /\ ToSet(own) = {p} /\ IsInjective(own)
    BY Alone
  <2>2. zo \in Seq(nodes) /\ ToSet(zo) = ToSet(z) \cup ToSet(o) /\ IsInjective(zo)
    BY <1>6
  <2>3. ToSet(zo) \cap ToSet(own) = {}
    BY <1>5, <2>1, <2>2
  <2> HIDE DEF zo, own
  <2>4. /\ zo \o own \in Seq(nodes) /\ IsInjective(zo \o own)
        /\ ToSet(zo \o own) = ToSet(zo) \cup ToSet(own)
    BY <2>1, <2>2, <2>3, Together
  <2> QED BY <2>1, <2>2, <2>4 DEF zo, own
<1> HIDE DEF s
<1>8. \A side \in {"zero", "one"} : PointerAt(u, Child(p, side)) \in ToSet(s) \cup {NULL}
  BY <1>7 DEF SubtreeOf
<1>9. \A n \in ToSet(s) : u.node[n].bit_pos <= u.node[p].bit_pos
  BY <1>1, <1>2, <1>4, <1>7
<1>10. \A n \in ToSet(s), side \in {"zero", "one"} :
         Interior(u, n) => PointerAt(u, Child(n, side)) \in ToSet(s) \cup {NULL}
  BY <1>7, <1>8 DEF SubtreeOf
<1>11. ASSUME NEW n \in ToSet(s), n # p
       PROVE  \E a \in ToSet(s), side \in {"zero", "one"} :
                Interior(u, a) /\ PointerAt(u, Child(a, side)) = n
  <2>1. CASE n = pz \/ n = po
    <3>1. p \in ToSet(s)
      BY <1>7
    <3> QED BY <2>1, <3>1
  <2>2. CASE n \in ToSet(z) /\ n # pz
    <3>1. PICK a \in ToSet(z), side \in {"zero", "one"} :
            Interior(u, a) /\ PointerAt(u, Child(a, side)) = n
      BY <2>2 DEF SubtreeOf
    <3> QED BY <1>7, <3>1
  <2>3. CASE n \in ToSet(o) /\ n # po
    <3>1. PICK a \in ToSet(o), side \in {"zero", "one"} :
            Interior(u, a) /\ PointerAt(u, Child(a, side)) = n
      BY <2>3 DEF SubtreeOf
    <3> QED BY <1>7, <3>1
  <2> QED BY <1>7, <1>11, <2>1, <2>2, <2>3
<1>12. p # NULL /\ p \in ToSet(s)
  BY <1>2, <1>7
<1> QED BY <1>7, <1>9, <1>10, <1>11, <1>12 DEF SubtreeOf, s

\* Every call of release_tree on a subtree has its nodes.
LEMMA SubtreesCollected ==
  ASSUME NEW u, NEW nodes, Shape(u, nodes), NEW k \in Levels, NEW p \in nodes \cup {NULL},
         p # NULL => u.node[p].bit_pos <= k
  PROVE  SubtreeOf(u, nodes, NodesBelow(u)[k][p], p)
<1> DEFINE f == NodesBelow(u)
           S == {m \in Nat : m \in Levels => \A q \in nodes \cup {NULL} :
                   (q # NULL => u.node[q].bit_pos <= m) => SubtreeOf(u, nodes, f[m][q], q)}
<1>1. u \in Trees /\ nodes \subseteq NodeAddr
  BY DEF Shape
<1>2. \A m \in nodes : u.node[m].bit_pos \in BitPositions /\ u.node[m].bit_pos \in Nat \ {0} /\ m # NULL
  BY <1>1, TreeParts, RadixTreeAssumption, NodeAddresses
<1>3. \A m \in Levels, q \in nodes \cup {NULL} : f[m][q] = Collected(u, f[m \div 2], m, q)
  <2> DEFINE To(m, q) == Collected(u, f[m \div 2], m, q)
  <2> HIDE DEF f
  <2>1. f = CollectedAll(u, f)
    BY BelowDefined DEF f
  <2>2. CollectedAll(u, f) = [m \in Levels |-> [q \in NodeAddr \cup {NULL} |-> To(m, q)]]
    BY DEF CollectedAll
  <2> HIDE DEF To
  <2>3. ASSUME NEW m \in Levels, NEW q \in nodes \cup {NULL} PROVE f[m][q] = To(m, q)
    <3>1. f[m] = [x \in NodeAddr \cup {NULL} |-> To(m, x)]
      BY <2>1, <2>2
    <3> QED BY <1>1, <3>1
  <2> QED BY <2>3 DEF To
<1> HIDE DEF f
<1>4. SubtreeOf(u, nodes, <<>>, NULL)
  <2>1. <<>> \in Seq(nodes) /\ DOMAIN <<>> = {}
    BY EmptySeq
  <2> QED BY <2>1 DEF SubtreeOf, ToSet, IsInjective
<1>5. ASSUME NEW m \in Nat, \A l \in Nat : l < m => l \in S PROVE m \in S
  <2> SUFFICES ASSUME m \in Levels, NEW q \in nodes \cup {NULL},
                      q # NULL => u.node[q].bit_pos <= m
               PROVE  SubtreeOf(u, nodes, f[m][q], q)
    OBVIOUS
  <2> DEFINE pz == PointerAt(u, Child(q, "zero"))
             po == PointerAt(u, Child(q, "one"))
  <2>1. CASE q = NULL
    <3>1. f[m][q] = <<>>
      BY <1>3, <2>1 DEF Collected
    <3> QED BY <1>4, <2>1, <3>1
  <2>2. CASE q # NULL /\ ~Interior(u, q)
    <3>1. f[m][q] = <<q>>
      <4>1. m # 0
        BY <1>2, <2>2
      <4> QED BY <1>3, <2>2, <4>1 DEF Collected, Interior
    <3>2. <<q>> \in Seq(nodes) /\ ToSet(<<q>>) = {q} /\ IsInjective(<<q>>)
      BY <2>2, Alone
    <3> DEFINE s == <<q>>
    <3> HIDE DEF s
    <3>3. s \in Seq(nodes) /\ ToSet(s) = {q} /\ IsInjective(s)
      BY <3>2 DEF s
    <3>4. u.node[q].bit_pos <= u.node[q].bit_pos
      BY <1>2, <2>2
    <3>5. SubtreeOf(u, nodes, s, q)
      BY <2>2, <3>3, <3>4 DEF SubtreeOf
    <3> QED BY <3>1, <3>5 DEF s
  <2>3. CASE q # NULL /\ Interior(u, q)
    <3>1. m # 0 /\ q \in nodes
      BY <1>2, <2>3
    <3>2. m \div 2 \in Levels /\ m \div 2 < m /\ m \div 2 \in Nat
      BY <3>1, LevelBelow
    <3>3. m \div 2 \in S
      BY <1>5, <3>2
    <3>4. f[m][q] = f[m \div 2][pz] \o f[m \div 2][po] \o <<q>>
      <4>1. pz = u.node[q].zero /\ po = u.node[q].one
        BY Members DEF PointerAt
      <4> QED BY <1>3, <2>3, <3>1, <4>1 DEF Collected, Interior
    <3>5. \A side \in {"zero", "one"} :
            LET c == PointerAt(u, Child(q, side))
            IN  c \in nodes \cup {NULL} /\ (c # NULL => u.node[c].bit_pos <= m \div 2)
      <4> SUFFICES ASSUME NEW side \in {"zero", "one"}
                   PROVE  LET c == PointerAt(u, Child(q, side))
                          IN  c \in nodes \cup {NULL} /\ (c # NULL => u.node[c].bit_pos <= m \div 2)
        OBVIOUS
      <4> DEFINE c == PointerAt(u, Child(q, side))
      <4>1. /\ Child(q, side) \in PointersOf(u, nodes) /\ Child(q, side) # Global
            /\ Child(q, side).node = q
        BY <2>3, <3>1, PointerForms, Members
      <4>2. c \in nodes \cup {NULL} /\ (c # NULL => u.node[c].bit_pos < u.node[q].bit_pos)
        BY <4>1 DEF Shape
      <4> HIDE DEF c
      <4>3. ASSUME c # NULL PROVE u.node[c].bit_pos <= m \div 2
        <5>1. u.node[c].bit_pos \in BitPositions /\ u.node[c].bit_pos < m
          BY <1>2, <2>3, <3>1, <4>2, <4>3
        <5> QED BY <5>1, LevelBelow
      <4> QED BY <4>2, <4>3 DEF c
    <3>6. SubtreeOf(u, nodes, f[m \div 2][pz], pz) /\ SubtreeOf(u, nodes, f[m \div 2][po], po)
      BY <3>2, <3>3, <3>5
    <3> QED BY <2>3, <3>1, <3>4, <3>6, SubtreeAbove
  <2> QED BY <2>1, <2>2, <2>3
<1>6. k \in Nat
  BY LevelBelow
<1>7. k \in S
  <2> HIDE DEF S
  <2> QED BY <1>5, <1>6, StrongInduction
<1> QED BY <1>7 DEF f

\* release_tree comes to every node of the tree once.
LEMMA NodesReached ==
  ASSUME NEW u, NEW nodes, Shape(u, nodes)
  PROVE  LET reached == NodesBelow(u)[MAX_BITS][u.tree]
         IN  reached \in Seq(nodes) /\ IsInjective(reached) /\ ToSet(reached) = nodes
<1> DEFINE reached == NodesBelow(u)[MAX_BITS][u.tree]
           lost == nodes \ ToSet(reached)
           bits == {u.node[m].bit_pos : m \in lost}
<1>1. u \in Trees /\ nodes \subseteq NodeAddr
  BY DEF Shape
<1>2. \A m \in nodes : u.node[m].bit_pos \in BitPositions /\ u.node[m].bit_pos \in Nat /\ m # NULL
  BY <1>1, TreeParts, RadixTreeAssumption, NodeAddresses
<1>3. Global \in PointersOf(u, nodes) /\ PointerAt(u, Global) = u.tree
  BY PointerForms DEF PointerAt
<1>4. u.tree \in nodes \cup {NULL}
  BY <1>3 DEF Shape
<1>5. SubtreeOf(u, nodes, reached, u.tree)
  <2>1. u.tree # NULL => u.node[u.tree].bit_pos <= MAX_BITS
    BY <1>2, <1>4, HighestLevel
  <2> QED BY <1>4, <2>1, HighestLevel, SubtreesCollected
<1> HIDE DEF reached
<1>6. reached \in Seq(nodes) /\ IsInjective(reached) /\ ToSet(reached) \subseteq nodes
  BY <1>5 DEF SubtreeOf, ToSet
<1>7. lost = {}
  <2> SUFFICES ASSUME lost # {} PROVE FALSE
    OBVIOUS
  <2>1. PICK m \in lost : \A x \in lost : u.node[x].bit_pos <= u.node[m].bit_pos
    <3>1. bits \in SUBSET BitPositions /\ bits # {}
      BY <1>2
    <3> HIDE DEF bits
    <3>2. Max(bits) \in bits /\ \A bit \in bits : bit <= Max(bits)
      BY <3>1, HighestBit
    <3> QED BY <3>2 DEF bits
  <2>2. PICK q \in PointersOf(u, nodes) : PointerAt(u, q) = m
    BY DEF Shape
  <2>3. CASE q = Global
    <3>1. u.tree = m /\ m # NULL
      BY <1>2, <1>3, <2>2, <2>3
    <3> QED BY <1>5, <3>1 DEF SubtreeOf
  <2>4. CASE q # Global
    <3>1. /\ q.node \in nodes /\ Interior(u, q.node) /\ q.side \in {"zero", "one"}
          /\ q = Child(q.node, q.side)
      BY <2>4, MemberOf
    <3>2. m # NULL /\ u.node[m].bit_pos < u.node[q.node].bit_pos
      BY <1>2, <2>2, <2>4 DEF Shape
    <3>3. q.node \in ToSet(reached)
      <4> SUFFICES ASSUME q.node \in lost PROVE FALSE
        BY <3>1
      <4>1. u.node[q.node].bit_pos <= u.node[m].bit_pos
        BY <2>1
      <4> QED BY <1>2, <3>1, <3>2, <4>1
    <3>4. PointerAt(u, Child(q.node, q.side)) \in ToSet(reached) \cup {NULL}
      BY <1>5, <3>1, <3>3 DEF SubtreeOf
    <3> QED BY <2>2, <3>1, <3>2, <3>4
  <2> QED BY <2>3, <2>4
<1> QED BY <1>6, <1>7 DEF reached

-----------------------------------------------------------------------------
(***************************************************************************)
(* release_tree: the nodes are given back one after the other.             *)
(***************************************************************************)

Releases(h, seq) == FoldLeft(release, h, seq)

\* They are calls of release, one after the other.
LEMMA ReleasesRun ==
  ASSUME NEW h, NEW nodes, NEW seq \in Seq(nodes)
  PROVE  \E run : /\ run[0] = h /\ run[Len(seq)] = Releases(h, seq)
                  /\ \A k \in 1 .. Len(seq) : run[k] = release(run[k - 1], seq[k])
<1> DEFINE n == Len(seq)
           r == Releases(h, seq)
           body(iter) == [s \in SUBSET DOMAIN seq |->
                            IF s = {} THEN h ELSE release(iter[s \ {Max(s)}], seq[Max(s)])]
           Upto(k, iter) == \A s \in SUBSET (1 .. n) : s \subseteq 1 .. k => iter[s] = body(iter)[s]
           S == {k \in Nat : \E iter : Upto(k, iter)}
<1>1. n \in Nat /\ DOMAIN seq = 1 .. n
  BY LenProperties
<1>2. \A s \in SUBSET (1 .. n) : s # {} => Max(s) \in s /\ \A x \in s : x <= Max(s)
  BY <1>1, GreatestElement
<1>3. \A iter : \A s \in SUBSET (1 .. n) :
        body(iter)[s] = IF s = {} THEN h ELSE release(iter[s \ {Max(s)}], seq[Max(s)])
  BY <1>1
<1>4. 0 \in S
  <2>1. Upto(0, [s \in SUBSET (1 .. n) |-> h])
    <3>1. \A s \in SUBSET (1 .. n) : s \subseteq 1 .. 0 => s = {}
      OBVIOUS
    <3> HIDE DEF body, n
    <3> QED BY <1>3, <3>1
  <2> QED BY <2>1
<1>5. ASSUME NEW k \in S PROVE k + 1 \in S
  <2>1. PICK f : Upto(k, f)
    BY <1>5
  <2> DEFINE g == body(f)
  <2>2. Upto(k + 1, g)
    <3> HIDE DEF n, body
    <3> SUFFICES ASSUME NEW s \in SUBSET (1 .. n), s \subseteq 1 .. k + 1
                 PROVE  g[s] = body(g)[s]
      OBVIOUS
    <3>1. CASE s = {}
      BY <1>3, <3>1
    <3>2. CASE s # {}
      <4> DEFINE rest == s \ {Max(s)}
      <4>1. Max(s) \in s /\ \A x \in s : x <= Max(s)
        BY <1>2, <3>2
      <4>2. rest \subseteq 1 .. k /\ rest \in SUBSET (1 .. n)
        <5> SUFFICES ASSUME NEW x \in s, x # Max(s) PROVE x \in 1 .. k
          OBVIOUS
        <5>1. x \in 1 .. k + 1 /\ Max(s) \in 1 .. k + 1 /\ x <= Max(s) /\ k \in Nat
          BY <1>5, <4>1
        <5> QED BY <5>1
      <4>3. f[rest] = g[rest]
        BY <2>1, <4>2
      <4> HIDE DEF g
      <4>4. body(g)[s] = release(g[rest], seq[Max(s)]) /\ body(f)[s] = release(f[rest], seq[Max(s)])
        BY <1>3, <3>2
      <4> QED BY <4>3, <4>4 DEF g
    <3> QED BY <3>1, <3>2
  <2>3. k + 1 \in Nat
    BY <1>5
  <2> HIDE DEF Upto, g
  <2> QED BY <2>2, <2>3
<1>6. n \in S
  <2> HIDE DEF S
  <2>1. S \subseteq Nat
    BY DEF S
  <2> QED BY <1>1, <1>4, <1>5, <2>1, Induction
<1>7. \E iter : iter = body(iter)
  <2>1. PICK f : Upto(n, f)
    BY <1>6
  <2> DEFINE iter == [s \in SUBSET (1 .. n) |-> f[s]]
  <2>2. \A s \in SUBSET (1 .. n) : iter[s] = body(iter)[s]
    <3> HIDE DEF n, body
    <3> TAKE s \in SUBSET (1 .. n)
    <3>1. f[s] = body(f)[s]
      BY <2>1
    <3>2. s \ {Max(s)} \in SUBSET (1 .. n)
      OBVIOUS
    <3>3. iter[s] = f[s] /\ iter[s \ {Max(s)}] = f[s \ {Max(s)}]
      BY <3>2
    <3> HIDE DEF iter
    <3> QED BY <1>3, <3>1, <3>3
  <2>3. iter = [s \in SUBSET (1 .. n) |-> iter[s]]
    OBVIOUS
  <2> HIDE DEF iter
  <2>4. body(iter) = [s \in SUBSET (1 .. n) |-> body(iter)[s]]
    BY <1>1
  <2> HIDE DEF body
  <2>5. iter = body(iter)
    BY <2>2, <2>3, <2>4
  <2> QED BY <2>5
<1>8. PICK iter : iter = body(iter) /\ r = iter[1 .. n]
  <2>1. \E iter : iter = body(iter) /\ r = iter[DOMAIN seq]
    BY <1>7 DEF Releases, FoldLeft, MapThenFoldSet
  <2> HIDE DEF r
  <2> QED BY <1>1, <2>1
<1> HIDE DEF r
<1> DEFINE run == [k \in 0 .. n |-> iter[1 .. k]]
<1>9. run[0] = h
  <2>1. 1 .. 0 = {} /\ 0 \in 0 .. n
    BY <1>1
  <2>2. iter[{}] = h
    BY <1>3, <1>8
  <2> HIDE DEF n, body
  <2> QED BY <2>1, <2>2
<1>10. run[n] = r
  <2>1. n \in 0 .. n
    BY <1>1
  <2> HIDE DEF n, body
  <2> QED BY <1>8, <2>1
<1>11. ASSUME NEW k \in 1 .. n PROVE run[k] = release(run[k - 1], seq[k])
  <2>1. k \in 0 .. n /\ k - 1 \in 0 .. n /\ 1 .. k \in SUBSET (1 .. n) /\ 1 .. k # {} /\ k \in Nat
    <3>1. n \in Nat
      BY <1>1
    <3> HIDE DEF n
    <3>2. k \in 1 .. k /\ k \in 0 .. n /\ k - 1 \in 0 .. n /\ 1 .. k \in SUBSET (1 .. n)
      BY <3>1
    <3>3. k \in Nat
      BY <3>1
    <3>4. 1 .. k # {}
      <4> DEFINE I == 1 .. k
      <4> HIDE DEF I
      <4>1. k \in I
        BY <3>2 DEF I
      <4>2. I # {}
        BY <4>1
      <4> QED BY <4>2 DEF I
    <3> QED BY <3>2, <3>3, <3>4
  <2>2. Max(1 .. k) = k /\ (1 .. k) \ {k} = 1 .. k - 1
    <3>1. k \in Nat \ {0}
      BY <1>1
    <3> QED BY <3>1, GreatestElement
  <2>3. iter[1 .. k] = release(iter[1 .. k - 1], seq[k])
    <3> HIDE DEF n, body
    <3>1. body(iter)[1 .. k] = release(iter[(1 .. k) \ {k}], seq[k])
      BY <1>3, <2>1, <2>2
    <3> QED BY <1>8, <2>2, <3>1
  <2> HIDE DEF n, body
  <2> QED BY <2>1, <2>3
<1> HIDE DEF run, n
<1> QED BY <1>9, <1>10, <1>11 DEF r, n

\* In the end nothing is in use.
LEMMA ReleaseTree ==
  ASSUME NEW u, NEW nodes, Grown(u, nodes, {})
  PROVE  LET r == release_tree(u)
         IN  r \in Trees /\ r.node = u.node /\ r.tree = u.tree /\ HeapHas(r.heap, {})
<1> DEFINE s == NodesBelow(u)[MAX_BITS][u.tree]
           n == Len(s)
           h == Releases(u.heap, s)
           r == release_tree(u)
           After(k) == nodes \ {s[j] : j \in 1 .. k}
<1>1. u \in Trees /\ Shape(u, nodes) /\ HeapHas(u.heap, nodes)
  BY DEF Grown, Shape
<1>2. s \in Seq(nodes) /\ IsInjective(s) /\ ToSet(s) = nodes
  BY <1>1, NodesReached
<1>3. r = [u EXCEPT !.heap = h]
  BY DEF release_tree, Releases
<1> HIDE DEF s
<1>4. PICK run : /\ run[0] = u.heap /\ run[n] = h
                 /\ \A k \in 1 .. n : run[k] = release(run[k - 1], s[k])
  <2>1. s \in Seq(nodes)
    BY <1>2
  <2>2. \E run : /\ run[0] = u.heap /\ run[Len(s)] = Releases(u.heap, s)
                 /\ \A k \in 1 .. Len(s) : run[k] = release(run[k - 1], s[k])
    BY ONLY <2>1, ReleasesRun
  <2> QED BY <2>2
<1> HIDE DEF h
<1>5. n \in Nat /\ DOMAIN s = 1 .. n
  BY <1>2, LenProperties
<1> DEFINE Done == {k \in 0 .. n : HeapHas(run[k], After(k))}
<1>6. 0 \in Done
  <2>1. 1 .. 0 = {} /\ 0 \in 0 .. n
    BY <1>5
  <2>2. After(0) = nodes
    BY <2>1
  <2> HIDE DEF After
  <2> QED BY <1>1, <1>4, <2>1, <2>2
<1>7. ASSUME NEW k \in 0 .. n - 1, k \in Done PROVE k + 1 \in Done
  <2>1. k + 1 \in 1 .. n /\ k + 1 \in 0 .. n /\ (k + 1) - 1 = k /\ k \in Nat
    BY <1>5
  <2>2. 1 .. k + 1 = (1 .. k) \cup {k + 1} /\ k + 1 \notin 1 .. k /\ 1 .. k \subseteq 1 .. n
    BY <1>5, <2>1
  <2>3. s[k + 1] \in After(k)
    <3>1. s[k + 1] \in nodes
      BY <1>2, <1>5, <2>1 DEF ToSet
    <3>2. \A j \in 1 .. k : s[j] # s[k + 1]
      BY <1>2, <1>5, <2>1, <2>2 DEF IsInjective
    <3> QED BY <3>1, <3>2
  <2>4. After(k + 1) = After(k) \ {s[k + 1]}
    BY <2>2
  <2>5. HeapHas(run[k], After(k)) /\ run[k + 1] = release(run[k], s[k + 1])
    BY <1>4, <1>7, <2>1
  <2> HIDE DEF After
  <2>6. HeapHas(run[k + 1], After(k + 1))
    BY <2>3, <2>4, <2>5, ReleaseNode
  <2> QED BY <2>1, <2>6
<1>8. n \in Done
  <2> HIDE DEF Done
  <2>1. 0 .. n \subseteq Done
    BY <1>5, <1>6, <1>7, BoundedInduction
  <2> QED BY <1>5, <2>1
<1>9. After(n) = {}
  BY <1>2, <1>5 DEF ToSet
<1>10. HeapHas(h, {})
  BY <1>4, <1>8, <1>9
<1>11. h \in Heaps
  BY <1>10, NodesInUse
<1>12. r = [heap |-> h, node |-> u.node, tree |-> u.tree]
  BY <1>1, <1>3, TreeParts
<1> HIDE DEF r
<1>13. r \in Trees /\ r.node = u.node /\ r.tree = u.tree /\ r.heap = h
  BY <1>1, <1>11, <1>12, TreeParts
<1> QED BY <1>10, <1>13 DEF r

-----------------------------------------------------------------------------
(***************************************************************************)
(* The content of a tree: the numbers in its leaves.                       *)
(***************************************************************************)

\* The numbers in the leaves of the tree u, in the order in which release_tree comes to
\* the leaves.
HeldBy(u, nptr) ==
  LET n == u.node[nptr]
      even == 2 * (n.number \div 2)
  IN  IF n.bit_pos > 1 THEN <<>>
      ELSE [i \in 1 .. n.zero |-> even] \o [i \in 1 .. n.one |-> even + 1]

Holding(u, seq) == FoldLeft(LAMBDA held, nptr : held \o HeldBy(u, nptr), <<>>, seq)

ContentOf(u) == ToBag(Holding(u, NodesBelow(u)[MAX_BITS][u.tree]))

\* The program's is its tree's.
LEMMA ContentDefined == Content = ContentOf(t)
BY Zenon DEF Content, Nodes, Held, ContentOf, Holding, HeldBy

\* The nodes' numbers, one node after the other.
LEMMA HoldingRun ==
  ASSUME NEW u, NEW nodes, NEW seq \in Seq(nodes)
  PROVE  \E run : /\ run[0] = <<>> /\ run[Len(seq)] = Holding(u, seq)
                  /\ \A k \in 1 .. Len(seq) : run[k] = run[k - 1] \o HeldBy(u, seq[k])
<1> DEFINE n == Len(seq)
           r == Holding(u, seq)
           none == <<>>
           body(iter) == [s \in SUBSET DOMAIN seq |->
                            IF s = {} THEN none ELSE (iter[s \ {Max(s)}] \o HeldBy(u, seq[Max(s)]))]
           Upto(k, iter) == \A s \in SUBSET (1 .. n) : s \subseteq 1 .. k => iter[s] = body(iter)[s]
           S == {k \in Nat : \E iter : Upto(k, iter)}
<1>1. n \in Nat /\ DOMAIN seq = 1 .. n
  BY LenProperties
<1>2. \A s \in SUBSET (1 .. n) : s # {} => Max(s) \in s /\ \A x \in s : x <= Max(s)
  BY <1>1, GreatestElement
<1>3. \A iter : \A s \in SUBSET (1 .. n) :
        body(iter)[s] = IF s = {} THEN none ELSE (iter[s \ {Max(s)}] \o HeldBy(u, seq[Max(s)]))
  BY <1>1
<1>4. 0 \in S
  <2>1. Upto(0, [s \in SUBSET (1 .. n) |-> none])
    <3>1. \A s \in SUBSET (1 .. n) : s \subseteq 1 .. 0 => s = {}
      OBVIOUS
    <3> HIDE DEF body, n
    <3> QED BY <1>3, <3>1
  <2> QED BY <2>1
<1>5. ASSUME NEW k \in S PROVE k + 1 \in S
  <2>1. PICK f : Upto(k, f)
    BY <1>5
  <2> DEFINE g == body(f)
  <2>2. Upto(k + 1, g)
    <3> HIDE DEF n, body
    <3> SUFFICES ASSUME NEW s \in SUBSET (1 .. n), s \subseteq 1 .. k + 1
                 PROVE  g[s] = body(g)[s]
      OBVIOUS
    <3>1. CASE s = {}
      BY <1>3, <3>1
    <3>2. CASE s # {}
      <4> DEFINE rest == s \ {Max(s)}
      <4>1. Max(s) \in s /\ \A x \in s : x <= Max(s)
        BY <1>2, <3>2
      <4>2. rest \subseteq 1 .. k /\ rest \in SUBSET (1 .. n)
        <5> SUFFICES ASSUME NEW x \in s, x # Max(s) PROVE x \in 1 .. k
          OBVIOUS
        <5>1. x \in 1 .. k + 1 /\ Max(s) \in 1 .. k + 1 /\ x <= Max(s) /\ k \in Nat
          BY <1>5, <4>1
        <5> QED BY <5>1
      <4>3. f[rest] = g[rest]
        BY <2>1, <4>2
      <4> HIDE DEF g
      <4>4. body(g)[s] = (g[rest] \o HeldBy(u, seq[Max(s)])) /\ body(f)[s] = (f[rest] \o HeldBy(u, seq[Max(s)]))
        BY <1>3, <3>2
      <4> QED BY <4>3, <4>4 DEF g
    <3> QED BY <3>1, <3>2
  <2>3. k + 1 \in Nat
    BY <1>5
  <2> HIDE DEF Upto, g
  <2> QED BY <2>2, <2>3
<1>6. n \in S
  <2> HIDE DEF S
  <2>1. S \subseteq Nat
    BY DEF S
  <2> QED BY <1>1, <1>4, <1>5, <2>1, Induction
<1>7. \E iter : iter = body(iter)
  <2>1. PICK f : Upto(n, f)
    BY <1>6
  <2> DEFINE iter == [s \in SUBSET (1 .. n) |-> f[s]]
  <2>2. \A s \in SUBSET (1 .. n) : iter[s] = body(iter)[s]
    <3> HIDE DEF n, body
    <3> TAKE s \in SUBSET (1 .. n)
    <3>1. f[s] = body(f)[s]
      BY <2>1
    <3>2. s \ {Max(s)} \in SUBSET (1 .. n)
      OBVIOUS
    <3>3. iter[s] = f[s] /\ iter[s \ {Max(s)}] = f[s \ {Max(s)}]
      BY <3>2
    <3> HIDE DEF iter
    <3> QED BY <1>3, <3>1, <3>3
  <2>3. iter = [s \in SUBSET (1 .. n) |-> iter[s]]
    OBVIOUS
  <2> HIDE DEF iter
  <2>4. body(iter) = [s \in SUBSET (1 .. n) |-> body(iter)[s]]
    BY <1>1
  <2> HIDE DEF body
  <2>5. iter = body(iter)
    BY <2>2, <2>3, <2>4
  <2> QED BY <2>5
<1>8. PICK iter : iter = body(iter) /\ r = iter[1 .. n]
  <2>1. \E iter : iter = body(iter) /\ r = iter[DOMAIN seq]
    BY <1>7 DEF Holding, FoldLeft, MapThenFoldSet
  <2> HIDE DEF r
  <2> QED BY <1>1, <2>1
<1> HIDE DEF r
<1> DEFINE run == [k \in 0 .. n |-> iter[1 .. k]]
<1>9. run[0] = none
  <2>1. 1 .. 0 = {} /\ 0 \in 0 .. n
    BY <1>1
  <2>2. iter[{}] = none
    BY <1>3, <1>8
  <2> HIDE DEF n, body
  <2> QED BY <2>1, <2>2
<1>10. run[n] = r
  <2>1. n \in 0 .. n
    BY <1>1
  <2> HIDE DEF n, body
  <2> QED BY <1>8, <2>1
<1>11. ASSUME NEW k \in 1 .. n PROVE run[k] = (run[k - 1] \o HeldBy(u, seq[k]))
  <2>1. k \in 0 .. n /\ k - 1 \in 0 .. n /\ 1 .. k \in SUBSET (1 .. n) /\ 1 .. k # {} /\ k \in Nat
    <3>1. n \in Nat
      BY <1>1
    <3> HIDE DEF n
    <3>2. k \in 1 .. k /\ k \in 0 .. n /\ k - 1 \in 0 .. n /\ 1 .. k \in SUBSET (1 .. n)
      BY <3>1
    <3>3. k \in Nat
      BY <3>1
    <3>4. 1 .. k # {}
      <4> DEFINE I == 1 .. k
      <4> HIDE DEF I
      <4>1. k \in I
        BY <3>2 DEF I
      <4>2. I # {}
        BY <4>1
      <4> QED BY <4>2 DEF I
    <3> QED BY <3>2, <3>3, <3>4
  <2>2. Max(1 .. k) = k /\ (1 .. k) \ {k} = 1 .. k - 1
    <3>1. k \in Nat \ {0}
      BY <1>1
    <3> QED BY <3>1, GreatestElement
  <2>3. iter[1 .. k] = (iter[1 .. k - 1] \o HeldBy(u, seq[k]))
    <3> HIDE DEF n, body
    <3>1. body(iter)[1 .. k] = (iter[(1 .. k) \ {k}] \o HeldBy(u, seq[k]))
      BY <1>3, <2>1, <2>2
    <3> QED BY <1>8, <2>2, <3>1
  <2> HIDE DEF n, body
  <2> QED BY <2>1, <2>3
<1> HIDE DEF run, n
<1> QED BY <1>9, <1>10, <1>11 DEF r, n

\* No number is in the empty sequence.
LEMMA NothingOccurs == \A a : Occurs(<<>>, a) = 0
<1> TAKE a
<1>1. {i \in DOMAIN <<>> : <<>>[i] = a} = {}
  OBVIOUS
<1> QED BY <1>1, FS_EmptySet DEF Occurs

\* A leaf's numbers are as many as it counts, another node has none.
LEMMA HeldOften ==
  ASSUME NEW u, NEW nodes, Shape(u, nodes), NEW m \in nodes
  PROVE  /\ HeldBy(u, m) \in Seq(Number)
         /\ \A a \in Number : Occurs(HeldBy(u, m), a)
              = IF m \in LeavesOfNumber(u, nodes, a) THEN u.node[m][Side(a, 1)] ELSE 0
<1> DEFINE n == u.node[m]
<1>1. n.bit_pos \in Nat /\ n.number \in Number /\ n.zero \in Nat /\ n.one \in Nat
  <2>1. n \in Node /\ n.bit_pos \in Nat /\ n.number \in Number
    BY NodeParts
  <2> QED BY <2>1 DEF Node
<1>2. CASE Interior(u, m)
  <2>1. HeldBy(u, m) = <<>>
    BY <1>2 DEF HeldBy, Interior
  <2>2. <<>> \in Seq(Number)
    BY EmptySeq
  <2>3. \A a : Occurs(<<>>, a) = 0
    BY NothingOccurs
  <2>4. \A a : m \notin LeavesOfNumber(u, nodes, a)
    BY <1>2 DEF LeavesOfNumber
  <2> QED BY <2>1, <2>2, <2>3, <2>4
<1>3. CASE ~Interior(u, m)
  <2> DEFINE number == n.number
             zeros == n.zero
             ones == n.one
             even == 2 * (number \div 2)
             new == [i \in 1 .. zeros |-> even] \o [i \in 1 .. ones |-> even + 1]
  <2>1. HeldBy(u, m) = new
    BY <1>3 DEF HeldBy, Interior
  <2> HIDE DEF number, zeros, ones
  <2>2. number \in Number /\ zeros \in Nat /\ ones \in Nat
    BY <1>1 DEF number, zeros, ones
  <2>3. /\ new \in Seq(Number) /\ Len(new) = zeros + ones
        /\ \A a \in Number : Occurs(new, a) = OfLeaf(number, zeros, ones, a)
        /\ \A i \in DOMAIN new : /\ Agree(number, new[i], 1)
                                 /\ new[i] = IF i <= zeros THEN even ELSE even + 1
        /\ \A i, j \in DOMAIN new : i <= j => new[i] <= new[j]
    BY <2>2, LeafNumbers
  <2> HIDE DEF new
  <2>4. \A a \in Number : OfLeaf(n.number, n.zero, n.one, a)
          = IF m \in LeavesOfNumber(u, nodes, a) THEN n[Side(a, 1)] ELSE 0
    <3> TAKE a \in Number
    <3>1. m \in LeavesOfNumber(u, nodes, a) <=> Agree(n.number, a, 1)
      BY <1>3 DEF LeavesOfNumber
    <3>2. Side(a, 1) = "zero" \/ Side(a, 1) = "one"
      BY DEF Side
    <3> HIDE DEF n
    <3> QED BY <3>1, <3>2 DEF OfLeaf
  <2> QED BY <2>1, <2>3, <2>4 DEF number, zeros, ones
<1> QED BY <1>2, <1>3

\* The numbers that a tree holds are as many as it counts.
LEMMA HoldingCounts ==
  ASSUME NEW u, NEW nodes, Shape(u, nodes), Parted(u, nodes)
  PROVE  LET held == Holding(u, NodesBelow(u)[MAX_BITS][u.tree])
         IN  /\ held \in Seq(Number)
             /\ \A a \in Number : Occurs(held, a) = Count(u, nodes, a)
<1> DEFINE seq == NodesBelow(u)[MAX_BITS][u.tree]
           n == Len(seq)
           held == Holding(u, seq)
<1>1. seq \in Seq(nodes) /\ IsInjective(seq) /\ ToSet(seq) = nodes
  BY NodesReached
<1> HIDE DEF seq
<1>2. n \in Nat /\ DOMAIN seq = 1 .. n
  BY <1>1, LenProperties
<1>3. PICK run : /\ run[0] = <<>> /\ run[n] = held
                 /\ \A k \in 1 .. n : run[k] = run[k - 1] \o HeldBy(u, seq[k])
  BY <1>1, HoldingRun
<1> HIDE DEF held
<1> DEFINE Leaves(a) == LeavesOfNumber(u, nodes, a)
           Known(k, a) == IF \E j \in 1 .. k : seq[j] \in Leaves(a) THEN Count(u, nodes, a) ELSE 0
           Done == {k \in 0 .. n : /\ run[k] \in Seq(Number)
                                   /\ \A a \in Number : Occurs(run[k], a) = Known(k, a)}
<1>4. \A a \in Number : \A l, m \in Leaves(a) : l = m
  <2> SUFFICES ASSUME NEW a \in Number, NEW l \in Leaves(a), NEW m \in Leaves(a) PROVE l = m
    OBVIOUS
  <2>1. /\ l \in nodes /\ ~Interior(u, l) /\ Agree(u.node[l].number, a, 1)
        /\ m \in nodes /\ ~Interior(u, m) /\ Agree(u.node[m].number, a, 1)
    BY DEF LeavesOfNumber
  <2>2. u.node[l].bit_pos = 1 /\ u.node[m].bit_pos = 1
    BY <2>1, NodeParts DEF Interior
  <2>3. Agree(u.node[l].number, u.node[m].number, 1)
    BY <2>1 DEF Agree
  <2> QED BY <2>1, <2>2, <2>3 DEF Parted
<1>5. 0 \in Done
  <2>1. <<>> \in Seq(Number)
    BY EmptySeq
  <2>2. \A a : Occurs(<<>>, a) = 0
    BY NothingOccurs
  <2>3. 1 .. 0 = {} /\ 0 \in 0 .. n
    BY <1>2
  <2>4. \A a : Known(0, a) = 0
    BY <2>3
  <2> HIDE DEF Known
  <2> QED BY <1>3, <2>1, <2>2, <2>3, <2>4
<1>6. ASSUME NEW k \in 0 .. n - 1, k \in Done PROVE k + 1 \in Done
  <2> DEFINE m == seq[k + 1]
             own == HeldBy(u, m)
  <2>1. k + 1 \in 1 .. n /\ k + 1 \in 0 .. n /\ (k + 1) - 1 = k /\ k \in Nat
    BY <1>2
  <2>2. 1 .. k + 1 = (1 .. k) \cup {k + 1} /\ k + 1 \notin 1 .. k /\ 1 .. k \subseteq 1 .. n
    BY <1>2, <2>1
  <2>3. m \in nodes
    BY <1>1, <1>2, <2>1 DEF ToSet
  <2>4. \A j \in 1 .. k : seq[j] # m
    BY <1>1, <1>2, <2>1, <2>2 DEF IsInjective
  <2>5. /\ own \in Seq(Number)
        /\ \A a \in Number : Occurs(own, a) = IF m \in Leaves(a) THEN u.node[m][Side(a, 1)] ELSE 0
    BY <2>3, HeldOften
  <2>6. /\ run[k] \in Seq(Number) /\ \A a \in Number : Occurs(run[k], a) = Known(k, a)
        /\ run[k + 1] = run[k] \o own
    BY <1>3, <1>6, <2>1
  <2> HIDE DEF own, m
  <2>7. run[k + 1] \in Seq(Number)
    BY <2>5, <2>6, ConcatProperties
  <2>8. run[k] \in Seq(Nat) /\ own \in Seq(Nat)
    BY <2>5, <2>6, NumbersAgree, SeqMonotonic
  <2>9. ASSUME NEW a \in Number PROVE Occurs(run[k + 1], a) = Known(k + 1, a)
    <3>1. Occurs(run[k + 1], a) = Occurs(run[k], a) + Occurs(own, a)
      BY <2>6, <2>8, OccursInBoth
    <3>2. Count(u, nodes, a) \in Nat /\ \A l \in Leaves(a) : Count(u, nodes, a) = u.node[l][Side(a, 1)]
      BY CountOfLeaf
    <3>3. Occurs(run[k], a) = Known(k, a)
      BY <2>6
    <3>4. Occurs(own, a) = IF m \in Leaves(a) THEN u.node[m][Side(a, 1)] ELSE 0
      BY <2>5
    <3> HIDE DEF Leaves
    <3>5. CASE m \in Leaves(a)
      <4>1. ~\E j \in 1 .. k : seq[j] \in Leaves(a)
        BY <1>4, <2>4, <3>5
      <4>2. Known(k, a) = 0 /\ Known(k + 1, a) = Count(u, nodes, a)
        BY <2>2, <3>5, <4>1 DEF m
      <4> QED BY <3>1, <3>2, <3>3, <3>4, <3>5, <4>2
    <3>6. CASE m \notin Leaves(a)
      <4>1. Known(k + 1, a) = Known(k, a) /\ Known(k, a) \in Nat
        BY <2>2, <3>2, <3>6 DEF m
      <4> HIDE DEF Known
      <4> QED BY <3>1, <3>3, <3>4, <3>6, <4>1
    <3> QED BY <3>5, <3>6
  <2> HIDE DEF Known
  <2> QED BY <2>1, <2>7, <2>9
<1>7. n \in Done
  <2> HIDE DEF Done
  <2>1. 0 .. n \subseteq Done
    BY <1>2, <1>5, <1>6, BoundedInduction
  <2> QED BY <1>2, <2>1
<1>8. \A a \in Number : Known(n, a) = Count(u, nodes, a)
  <2> TAKE a \in Number
  <2>1. CASE Leaves(a) = {}
    <3>1. Count(u, nodes, a) = 0
      BY <2>1, CountOfLeaf
    <3> QED BY <2>1, <3>1
  <2>2. CASE Leaves(a) # {}
    <3>1. PICK l \in nodes : l \in Leaves(a)
      BY <2>2 DEF LeavesOfNumber
    <3>2. PICK j \in 1 .. n : seq[j] = l
      BY <1>1, <1>2 DEF ToSet
    <3> QED BY <3>1, <3>2
  <2> QED BY <2>1, <2>2
<1> HIDE DEF Known
<1> QED BY <1>3, <1>7, <1>8 DEF held, seq

\* The bag of the numbers that a tree counts.
BagCounted(u, nodes) ==
  [a \in {b \in Number : Count(u, nodes, b) # 0} |-> Count(u, nodes, a)]

\* A sequence's bag has each number as often as it is there.
LEMMA BagOfNumbers ==
  ASSUME NEW s \in Seq(Number)
  PROVE  ToBag(s) = [a \in {b \in Number : Occurs(s, b) # 0} |-> Occurs(s, a)]
<1> DEFINE Some == {b \in Number : Occurs(s, b) # 0}
<1>1. Number \subseteq Nat
  BY NumbersAgree
<1>2. s \in Seq(Nat)
  BY <1>1, SeqMonotonic
<1>3. \A a : Occurs(s, a) # 0 <=> \E i \in DOMAIN s : s[i] = a
  BY <1>2, OccursSome
<1>4. \A i \in DOMAIN s : s[i] \in Number
  OBVIOUS
<1>5. Range(s) = Some
  BY <1>3, <1>4 DEF Range
<1>6. ToBag(s) = [a \in Range(s) |-> Occurs(s, a)]
  BY DEF ToBag, Occurs
<1> HIDE DEF Some
<1>7. ToBag(s) = [a \in Some |-> Occurs(s, a)]
  BY <1>5, <1>6
<1> QED BY <1>7 DEF Some

\* The content of a tree is what it counts.
LEMMA ContentCounted ==
  ASSUME NEW u, NEW nodes, Shape(u, nodes), Parted(u, nodes)
  PROVE  ContentOf(u) = BagCounted(u, nodes)
<1> DEFINE held == Holding(u, NodesBelow(u)[MAX_BITS][u.tree])
<1>1. held \in Seq(Number) /\ \A a \in Number : Occurs(held, a) = Count(u, nodes, a)
  BY HoldingCounts
<1>2. ContentOf(u) = ToBag(held)
  BY DEF ContentOf
<1> HIDE DEF held
<1> DEFINE Some == {b \in Number : Count(u, nodes, b) # 0}
<1>3. ToBag(held) = [a \in {b \in Number : Occurs(held, b) # 0} |-> Occurs(held, a)]
  BY <1>1, BagOfNumbers
<1>4. {b \in Number : Occurs(held, b) # 0} = Some
  BY <1>1
<1>5. \A a \in Some : Occurs(held, a) = Count(u, nodes, a)
  BY <1>1
<1>6. ToBag(held) = [a \in Some |-> Count(u, nodes, a)]
  BY <1>3, <1>4, <1>5
<1> QED BY <1>2, <1>6 DEF BagCounted

\* Trees that count alike have the same content.
LEMMA SameContent ==
  ASSUME NEW u, NEW nodes, NEW r, NEW kept, SameCounts(u, nodes, r, kept)
  PROVE  BagCounted(r, kept) = BagCounted(u, nodes)
<1>1. {b \in Number : Count(r, kept, b) # 0} = {b \in Number : Count(u, nodes, b) # 0}
  BY DEF SameCounts
<1> QED BY <1>1 DEF BagCounted, SameCounts

\* A number more of a tree is one more in the bag.
LEMMA OneMore ==
  ASSUME NEW u, NEW nodes, Shape(u, nodes), Parted(u, nodes), NEW r, NEW more,
         NEW number \in Number, OnceMore(u, nodes, r, more, number)
  PROVE  BagCounted(r, more) = BagCounted(u, nodes) (+) SetToBag({number})
<1> DEFINE A == BagCounted(u, nodes)
           B == SetToBag({number})
           C == BagCounted(r, more)
           Some == {b \in Number : Count(u, nodes, b) # 0}
           Then == {b \in Number : Count(r, more, b) # 0}
<1>1. \A a \in Number : /\ Count(u, nodes, a) \in Nat
                        /\ Count(r, more, a) = Count(u, nodes, a) + (IF a = number THEN 1 ELSE 0)
  BY CountOfLeaf DEF OnceMore
<1>2. DOMAIN A = Some /\ \A a \in Some : A[a] = Count(u, nodes, a)
  BY DEF BagCounted
<1>3. C = [a \in Then |-> Count(r, more, a)]
  BY DEF BagCounted
<1>4. DOMAIN B = {number} /\ B[number] = 1
  BY DEF SetToBag
<1>5. A (+) B = [a \in (DOMAIN A) \cup (DOMAIN B) |->
                   (IF a \in DOMAIN A THEN A[a] ELSE 0) + (IF a \in DOMAIN B THEN B[a] ELSE 0)]
  BY DEF (+)
<1> HIDE DEF A, B, C
<1>6. (DOMAIN A) \cup (DOMAIN B) = Then
  BY <1>1, <1>2, <1>4
<1>7. ASSUME NEW a \in Then
      PROVE  (IF a \in DOMAIN A THEN A[a] ELSE 0) + (IF a \in DOMAIN B THEN B[a] ELSE 0)
               = Count(r, more, a)
  <2>1. (IF a \in DOMAIN A THEN A[a] ELSE 0) = Count(u, nodes, a)
    BY <1>2
  <2>2. (IF a \in DOMAIN B THEN B[a] ELSE 0) = IF a = number THEN 1 ELSE 0
    BY <1>4
  <2> QED BY <1>1, <2>1, <2>2
<1> HIDE DEF Then, Some
<1>8. A (+) B = [a \in Then |-> Count(r, more, a)]
  BY <1>5, <1>6, <1>7
<1> QED BY <1>3, <1>8 DEF A, B, C

\* The numbers taken and those that are left are what there was.
LEMMA TakenAndLeft ==
  ASSUME NEW u, NEW nodes, NEW r, NEW kept, Shape(r, kept), Parted(r, kept), NEW new,
         SmallestOf(u, nodes, r, kept, new)
  PROVE  BagCounted(u, nodes) = BagCounted(r, kept) (+) ToBag(new)
<1> DEFINE A == BagCounted(r, kept)
           B == ToBag(new)
           C == BagCounted(u, nodes)
           Rest == {b \in Number : Count(r, kept, b) # 0}
           Some == {b \in Number : Occurs(new, b) # 0}
           All == {b \in Number : Count(u, nodes, b) # 0}
<1>1. new \in Seq(Number)
  BY DEF SmallestOf
<1>2. \A a \in Number : /\ Count(r, kept, a) \in Nat /\ Occurs(new, a) \in Nat
                        /\ Count(u, nodes, a) = Count(r, kept, a) + Occurs(new, a)
  <2>1. Number \subseteq Nat
    BY NumbersAgree
  <2>2. new \in Seq(Nat)
    BY <1>1, <2>1, SeqMonotonic
  <2>3. \A a : Occurs(new, a) \in Nat
    BY <2>2, OccursInBoth
  <2> QED BY <2>3, CountOfLeaf DEF SmallestOf
<1>3. DOMAIN A = Rest /\ \A a \in Rest : A[a] = Count(r, kept, a)
  BY DEF BagCounted
<1>4. C = [a \in All |-> Count(u, nodes, a)]
  BY DEF BagCounted
<1>5. DOMAIN B = Some /\ \A a \in Some : B[a] = Occurs(new, a)
  BY <1>1, BagOfNumbers
<1>6. A (+) B = [a \in (DOMAIN A) \cup (DOMAIN B) |->
                   (IF a \in DOMAIN A THEN A[a] ELSE 0) + (IF a \in DOMAIN B THEN B[a] ELSE 0)]
  BY DEF (+)
<1> HIDE DEF A, B, C
<1>7. (DOMAIN A) \cup (DOMAIN B) = All
  BY <1>2, <1>3, <1>5
<1>8. ASSUME NEW a \in All
      PROVE  (IF a \in DOMAIN A THEN A[a] ELSE 0) + (IF a \in DOMAIN B THEN B[a] ELSE 0)
               = Count(u, nodes, a)
  <2>1. (IF a \in DOMAIN A THEN A[a] ELSE 0) = Count(r, kept, a)
    BY <1>3
  <2>2. (IF a \in DOMAIN B THEN B[a] ELSE 0) = Occurs(new, a)
    BY <1>5
  <2> QED BY <1>2, <2>1, <2>2
<1> HIDE DEF Rest, Some, All
<1>9. A (+) B = [a \in All |-> Count(u, nodes, a)]
  BY <1>6, <1>7, <1>8
<1> QED BY <1>4, <1>9 DEF A, B, C

-----------------------------------------------------------------------------
(***************************************************************************)
(* The inductive invariant of radix.c.                                     *)
(***************************************************************************)

\* The nodes form a tree until it is released; a request that is being served is not
\* fulfilled, and otherwise nothing is asked for; nothing has arrived before it is read.
RadixInv ==
  /\ RadixTypeOK
  /\ t \in Trees
  /\ IF phase = "done" THEN HeapHas(t.heap, {}) ELSE \E nodes : Grown(t, nodes, {})
  /\ phase \in {"open_input", "open_output"} => out_file = 0
  /\ phase = "take" => limit > 0
  /\ phase \in {"take", "write"} \/ limit <= 0
  /\ phase \in {"usage", "open_input", "open_output", "read"} => numbers = <<>>
  /\ read \in Nat

\* It holds in the states in which nodes are the tree's.
LEMMA InvStates ==
  ASSUME RadixTypeOK, t \in Trees, NEW nodes, Grown(t, nodes, {}), phase # "done",
         phase \in {"open_input", "open_output"} => out_file = 0,
         phase = "take" => limit > 0, phase \in {"take", "write"} \/ limit <= 0,
         phase \in {"usage", "open_input", "open_output", "read"} => numbers = <<>>,
         read \in Nat
  PROVE  RadixInv
BY DEF RadixInv

\* The tree is empty at the start.
LEMMA NoTree ==
  ASSUME RadixInit
  PROVE  Grown(t, {}, {})
<1>1. NoNode \in Node
  <2>1. MAX_BITS \in Nat \ {0}
    BY HighestLevel
  <2> HIDE DEF MAX_BITS
  <2>2. 0 \in Number
    BY <2>1 DEF Number
  <2> QED BY <2>2, RadixTreeAssumption DEF NoNode, Node
<1> DEFINE f == [nptr \in NodeAddr |-> NoNode]
<1>2. f \in [NodeAddr -> Node]
  BY <1>1
<1>3. HeapHas(init_heap, {}) /\ init_heap \in Heaps
  BY NoNodes, NodesInUse
<1> HIDE DEF f
<1>4. t = [heap |-> init_heap, node |-> f, tree |-> NULL]
  BY DEF RadixInit, EmptyTree, f
<1>5. t \in Trees /\ t.heap = init_heap /\ t.node = f /\ t.tree = NULL
  BY <1>2, <1>3, <1>4 DEF Trees
<1>6. PointersOf(t, {}) = {Global} /\ PointerAt(t, Global) = NULL
  BY <1>5 DEF PointersOf, PointerAt
<1> QED BY <1>3, <1>5, <1>6 DEF Grown, Shape, Full, Parted

\* The invariant holds then.
LEMMA RadixInitInv ==
  ASSUME RadixInit
  PROVE  RadixInv
<1>1. Grown(t, {}, {}) /\ t \in Trees
  BY NoTree DEF Grown, Shape
<1>2. t.heap \in Heaps /\ t.node \in [NodeAddr -> Node] /\ t.tree \in NodeAddr \cup {NULL}
  BY <1>1, TreeParts
<1>3. RadixTypeOK
  <2>1. MAX_BITS \in Nat \ {0}
    BY HighestLevel
  <2> HIDE DEF MAX_BITS
  <2>2. limit \in -2 * MAX_BITS .. 2 * MAX_BITS - 1
    BY <2>1 DEF RadixInit
  <2>3. \A S : <<>> \in Seq(S)
    BY EmptySeq
  <2>4. {in_file, out_file} \subseteq {0, InHandle, OutHandle, Failed} /\ open = {in_file, out_file} \ {0, Failed}
    BY DEF RadixInit
  <2> QED BY <1>2, <2>2, <2>3, <2>4 DEF RadixInit, RadixTypeOK
<1>4. /\ phase # "done" /\ phase # "take" /\ out_file = 0 /\ read \in Nat /\ limit <= 0
      /\ numbers = <<>>
  BY DEF RadixInit
<1> QED BY <1>1, <1>3, <1>4, InvStates

\* Numbers of the file: those that are kept, and what is asked for by the others.
LEMMA NumbersOfFile ==
  ASSUME NEW number \in Numbers
  PROVE  /\ number >= 0 => number \in Number
         /\ number < 0 => Negated(number) \in -2 * MAX_BITS .. 2 * MAX_BITS - 1
<1>1. MAX_BITS \in Nat \ {0} /\ number \in -2 * MAX_BITS .. 2 * MAX_BITS - 1
  BY HighestLevel, RadixAssumption
<1> HIDE DEF MAX_BITS
<1>2. number \in Int /\ -2 * MAX_BITS <= number /\ number <= 2 * MAX_BITS - 1
  BY <1>1
<1>3. number >= 0 => number \in Number
  BY <1>1, <1>2 DEF Number
<1>4. number < 0 => Negated(number) \in -2 * MAX_BITS .. 2 * MAX_BITS - 1
  BY <1>1, <1>2 DEF Negated
<1> QED BY <1>3, <1>4

\* What a write that takes so many does.
Writes(written) ==
  /\ to_write' = to_write - written
  /\ output' = output \o InBuffer(written)
  /\ cut' = (cut \/ written < to_write)
  /\ failures' = IF written = Failed THEN failures + 1 ELSE failures

LEMMA WriteOf ==
  ASSUME Write
  PROVE  /\ to_write > 0
         /\ \E written \in write_int_buffer(out_file, to_write) : Writes(written)
BY DEF Write, Writes

\* A write fails, or takes a part of what it is given.
LEMMA WritesTyped ==
  ASSUME RadixTypeOK, NEW written \in write_int_buffer(out_file, to_write), Writes(written)
  PROVE  /\ written = -1 \/ written \in 0 .. to_write
         /\ to_write' \in Nat /\ output' \in Seq(Number \cup {Stale})
         /\ InBuffer(written) \in Seq(Number \cup {Stale})
         /\ Len(InBuffer(written)) = IF written = -1 THEN 0 ELSE written
<1>1. /\ out_numbers \in Seq(Number) /\ output \in Seq(Number \cup {Stale})
      /\ to_write \in Nat
  BY DEF RadixTypeOK
<1>2. /\ to_write' = to_write - written /\ output' = output \o InBuffer(written)
  BY DEF Writes
<1>3. written = -1 \/ written \in 0 .. to_write
  BY DEF write_int_buffer, Failed
<1> DEFINE size == IF written = -1 THEN 0 ELSE written
<1>4. size \in Nat /\ 1 .. written = 1 .. size
  BY <1>1, <1>3
<1>5. \A k \in 1 .. size :
        (IF k <= Len(out_numbers) THEN out_numbers[k] ELSE Stale) \in Number \cup {Stale}
  BY <1>1, <1>4
<1>6. InBuffer(written) =
        [k \in 1 .. size |-> IF k <= Len(out_numbers) THEN out_numbers[k] ELSE Stale]
  BY <1>4 DEF InBuffer
<1> HIDE DEF size
<1>7. InBuffer(written) \in Seq(Number \cup {Stale}) /\ Len(InBuffer(written)) = size
  BY <1>4, <1>5, <1>6
<1>8. to_write' \in Nat
  BY <1>1, <1>2, <1>3
<1>9. output' \in Seq(Number \cup {Stale})
  BY <1>1, <1>2, <1>7, ConcatProperties
<1> QED BY <1>3, <1>7, <1>8, <1>9 DEF size

\* The steps that leave the tree alone.
LEMMA OtherSteps ==
  ASSUME RadixInv,
         \/ Usage \/ FilesUnsupported \/ OpenInput \/ OpenOutput \/ Read \/ EndOfBatch
         \/ Request \/ Write \/ Written \/ UNCHANGED radixVars
  PROVE  RadixInv'
<1>1. RadixTypeOK /\ t \in Trees
  BY DEF RadixInv
<1>2. CASE UNCHANGED radixVars
  BY <1>2 DEF radixVars, store, writes, RadixInv, RadixTypeOK
<1> SUFFICES ASSUME ~UNCHANGED radixVars PROVE RadixInv'
  BY <1>2
<1>3. t' = t /\ phase # "done" /\ phase' # "done"
  BY <1>1 DEF Usage, FilesUnsupported, OpenInput, OpenOutput, Read, EndOfBatch, Request,
              Write, Written, store, RadixTypeOK
<1>4. PICK nodes : Grown(t, nodes, {})
  BY <1>3 DEF RadixInv
<1>5. t' \in Trees /\ Grown(t', nodes, {})
  BY <1>1, <1>3, <1>4
<1>6. /\ t.heap \in Heaps /\ t.node \in [NodeAddr -> Node] /\ t.tree \in NodeAddr \cup {NULL}
  BY <1>1 DEF RadixTypeOK
<1> DEFINE Rest == /\ RadixTypeOK
                   /\ phase \in {"open_input", "open_output"} => out_file = 0
                   /\ phase = "take" => limit > 0
                   /\ phase \in {"take", "write"} \/ limit <= 0
                   /\ phase \in {"usage", "open_input", "open_output", "read"} => numbers = <<>>
                   /\ read \in Nat
<1>7. Rest
  BY DEF RadixInv
<1>8. limit \in Int /\ (~(limit > 0) => limit <= 0)
  <2>1. MAX_BITS \in Nat
    BY HighestLevel
  <2> HIDE DEF MAX_BITS
  <2> QED BY <1>1, <2>1 DEF RadixTypeOK
<1>9. phase \notin {"take", "write"} => limit <= 0
  BY <1>7
<1>10. CASE Usage \/ FilesUnsupported \/ EndOfBatch \/ Written
  <2>1. Rest'
    <3>1. UNCHANGED <<in_file, out_file, open, store>>
      BY <1>10 DEF Usage, FilesUnsupported, EndOfBatch, Written
    <3>2. /\ phase' \in {"stopped", "read", "process", "take"}
          /\ phase' = "take" => limit > 0
          /\ phase' = "take" \/ limit <= 0
          /\ phase' = "read" => numbers = <<>>
      BY <1>8, <1>10, <1>9 DEF Usage, FilesUnsupported, EndOfBatch, Written
    <3> QED BY <1>7, <3>1, <3>2 DEF RadixTypeOK, store, writes
  <2> QED BY <1>3, <1>5, <2>1 DEF RadixInv
<1>11. CASE OpenInput
  <2>1. Rest'
    <3>1. /\ in_file' \in {InHandle, Failed} /\ open' = {in_file'} \ {Failed}
          /\ UNCHANGED <<out_file, store>> /\ phase' = "open_output" /\ out_file = 0
          /\ limit <= 0 /\ numbers = <<>>
      BY <1>7, <1>11, <1>9 DEF OpenInput, open_file
    <3>2. /\ {in_file', out_file'} \subseteq {0, InHandle, OutHandle, Failed}
          /\ open' = {in_file', out_file'} \ {0, Failed}
      BY <3>1 DEF InHandle, OutHandle, Failed
    <3> QED BY <1>7, <3>1, <3>2 DEF RadixTypeOK, store, writes
  <2> QED BY <1>3, <1>5, <2>1 DEF RadixInv
<1>12. CASE OpenOutput
  <2>1. Rest'
    <3>1. /\ out_file' \in {OutHandle, Failed} /\ open' = open \cup ({out_file'} \ {Failed})
          /\ UNCHANGED <<in_file, store>> /\ phase' = "read" /\ out_file = 0
          /\ limit <= 0 /\ numbers = <<>>
      BY <1>7, <1>12, <1>9 DEF OpenOutput, open_file
    <3>2. /\ {in_file', out_file'} \subseteq {0, InHandle, OutHandle, Failed}
          /\ open' = {in_file', out_file'} \ {0, Failed}
      BY <1>1, <3>1 DEF InHandle, OutHandle, Failed, RadixTypeOK
    <3> QED BY <1>7, <3>1, <3>2 DEF RadixTypeOK, store, writes
  <2> QED BY <1>3, <1>5, <2>1 DEF RadixInv
<1>13. CASE Read
  <2>1. Rest'
    <3>1. numbers' \in Seq(Numbers)
      <4>1. CASE in_file = Failed
        BY <1>13, <4>1, EmptySeq DEF Read, read_int_buffer
      <4>2. CASE in_file # Failed
        <5>1. PICK count \in 0 .. ReadMax : numbers' \in [1 .. count -> Numbers]
          BY <1>13, <4>2 DEF Read, read_int_buffer
        <5>2. count \in Nat
          BY RadixAssumption
        <5> QED BY <5>1, <5>2
      <4> QED BY <4>1, <4>2
    <3>2. /\ UNCHANGED <<in_file, out_file, open, t, limit, out_numbers, to_write, output, taken,
                          cut, failures>>
          /\ phase' \in {"close", "process"} /\ limit <= 0
      BY <1>13, <1>9 DEF Read, writes
    <3>3. read' \in Nat
      <4>1. read' = read + Len(numbers') /\ Len(numbers') \in Nat
        BY <1>13, <3>1, LenProperties DEF Read
      <4> QED BY <1>7, <4>1
    <3> QED BY <1>7, <3>1, <3>2, <3>3 DEF RadixTypeOK
  <2> QED BY <1>3, <1>5, <2>1 DEF RadixInv
<1>14. CASE Request
  <2>1. Rest'
    <3>1. /\ numbers # <<>> /\ Head(numbers) < 0 /\ limit' = Negated(Head(numbers))
          /\ numbers' = Tail(numbers) /\ phase' = IF limit' > 0 THEN "take" ELSE "process"
          /\ UNCHANGED <<in_file, out_file, open, t, out_numbers, to_write, output, taken, read,
                          cut, failures>>
      BY <1>14 DEF Request, writes
    <3>2. numbers \in Seq(Numbers) /\ Head(numbers) \in Numbers /\ Tail(numbers) \in Seq(Numbers)
      BY <1>1, <3>1 DEF RadixTypeOK
    <3>3. limit' \in -2 * MAX_BITS .. 2 * MAX_BITS - 1
      BY <3>1, <3>2, NumbersOfFile
    <3>4. ~(limit' > 0) => limit' <= 0
      <4>1. MAX_BITS \in Nat
        BY HighestLevel
      <4> HIDE DEF MAX_BITS
      <4> QED BY <3>3, <4>1
    <3> QED BY <1>7, <3>1, <3>2, <3>3, <3>4 DEF RadixTypeOK
  <2> QED BY <1>3, <1>5, <2>1 DEF RadixInv
<1>15. CASE Write
  <2>1. PICK written \in write_int_buffer(out_file, to_write) : Writes(written)
    BY <1>15, WriteOf
  <2>2. to_write' \in Nat /\ output' \in Seq(Number \cup {Stale})
    BY <1>1, <2>1, WritesTyped
  <2>3. cut' \in BOOLEAN /\ failures' \in Nat
    BY <1>1, <2>1 DEF Writes, RadixTypeOK
  <2>4. /\ phase = "write"
        /\ UNCHANGED <<phase, in_file, out_file, open, t, numbers, limit, out_numbers, taken, read>>
    BY <1>15 DEF Write
  <2>5. Rest'
    BY <1>7, <2>2, <2>3, <2>4 DEF RadixTypeOK
  <2> QED BY <1>3, <1>5, <2>5 DEF RadixInv
<1> QED BY <1>10, <1>11, <1>12, <1>13, <1>14, <1>15

\* The steps on the tree.
LEMMA TreeSteps ==
  ASSUME RadixInv, Add \/ Take \/ Close
  PROVE  RadixInv'
<1>1. RadixTypeOK /\ t \in Trees /\ phase # "done"
  BY DEF RadixInv, Add, Take, Close
<1>2. PICK nodes : Grown(t, nodes, {})
  BY <1>1 DEF RadixInv
<1>3. /\ phase = "take" => limit > 0
      /\ phase \in {"take", "write"} \/ limit <= 0
      /\ read \in Nat
  BY DEF RadixInv
<1>4. CASE Add
  <2>1. /\ phase = "process" /\ numbers # <<>> /\ Head(numbers) >= 0
        /\ HasRoom(t.heap, NodeSize) /\ t' = add_number(t, Head(numbers))
        /\ numbers' = Tail(numbers)
        /\ UNCHANGED <<phase, in_file, out_file, open, limit, out_numbers, to_write, output, taken,
                       read, cut, failures>>
    BY <1>4 DEF Add, writes
  <2>2. numbers \in Seq(Numbers) /\ Head(numbers) \in Numbers /\ Tail(numbers) \in Seq(Numbers)
    BY <1>1, <2>1 DEF RadixTypeOK
  <2>3. Head(numbers) \in Number
    BY <2>1, <2>2, NumbersOfFile
  <2>4. PICK more : Grown(t', more, {})
    BY <1>2, <2>1, <2>3, AddNumber
  <2>5. t' \in Trees
    BY <2>4 DEF Grown, Shape
  <2>6. t'.heap \in Heaps /\ t'.node \in [NodeAddr -> Node] /\ t'.tree \in NodeAddr \cup {NULL}
    BY <2>5, TreeParts
  <2>7. RadixTypeOK'
    BY <1>1, <2>1, <2>2, <2>6 DEF RadixTypeOK
  <2> QED BY <1>3, <2>1, <2>4, <2>5, <2>7 DEF RadixInv
<1>5. CASE Take
  <2> DEFINE result == take_numbers(t, AtMost(limit, BatchMax))
             count == Len(result.buffer)
  <2>1. /\ phase = "take" /\ t' = result.t /\ out_numbers' = result.buffer /\ to_write' = count
        /\ taken' = taken \o result.buffer /\ limit' = StillWanted(count) /\ phase' = "write"
        /\ UNCHANGED <<in_file, out_file, open, numbers, output, read, cut, failures>>
    BY <1>5 DEF Take, ToWrite, writes
  <2>2. /\ limit \in Nat /\ limit > 0 /\ limit \in -2 * MAX_BITS .. 2 * MAX_BITS - 1
        /\ MAX_BITS \in Nat \ {0}
    <3>1. MAX_BITS \in Nat \ {0}
      BY HighestLevel
    <3> HIDE DEF MAX_BITS
    <3> QED BY <1>1, <1>3, <2>1, <3>1 DEF RadixTypeOK
  <2>3. AtMost(limit, BatchMax) \in Nat /\ AtMost(limit, BatchMax) <= limit
    BY <2>2, RadixAssumption DEF AtMost
  <2>4. /\ result.t \in Trees /\ result.buffer \in Seq(Number)
        /\ Len(result.buffer) <= AtMost(limit, BatchMax)
        /\ \E kept : Grown(result.t, kept, {})
    BY <1>2, <2>3, TakeNumbers
  <2> HIDE DEF result
  <2>5. count \in Nat /\ count <= limit
    BY <2>2, <2>3, <2>4
  <2> HIDE DEF count
  <2>6. limit' \in -2 * MAX_BITS .. 2 * MAX_BITS - 1
    <3> HIDE DEF MAX_BITS
    <3>1. limit' \in Nat /\ limit' <= limit
      BY <2>1, <2>2, <2>5 DEF StillWanted
    <3> QED BY <2>2, <3>1
  <2>7. t'.heap \in Heaps /\ t'.node \in [NodeAddr -> Node] /\ t'.tree \in NodeAddr \cup {NULL}
    BY <2>1, <2>4, TreeParts
  <2>8. taken' \in Seq(Number)
    BY <1>1, <2>1, <2>4, ConcatProperties DEF RadixTypeOK
  <2>9. RadixTypeOK'
    BY <1>1, <2>1, <2>4, <2>5, <2>6, <2>7, <2>8 DEF RadixTypeOK
  <2> QED BY <1>3, <2>1, <2>4, <2>9 DEF RadixInv
<1>6. CASE Close
  <2>1. /\ open' = open /\ t' = release_tree(t) /\ phase' = "done"
        /\ UNCHANGED <<in_file, out_file, numbers, limit, out_numbers, to_write, output, taken, read,
                        cut, failures>>
        /\ limit <= 0
    BY <1>3, <1>6 DEF Close, close_file, writes
  <2>2. t' \in Trees /\ HeapHas(t'.heap, {})
    BY <1>2, <2>1, ReleaseTree
  <2>3. t'.heap \in Heaps /\ t'.node \in [NodeAddr -> Node] /\ t'.tree \in NodeAddr \cup {NULL}
    BY <2>2, TreeParts
  <2>4. RadixTypeOK'
    BY <1>1, <2>1, <2>3 DEF RadixTypeOK
  <2> QED BY <1>3, <2>1, <2>2, <2>4 DEF RadixInv
<1> QED BY <1>4, <1>5, <1>6

\* Every step keeps the invariant.
LEMMA RadixStepInv ==
  ASSUME RadixInv, [RadixNext]_radixVars
  PROVE  RadixInv'
BY OtherSteps, TreeSteps DEF RadixNext

\* radix.c: the tree, its files, buffers and counters stay of their types for every
\* input: a pointer of the tree is a node's or none, what is written are numbers that
\* were taken, and no more is asked for than an int holds.
THEOREM RadixTypes == RadixSpec => []RadixTypeOK
<1>1. RadixInit => RadixInv
  BY RadixInitInv
<1>2. RadixInv /\ [RadixNext]_radixVars => RadixInv'
  BY RadixStepInv
<1>3. RadixInv => RadixTypeOK
  BY DEF RadixInv
<1> QED BY <1>1, <1>2, <1>3, PTL DEF RadixSpec

\* What the invariant says of the nodes is what NodesAreBlocksInUse says of the blocks.
LEMMA InvBlocks ==
  ASSUME RadixInv
  PROVE  NodesAreBlocksInUse
<1>1. CASE phase = "done"
  <2>1. HeapHas(t.heap, {})
    BY <1>1 DEF RadixInv
  <2>2. FreeBlocks = Blocks \ {nptr - Header : nptr \in {}}
    BY <2>1, FreeBlocksOfTree
  <2> QED BY <1>1, <2>2 DEF NodesAreBlocksInUse
<1>2. CASE phase # "done"
  <2>1. PICK nodes : Grown(t, nodes, {})
    BY <1>2 DEF RadixInv
  <2>2. IsInjective(Nodes) /\ ToSet(Nodes) = nodes
    BY <2>1, NodesReached DEF Grown, Nodes
  <2>3. /\ FreeBlocks = Blocks \ {nptr - Header : nptr \in nodes}
        /\ {nptr - Header : nptr \in nodes} \subseteq Blocks
    BY <2>1, FreeBlocksOfTree DEF Grown
  <2>4. {nptr - Header : nptr \in nodes} = Blocks \ FreeBlocks
    BY <2>3
  <2>5. \A nptr \in nodes : ~Empty(nptr)
    BY <2>1 DEF Grown, Full, Empty
  <2> QED BY <1>2, <2>2, <2>4, <2>5 DEF NodesAreBlocksInUse
<1> QED BY <1>1, <1>2

\* radix.c: for every file of numbers, whatever was added and taken before, the nodes
\* that the tree reaches are the allocator's blocks in use, each reached once and none
\* of them empty, and in the end every block is free again.
THEOREM NodesInUseAreReached == RadixSpec => []NodesAreBlocksInUse
<1>1. RadixInit => RadixInv
  BY RadixInitInv
<1>2. RadixInv /\ [RadixNext]_radixVars => RadixInv'
  BY RadixStepInv
<1>3. RadixInv => NodesAreBlocksInUse
  BY InvBlocks
<1> QED BY <1>1, <1>2, <1>3, PTL DEF RadixSpec

\* Each step is nearer to the end than the one before, in the first place in which
\* they differ.
LEMMA StepsLeaveLess ==
  ASSUME RadixInv, RadixNext
  PROVE  \/ \E k \in DOMAIN Left : Left'[k] < Left[k] /\ \A l \in 1 .. k - 1 : Left'[l] = Left[l]
         \/ NothingWritten
<1> DEFINE Wanted == IF limit > 0 THEN limit ELSE 0
           Place == CASE phase = "open_input" -> 5 [] phase = "open_output" -> 4
                      [] phase = "write" -> 3 [] phase \in {"take", "process"} -> 2
                      [] phase = "read" -> 1 [] phase \in {"usage", "close"} -> 0
                      [] phase \in {"done", "stopped"} -> -1
           Nearer == \E k \in DOMAIN Left : Left'[k] < Left[k] /\ \A l \in 1 .. k - 1 : Left'[l] = Left[l]
<1>1. /\ read \in Nat /\ numbers \in Seq(Numbers) /\ Len(numbers) \in Nat /\ limit \in Int
      /\ to_write \in Nat /\ MaxNumbers \in Nat
  <2>1. MAX_BITS \in Nat
    BY HighestLevel
  <2> HIDE DEF MAX_BITS
  <2> QED BY <2>1, RadixAssumption DEF RadixInv, RadixTypeOK
<1>2. DOMAIN Left = 1 .. 5
  BY DEF Left
<1>3. /\ Left[1] = MaxNumbers - read /\ Left[2] = Len(numbers) /\ Left[3] = Wanted
      /\ Left[4] = to_write /\ Left[5] = Place
  BY DEF Left
<1>4. /\ Left'[1] = MaxNumbers - read' /\ Left'[2] = Len(numbers') /\ Left'[3] = Wanted'
      /\ Left'[4] = to_write' /\ Left'[5] = Place'
  BY DEF Left
<1> HIDE DEF Left
<1>5. Left'[1] < Left[1] => Nearer
  BY <1>2
<1>6. Left'[1] = Left[1] /\ Left'[2] < Left[2] => Nearer
  BY <1>2
<1>7. Left'[1] = Left[1] /\ Left'[2] = Left[2] /\ Left'[3] < Left[3] => Nearer
  BY <1>2
<1>8. Left'[1] = Left[1] /\ Left'[2] = Left[2] /\ Left'[3] = Left[3] /\ Left'[4] < Left[4] => Nearer
  BY <1>2
<1>9. Left'[1] = Left[1] /\ Left'[2] = Left[2] /\ Left'[3] = Left[3] /\ Left'[4] = Left[4]
        /\ Left'[5] < Left[5] => Nearer
  BY <1>2
<1> SUFFICES Nearer \/ NothingWritten
  OBVIOUS
<1> HIDE DEF Nearer
<1> USE DEF store, writes
<1>10. CASE Usage \/ FilesUnsupported
  <2>1. phase \in {"usage", "open_input"} /\ phase' = "stopped" /\ UNCHANGED store
    BY <1>10 DEF Usage, FilesUnsupported
  <2>2. Place \in {0, 5} /\ Place' = -1
    BY <2>1
  <2> QED BY <1>3, <1>4, <1>9, <2>1, <2>2
<1>11. CASE OpenInput
  <2>1. phase = "open_input" /\ phase' = "open_output" /\ UNCHANGED store
    BY <1>11 DEF OpenInput
  <2>2. Place = 5 /\ Place' = 4
    BY <2>1
  <2> QED BY <1>3, <1>4, <1>9, <2>1, <2>2
<1>12. CASE OpenOutput
  <2>1. phase = "open_output" /\ phase' = "read" /\ UNCHANGED store
    BY <1>12 DEF OpenOutput
  <2>2. Place = 4 /\ Place' = 1
    BY <2>1
  <2> QED BY <1>3, <1>4, <1>9, <2>1, <2>2
<1>13. CASE Read
  <2>1. /\ phase = "read" /\ read' = read + Len(numbers') /\ UNCHANGED <<limit, to_write>>
        /\ phase' = IF numbers' = <<>> THEN "close" ELSE "process"
    BY <1>13 DEF Read
  <2>2. numbers' \in Seq(Numbers) /\ Len(numbers') \in Nat
    <3>1. RadixInv'
      BY <1>13, OtherSteps
    <3> QED BY <3>1, LenProperties DEF RadixInv, RadixTypeOK
  <2>3. CASE numbers' # <<>>
    <3>1. Len(numbers') > 0
      BY <2>2, <2>3, EmptySeq
    <3>2. Left'[1] < Left[1]
      BY <1>1, <1>3, <1>4, <2>1, <2>2, <3>1
    <3> QED BY <1>5, <3>2
  <2>4. CASE numbers' = <<>>
    <3>1. Len(numbers') = 0 /\ Place = 1 /\ Place' = 0
      BY <2>1, <2>4, EmptySeq
    <3>2. Left'[1] = Left[1] /\ Left'[3] = Left[3] /\ Left'[4] = Left[4] /\ Left'[5] < Left[5]
      BY <1>1, <1>3, <1>4, <2>1, <3>1
    <3>3. Left'[2] = Left[2] \/ Left'[2] < Left[2]
      BY <1>1, <1>3, <1>4, <3>1
    <3> QED BY <1>6, <1>9, <3>2, <3>3
  <2> QED BY <2>3, <2>4
<1>14. CASE EndOfBatch
  <2>1. phase = "process" /\ phase' = "read" /\ UNCHANGED store
    BY <1>14 DEF EndOfBatch
  <2>2. Place = 2 /\ Place' = 1
    BY <2>1
  <2> QED BY <1>3, <1>4, <1>9, <2>1, <2>2
<1>15. CASE Add \/ Request
  <2>1. numbers # <<>> /\ numbers' = Tail(numbers) /\ read' = read
    BY <1>15 DEF Add, Request
  <2>2. Len(numbers') < Len(numbers)
    BY <1>1, <2>1
  <2>3. Left'[1] = Left[1] /\ Left'[2] < Left[2]
    BY <1>3, <1>4, <2>1, <2>2
  <2> QED BY <1>6, <2>3
<1>16. CASE Take
  <2> DEFINE result == take_numbers(t, AtMost(limit, BatchMax))
             count == Len(result.buffer)
  <2>1. /\ phase = "take" /\ limit' = StillWanted(count) /\ out_numbers' = result.buffer
        /\ UNCHANGED <<read, numbers>>
    BY <1>16 DEF Take
  <2>2. limit > 0 /\ count \in Nat
    <3>1. out_numbers' \in Seq(Number)
      <4>1. RadixInv'
        BY <1>16, TreeSteps
      <4> QED BY <4>1 DEF RadixInv, RadixTypeOK
    <3> HIDE DEF result
    <3>2. count \in Nat
      BY <2>1, <3>1, LenProperties
    <3> QED BY <2>1, <3>2 DEF RadixInv
  <2> HIDE DEF count
  <2>3. Wanted' < Wanted
    BY <1>1, <2>1, <2>2 DEF StillWanted
  <2> QED BY <1>3, <1>4, <1>7, <2>1, <2>3
<1>17. CASE Write
  <2>1. to_write > 0 /\ \E written \in write_int_buffer(out_file, to_write) : Writes(written)
    BY <1>17, WriteOf
  <2>2. PICK written \in write_int_buffer(out_file, to_write) : Writes(written)
    BY <2>1
  <2>3. /\ written = -1 \/ written \in 0 .. to_write
        /\ InBuffer(written) \in Seq(Number \cup {Stale})
        /\ Len(InBuffer(written)) = IF written = -1 THEN 0 ELSE written
    BY <2>2, WritesTyped DEF RadixInv
  <2>4. /\ phase = "write"
        /\ UNCHANGED <<phase, in_file, out_file, open, t, numbers, limit, out_numbers, taken, read>>
    BY <1>17 DEF Write
  <2>5. to_write' = to_write - written /\ output' = output \o InBuffer(written)
    BY <2>2 DEF Writes
  <2>6. CASE written \in 1 .. to_write
    <3>1. Left'[4] < Left[4]
      BY <1>1, <1>3, <1>4, <2>5, <2>6
    <3> QED BY <1>3, <1>4, <1>8, <2>4, <3>1
  <2>7. CASE written \notin 1 .. to_write
    <3>1. written \in {-1, 0}
      BY <1>1, <2>3, <2>7
    <3>2. to_write' \in {to_write, to_write + 1}
      BY <1>1, <2>5, <3>1
    <3>3. InBuffer(written) = <<>>
      BY <2>3, <3>1, EmptySeq
    <3>4. output \in Seq(Number \cup {Stale})
      BY DEF RadixInv, RadixTypeOK
    <3>5. output' = output
      BY <2>5, <3>3, <3>4, ConcatEmptySeq
    <3> QED BY <2>4, <3>2, <3>5 DEF NothingWritten
  <2> QED BY <2>6, <2>7
<1>18. CASE Written
  <2>1. phase = "write" /\ phase' \in {"take", "process"} /\ UNCHANGED store
    BY <1>18 DEF Written
  <2>2. Place = 3 /\ Place' = 2
    BY <2>1
  <2> QED BY <1>3, <1>4, <1>9, <2>1, <2>2
<1>19. CASE Close
  <2>1. phase = "close" /\ phase' = "done" /\ UNCHANGED <<read, numbers, limit, to_write>>
    BY <1>19 DEF Close
  <2>2. Place = 0 /\ Place' = -1
    BY <2>1
  <2> QED BY <1>3, <1>4, <1>9, <2>1, <2>2
<1> QED BY <1>10, <1>11, <1>12, <1>13, <1>14, <1>15, <1>16, <1>17, <1>18, <1>19 DEF RadixNext

\* radix.c:162-192: for every file, and however the output is cut into writes, each
\* step of the loops that read, take and write leaves less to do, but for the writes
\* that fail or take nothing: these are all that can keep the program from its end.
THEOREM RadixEnds == RadixSpec => Ends
<1>1. RadixInit => RadixInv
  BY RadixInitInv
<1>2. RadixInv /\ [RadixNext]_radixVars => RadixInv'
  BY RadixStepInv
<1>3. RadixInv /\ [RadixNext]_radixVars =>
        [\/ \E k \in DOMAIN Left : Left'[k] < Left[k] /\ \A l \in 1 .. k - 1 : Left'[l] = Left[l]
         \/ NothingWritten]_radixVars
  BY StepsLeaveLess
<1> QED BY <1>1, <1>2, <1>3, PTL DEF RadixSpec, Ends

\* What is left to write of the numbers that were taken.
WritesInv ==
  /\ WritesWhatIsTaken
  /\ phase # "write" => to_write = 0
  /\ ~cut /\ to_write > 0 => to_write = Len(out_numbers)

\* The steps that write nothing and take nothing.
LEMMA WritesKept ==
  ASSUME RadixInv, WritesInv,
         UNCHANGED <<output, to_write, taken, out_numbers, cut, failures>>,
         phase # "write" \/ to_write = 0
  PROVE  WritesInv'
BY DEF WritesInv, WritesWhatIsTaken

\* A turn of the loop begins with everything written that was taken before.
LEMMA TakeToWrite ==
  ASSUME RadixInv, WritesInv, Take
  PROVE  WritesInv'
<1> DEFINE buffer == out_numbers'
<1>1. /\ phase = "take" /\ phase' = "write" /\ to_write' = Len(buffer)
      /\ taken' = taken \o buffer /\ UNCHANGED <<output, cut, failures>>
  BY DEF Take, ToWrite, writes
<1>2. RadixInv'
  BY TreeSteps
<1>3. /\ buffer \in Seq(Number) /\ taken \in Seq(Number)
      /\ output \in Seq(Number \cup {Stale}) /\ failures \in Nat /\ cut \in BOOLEAN
  BY <1>2 DEF RadixInv, RadixTypeOK
<1>4. to_write = 0 /\ Len(output) = Len(taken) + failures /\ (~cut => taken = output)
  <2>1. to_write = 0
    BY <1>1 DEF WritesInv
  <2>2. output \o <<>> = output /\ Len(output) \in Nat
    BY <1>3, ConcatEmptySeq, LenProperties
  <2> QED BY <2>1, <2>2 DEF WritesInv, WritesWhatIsTaken
<1>5. Len(taken') = Len(taken) + Len(buffer) /\ {Len(taken), Len(buffer)} \subseteq Nat
  BY <1>1, <1>3, ConcatProperties, LenProperties
<1>6. Len(output') + to_write' = Len(taken') + failures'
  BY <1>1, <1>3, <1>4, <1>5
<1>7. ~cut' => taken' = output' \o (IF to_write' > 0 THEN buffer ELSE <<>>)
  <2>1. CASE Len(buffer) > 0
    BY <1>1, <1>4, <2>1
  <2>2. CASE ~(Len(buffer) > 0)
    <3>1. buffer = <<>>
      BY <1>3, <1>5, <2>2, EmptySeq
    <3> QED BY <1>1, <1>4, <2>2, <3>1
  <2> QED BY <2>1, <2>2
<1> QED BY <1>1, <1>6, <1>7 DEF WritesInv, WritesWhatIsTaken

\* What is written leaves what is left to write, and a failed write leaves one more.
LEMMA StillAgree ==
  \A gone, left, given, failed, w \in Int :
    gone + left = given + failed =>
      (gone + (IF w = -1 THEN 0 ELSE w)) + (left - w)
        = given + (IF w = -1 THEN failed + 1 ELSE failed)
OBVIOUS

\* A write is of numbers of the buffer, and of no others if it takes all.
LEMMA WriteToWrite ==
  ASSUME RadixInv, WritesInv, Write
  PROVE  WritesInv'
<1>1. /\ phase = "write" /\ to_write > 0 /\ UNCHANGED <<phase, out_numbers, taken>>
  BY DEF Write
<1>2. PICK written \in write_int_buffer(out_file, to_write) : Writes(written)
  BY WriteOf
<1>3. /\ to_write' = to_write - written /\ output' = output \o InBuffer(written)
      /\ cut' = (cut \/ written < to_write)
      /\ failures' = IF written = -1 THEN failures + 1 ELSE failures
  BY <1>2 DEF Writes, Failed
<1>4. /\ written = -1 \/ written \in 0 .. to_write
      /\ InBuffer(written) \in Seq(Number \cup {Stale})
      /\ Len(InBuffer(written)) = IF written = -1 THEN 0 ELSE written
  BY <1>2, WritesTyped DEF RadixInv
<1>5. /\ out_numbers \in Seq(Number) /\ taken \in Seq(Number) /\ to_write \in Nat
      /\ output \in Seq(Number \cup {Stale}) /\ failures \in Nat /\ cut \in BOOLEAN
  BY DEF RadixInv, RadixTypeOK
<1>6. Len(output) + to_write = Len(taken) + failures
  BY DEF WritesInv, WritesWhatIsTaken
<1>7. Len(output') + to_write' = Len(taken') + failures'
  <2>1. /\ Len(output') = Len(output) + Len(InBuffer(written))
        /\ {Len(output), Len(taken)} \subseteq Nat
    BY <1>3, <1>4, <1>5, ConcatProperties, LenProperties
  <2>2. /\ Len(output) + to_write = Len(taken) + failures /\ Len(taken') = Len(taken)
        /\ Len(output') = Len(output) + (IF written = -1 THEN 0 ELSE written)
        /\ to_write' = to_write - written
        /\ failures' = IF written = -1 THEN failures + 1 ELSE failures
    BY <1>1, <1>3, <1>4, <1>6, <2>1
  <2>3. /\ Len(output) \in Int /\ Len(taken) \in Int /\ to_write \in Int
        /\ failures \in Int /\ written \in Int
    BY <1>4, <1>5, <2>1
  <2> QED BY ONLY <2>2, <2>3, StillAgree
<1>8. CASE written = to_write /\ ~cut
  <2>1. to_write = Len(out_numbers) /\ taken = output \o out_numbers
    BY <1>1, <1>8 DEF WritesInv, WritesWhatIsTaken
  <2>2. InBuffer(written) = out_numbers
    <3>1. 1 .. written = DOMAIN out_numbers /\ \A k \in 1 .. written : k <= Len(out_numbers)
      BY <1>5, <1>8, <2>1
    <3>2. InBuffer(written) = [k \in DOMAIN out_numbers |-> out_numbers[k]]
      BY <3>1 DEF InBuffer
    <3> QED BY <1>5, <3>2
  <2>3. to_write' = 0 /\ output' = output \o out_numbers
    BY <1>3, <1>5, <1>8, <2>2
  <2>4. output' \in Seq(Number \cup {Stale})
    BY <1>3, <1>4, <1>5, ConcatProperties
  <2>5. output' \o <<>> = output'
    BY <2>4, ConcatEmptySeq
  <2> QED BY <1>1, <1>7, <2>1, <2>3, <2>5 DEF WritesInv, WritesWhatIsTaken
<1>9. CASE ~(written = to_write /\ ~cut)
  <2>1. written = to_write \/ written < to_write
    BY <1>1, <1>4, <1>5
  <2>2. cut' = (cut \/ written < to_write)
    BY <1>3
  <2>3. cut'
    BY ONLY <1>9, <2>1, <2>2, Zenon
  <2> QED BY <1>1, <1>5, <1>7, <2>3 DEF WritesInv, WritesWhatIsTaken
<1> QED BY <1>8, <1>9

\* radix.c:180-183: for every file and every way the system takes the writes, it is
\* given as many numbers as were taken and one more for each write that failed, and
\* they are the numbers taken, in their order, as long as each write took all.
THEOREM WritesAgree == RadixSpec => []WritesWhatIsTaken
<1>1. RadixInit => RadixInv /\ WritesInv
  <2>1. ASSUME RadixInit PROVE WritesInv
    <3>1. Len(<<>>) = 0
      BY EmptySeq
    <3> QED BY <2>1, <3>1 DEF RadixInit, WritesInv, WritesWhatIsTaken
  <2> QED BY <2>1, RadixInitInv
<1>2. RadixInv /\ WritesInv /\ [RadixNext]_radixVars => (RadixInv /\ WritesInv)'
  <2> SUFFICES ASSUME RadixInv, WritesInv, [RadixNext]_radixVars
               PROVE  WritesInv'
    BY RadixStepInv
  <2>1. CASE UNCHANGED radixVars
    BY <2>1 DEF radixVars, store, writes, WritesInv, WritesWhatIsTaken
  <2>2. CASE \/ Usage \/ FilesUnsupported \/ OpenInput \/ OpenOutput \/ Read
             \/ EndOfBatch \/ Add \/ Request \/ Close
    <3>1. phase # "write" /\ UNCHANGED <<output, to_write, taken, out_numbers, cut, failures>>
      BY <2>2 DEF Usage, FilesUnsupported, OpenInput, OpenOutput, Read, EndOfBatch, Add,
                  Request, Close, store, writes
    <3> QED BY <3>1, WritesKept
  <2>3. CASE Written
    <3>1. /\ to_write = 0
          /\ UNCHANGED <<output, to_write, taken, out_numbers, cut, failures>>
      BY <2>3 DEF Written, store, writes, RadixInv, RadixTypeOK
    <3> QED BY <3>1, WritesKept
  <2> QED BY <2>1, <2>2, <2>3, TakeToWrite, WriteToWrite DEF RadixNext
<1>3. WritesInv => WritesWhatIsTaken
  BY DEF WritesInv
<1> QED BY <1>1, <1>2, <1>3, PTL DEF RadixSpec
-----------------------------------------------------------------------------
(***************************************************************************)
(* radix.c implements SortedStore.                                         *)
(***************************************************************************)

Wanted == IF limit > 0 THEN limit ELSE 0

\* Nothing is wanted but when numbers are taken or written.
LEMMA WantedWhen ==
  ASSUME RadixInv
  PROVE  limit \in Int /\ Wanted \in Nat /\ (phase \notin {"take", "write"} => Wanted = 0)
<1>1. limit \in Int
  <2>1. MAX_BITS \in Nat
    BY HighestLevel
  <2> HIDE DEF MAX_BITS
  <2> QED BY <2>1 DEF RadixInv, RadixTypeOK
<1>2. phase \in {"take", "write"} \/ limit <= 0
  BY DEF RadixInv
<1>3. limit <= 0 => ~(limit > 0)
  BY <1>1
<1> QED BY <1>1, <1>2, <1>3 DEF Wanted

\* The bags of SortedStore are those of the program.
LEMMA SameBags ==
  /\ \A s : Sorted!ToBag(s) = ToBag(s)
  /\ \A b, c : Sorted!(+)(b, c) = b (+) c
<1>1. \A S : Sorted!Cardinality(S) = Cardinality(S)
  BY DEF Sorted!Cardinality, Cardinality
<1>2. ASSUME NEW s PROVE Sorted!ToBag(s) = ToBag(s)
  BY <1>1 DEF Sorted!ToBag, Sorted!Range, ToBag, Range
<1>3. ASSUME NEW b, NEW c PROVE Sorted!(+)(b, c) = b (+) c
  BY DEF Sorted!(+), (+)
<1> QED BY <1>2, <1>3

\* The content after a step.
LEMMA ContentNext == Content' = ContentOf(t')
<1>1. (Content = ContentOf(t))'
  BY ContentDefined, PTL
<1> QED BY <1>1

\* At the start nothing is there.
LEMMA SortedInit ==
  ASSUME RadixInit
  PROVE  Sorted!Init
<1>1. Shape(t, {}) /\ Parted(t, {})
  BY NoTree DEF Grown
<1>2. \A a \in Number : Count(t, {}, a) = 0
  BY DEF Count, LeavesOfNumber
<1>3. BagCounted(t, {}) = [a \in {} |-> 1]
  <2>1. {b \in Number : Count(t, {}, b) # 0} = {}
    BY <1>2
  <2> QED BY <2>1 DEF BagCounted
<1>4. Content = [a \in {} |-> 1]
  BY <1>1, <1>3, ContentCounted, ContentDefined
<1> QED BY <1>4 DEF RadixInit, Sorted!Init, Sorted!EmptyBag, Sorted!SetToBag

\* What a step does not change of the store.
LEMMA SortedStutter ==
  ASSUME Content' = Content, limit' = limit, taken' = taken, numbers' = numbers
  PROVE  [Sorted!Next]_Sorted!vars
BY DEF Sorted!vars

\* The content is what the nodes' counts are, before a step and after it.
LEMMA ContentCounts ==
  ASSUME NEW nodes, Shape(t, nodes), Parted(t, nodes),
         NEW kept, Shape(t', kept), Parted(t', kept)
  PROVE  Content = BagCounted(t, nodes) /\ Content' = BagCounted(t', kept)
BY ContentCounted, ContentDefined, ContentNext

\* A number that is kept is in the bag.
LEMMA AddSorted ==
  ASSUME RadixInv, Add
  PROVE  [Sorted!Next]_Sorted!vars
<1> DEFINE number == Head(numbers)
<1>1. /\ phase = "process" /\ numbers # <<>> /\ number >= 0 /\ HasRoom(t.heap, NodeSize)
      /\ t' = add_number(t, number) /\ limit' = limit /\ taken' = taken
      /\ numbers' = Tail(numbers)
  BY DEF Add
<1>2. PICK nodes : Grown(t, nodes, {})
  BY <1>1 DEF RadixInv
<1>3. number \in Numbers /\ number \in Number
  <2>1. numbers \in Seq(Numbers)
    BY DEF RadixInv, RadixTypeOK
  <2>2. number \in Numbers
    BY <1>1, <2>1
  <2> QED BY <1>1, <2>2, NumbersOfFile
<1> HIDE DEF number
<1>4. PICK more : Grown(t', more, {}) /\ OnceMore(t, nodes, t', more, number)
  BY <1>1, <1>2, <1>3, AddNumber
<1>5. Shape(t, nodes) /\ Parted(t, nodes) /\ Shape(t', more) /\ Parted(t', more)
  BY <1>2, <1>4 DEF Grown
<1>6. Content' = Content (+) SetToBag({number})
  BY <1>3, <1>4, <1>5, ContentCounts, OneMore
<1>7. Wanted = 0 /\ Wanted' = Wanted
  BY <1>1, WantedWhen DEF Wanted
<1>8. Sorted!NextNumber
  BY <1>1, <1>7 DEF Sorted!NextNumber, Wanted
<1>9. Content' = Content (+) SetToBag({Head(numbers)}) /\ Head(numbers) >= 0
  BY <1>1, <1>6 DEF number
<1>10. Sorted!Add
  BY <1>1, <1>7, <1>8, <1>9 DEF Sorted!Add, Sorted!(+), Sorted!SetToBag, (+), SetToBag, Wanted
<1> QED BY <1>10 DEF Sorted!Next

\* The sequence that comes after another.
LEMMA Appended ==
  ASSUME NEW S, NEW x \in Seq(S), NEW y \in Seq(S)
  PROVE  SubSeq(x \o y, Len(x) + 1, Len(x \o y)) = y
<1> DEFINE m == Len(x)
           n == Len(y)
           both == x \o y
           part == SubSeq(both, m + 1, m + n)
<1>1. m \in Nat /\ n \in Nat
  BY LenProperties
<1>2. /\ both \in Seq(S) /\ Len(both) = m + n
      /\ \A i \in 1 .. m + n : both[i] = IF i <= m THEN x[i] ELSE y[i - m]
  BY ConcatProperties
<1> HIDE DEF m, n, both
<1>3. /\ m + 1 \in 1 .. Len(both) + 1 /\ m + n \in 0 .. Len(both)
      /\ m + 1 \in Int /\ m + n \in Int
  BY <1>1, <1>2
<1>4. part = [i \in 1 .. n |-> both[i + (m + 1) - 1]]
  BY <1>1, <1>2, <1>3
<1>5. \A i \in 1 .. n : both[i + (m + 1) - 1] = y[i]
  <2> TAKE i \in 1 .. n
  <2>1. i + (m + 1) - 1 = i + m /\ i + m \in 1 .. m + n /\ ~(i + m <= m) /\ (i + m) - m = i
    BY <1>1
  <2> QED BY <1>2, <2>1
<1>6. y = [i \in 1 .. n |-> y[i]]
  BY DEF n
<1> QED BY <1>2, <1>4, <1>5, <1>6 DEF m, both

\* What is taken are the smallest numbers of the bag, in order.
LEMMA TakeSorted ==
  ASSUME RadixInv, Take
  PROVE  [Sorted!Next]_Sorted!vars
<1> DEFINE most == AtMost(limit, BatchMax)
           result == take_numbers(t, most)
           new == result.buffer
           count == Len(new)
<1>1. /\ phase = "take" /\ t' = result.t /\ taken' = taken \o new /\ limit' = StillWanted(count)
      /\ numbers' = numbers
  BY DEF Take
<1>2. PICK nodes : Grown(t, nodes, {})
  BY <1>1 DEF RadixInv
<1>3. limit \in Nat /\ limit > 0 /\ taken \in Seq(Number)
  <2>1. limit > 0 /\ taken \in Seq(Number)
    BY <1>1 DEF RadixInv, RadixTypeOK
  <2> QED BY <2>1, WantedWhen DEF Wanted
<1>4. most \in Nat /\ most <= limit /\ most # 0
  BY <1>3, RadixAssumption DEF AtMost
<1> HIDE DEF most
<1>5. /\ new \in Seq(Number) /\ count <= most
      /\ \E kept : /\ Grown(result.t, kept, {}) /\ SmallestOf(t, nodes, result.t, kept, new)
                   /\ \A a \in Number : Count(result.t, kept, a) # 0 => count = most
  BY <1>2, <1>4, TakeNumbers
<1>6. PICK kept : /\ Grown(t', kept, {}) /\ SmallestOf(t, nodes, t', kept, new)
                  /\ \A a \in Number : Count(t', kept, a) # 0 => count = most
  BY <1>1, <1>5
<1> HIDE DEF result
<1>7. count \in Nat
  BY <1>5, LenProperties
<1>8. Shape(t, nodes) /\ Parted(t, nodes) /\ Shape(t', kept) /\ Parted(t', kept)
  BY <1>2, <1>6 DEF Grown
<1>9. Content = BagCounted(t, nodes) /\ Content' = BagCounted(t', kept)
  BY <1>8, ContentCounts
<1>10. Content = Content' (+) ToBag(new)
  BY <1>6, <1>8, <1>9, TakenAndLeft
<1>11. SubSeq(taken', Len(taken) + 1, Len(taken')) = new
  BY <1>1, <1>3, <1>5, Appended
<1> HIDE DEF new, count
<1>12. CASE count # 0
  <2>1. Wanted = limit /\ Wanted' = limit - count /\ count \in 1 .. limit
    BY <1>1, <1>3, <1>4, <1>5, <1>7, <1>12 DEF Wanted, StillWanted
  <2>2. \A i, j \in DOMAIN new : i <= j => new[i] <= new[j]
    BY <1>6 DEF SmallestOf
  <2>3. \A i \in DOMAIN new, a \in DOMAIN Content' : new[i] <= a
    <3>1. \A a \in DOMAIN Content' : a \in Number /\ Count(t', kept, a) # 0
      BY <1>9 DEF BagCounted
    <3> QED BY <1>6, <3>1 DEF SmallestOf
  <2> DEFINE taking == SubSeq(taken', Len(taken) + 1, Len(taken'))
  <2>4. taking = new
    BY <1>11
  <2> HIDE DEF taking
  <2>5. Content = Content' (+) ToBag(taking)
    BY <1>10, <2>4
  <2>6. /\ taken' = taken \o taking /\ Len(taking) \in 1 .. Wanted
        /\ Wanted' = Wanted - Len(taking)
        /\ \A i, j \in DOMAIN taking : i <= j => taking[i] <= taking[j]
        /\ \A i \in DOMAIN taking, a \in DOMAIN Content' : taking[i] <= a
    BY <1>1, <2>1, <2>2, <2>3, <2>4 DEF count
  <2>7. Sorted!Take
    BY <1>1, <2>5, <2>6, SameBags DEF Sorted!Take, Sorted!BagToSet, Wanted, taking
  <2> QED BY <2>7 DEF Sorted!Next
<1>13. CASE count = 0
  <2>1. new = <<>>
    BY <1>5, <1>13, EmptySeq DEF count
  <2>2. \A a \in Number : Count(t', kept, a) = 0
    BY <1>4, <1>6, <1>13
  <2>3. \A a \in Number : Count(t, nodes, a) = 0
    <3>1. \A a \in Number : Count(t, nodes, a) = Count(t', kept, a) + Occurs(new, a)
      BY <1>6 DEF SmallestOf
    <3> QED BY <2>1, <2>2, <3>1, NothingOccurs
  <2>4. Content = [a \in {} |-> 1] /\ Content' = [a \in {} |-> 1]
    <3>1. /\ {b \in Number : Count(t, nodes, b) # 0} = {}
          /\ {b \in Number : Count(t', kept, b) # 0} = {}
      BY <2>2, <2>3
    <3> QED BY <1>9, <3>1 DEF BagCounted
  <2>5. taken' = taken
    BY <1>1, <1>3, <2>1, ConcatEmptySeq
  <2>6. limit' = 0
    BY <1>1, <1>13 DEF StillWanted
  <2>7. Sorted!GiveUp
    BY <1>1, <2>4, <2>5, <2>6 DEF Sorted!GiveUp, Sorted!EmptyBag, Sorted!SetToBag
  <2> QED BY <2>7 DEF Sorted!Next
<1> QED BY <1>12, <1>13

\* Giving back the nodes leaves the content to be read from them.
LEMMA CloseSorted ==
  ASSUME RadixInv, Close
  PROVE  [Sorted!Next]_Sorted!vars
<1>1. /\ phase # "done" /\ t' = release_tree(t) /\ limit' = limit /\ taken' = taken
      /\ numbers' = numbers
  BY DEF Close
<1>2. PICK nodes : Grown(t, nodes, {})
  BY <1>1 DEF RadixInv
<1>3. Shape(t, nodes) /\ Parted(t, nodes)
  BY <1>2 DEF Grown
<1>4. t' \in Trees /\ t'.node = t.node /\ t'.tree = t.tree
  BY <1>1, <1>2, ReleaseTree
<1>5. Shape(t', nodes) /\ Parted(t', nodes)
  <2>1. SameBits(t, t')
    BY <1>4 DEF SameBits
  <2>2. NULL \notin nodes
    BY <1>3, NodeAddresses DEF Shape
  <2>3. \A n \in NodeAddr : n # NULL => t'.node[n] = t.node[n]
    BY <1>4
  <2> QED BY <1>3, <1>4, <2>1, <2>2, <2>3, Recounted
<1>6. SameCounts(t, nodes, t', nodes)
  <2>1. \A a : Count(t', nodes, a) = Count(t, nodes, a)
    BY <1>4 DEF Count, LeavesOfNumber, Interior
  <2> QED BY <2>1 DEF SameCounts
<1>7. Content' = Content
  BY <1>3, <1>5, <1>6, ContentCounts, SameContent
<1> QED BY <1>1, <1>7, SortedStutter

\* Every step of the program is one of the bag's, or leaves it as it is.
LEMMA SortedStep ==
  ASSUME RadixInv, [RadixNext]_radixVars
  PROVE  [Sorted!Next]_Sorted!vars
<1>1. CASE \/ Usage \/ FilesUnsupported \/ OpenInput \/ OpenOutput \/ EndOfBatch \/ Written
           \/ Write \/ UNCHANGED radixVars
  <2>1. t' = t /\ limit' = limit /\ taken' = taken /\ numbers' = numbers
    BY <1>1 DEF Usage, FilesUnsupported, OpenInput, OpenOutput, EndOfBatch, Written, Write,
                store, radixVars
  <2>2. Content' = Content
    BY <2>1, ContentDefined, ContentNext
  <2> QED BY <2>1, <2>2, SortedStutter
<1>2. CASE Read
  <2>1. /\ phase = "read" /\ t' = t /\ limit' = limit /\ taken' = taken
    BY <1>2 DEF Read
  <2>2. Content' = Content
    BY <2>1, ContentDefined, ContentNext
  <2>3. Wanted = 0 /\ Wanted' = 0
    BY <2>1, WantedWhen DEF Wanted
  <2>4. numbers = <<>>
    BY <2>1 DEF RadixInv
  <2>5. numbers' \in Seq(Numbers)
    <3>1. RadixInv'
      BY <1>2, OtherSteps
    <3> QED BY <3>1 DEF RadixInv, RadixTypeOK
  <2>6. Sorted!Receive
    BY <2>1, <2>2, <2>3, <2>4, <2>5 DEF Sorted!Receive, Wanted
  <2> QED BY <2>6 DEF Sorted!Next
<1>3. CASE Request
  <2> DEFINE number == Head(numbers)
  <2>1. /\ phase = "process" /\ numbers # <<>> /\ number < 0 /\ limit' = Negated(number)
        /\ numbers' = Tail(numbers) /\ t' = t /\ taken' = taken
    BY <1>3 DEF Request
  <2>2. Content' = Content
    BY <2>1, ContentDefined, ContentNext
  <2>3. Wanted = 0
    BY <2>1, WantedWhen
  <2>4. number \in Int /\ -2 * MAX_BITS \in Int
    <3>1. MAX_BITS \in Nat
      BY HighestLevel
    <3>2. number \in Numbers
      <4>1. numbers \in Seq(Numbers)
        BY DEF RadixInv, RadixTypeOK
      <4> QED BY <2>1, <4>1
    <3>3. number \in -2 * MAX_BITS .. 2 * MAX_BITS - 1
      BY <3>2, RadixAssumption
    <3> HIDE DEF MAX_BITS, number
    <3> QED BY <3>1, <3>3
  <2>5. Wanted' = IF number = -2 * MAX_BITS THEN 0 ELSE -number
    <3>1. Wanted' = IF limit' > 0 THEN limit' ELSE 0
      BY DEF Wanted
    <3> HIDE DEF MAX_BITS, number
    <3> QED BY <2>1, <2>4, <3>1 DEF Negated
  <2>6. Sorted!NextNumber
    BY <2>1, <2>3 DEF Sorted!NextNumber, Wanted
  <2>7. Sorted!Request
    BY <2>1, <2>2, <2>5, <2>6 DEF Sorted!Request, Wanted
  <2> QED BY <2>7 DEF Sorted!Next
<1> QED BY <1>1, <1>2, <1>3, AddSorted, TakeSorted, CloseSorted DEF RadixNext

\* radix.c: for every file, however it is read, the tree is a bag: each number read that
\* is not negative is added to it, once and in its turn, and stays until it is taken; each
\* request -N takes the smallest ones, in ascending order, until it has N or none are left.
THEOREM RadixSorts == RadixSpec => SortedSpec
<1>1. RadixInit => RadixInv /\ Sorted!Init
  BY RadixInitInv, SortedInit
<1>2. RadixInv /\ [RadixNext]_radixVars => RadixInv' /\ [Sorted!Next]_Sorted!vars
  BY RadixStepInv, SortedStep
<1> QED BY <1>1, <1>2, PTL DEF RadixSpec, SortedSpec, Sorted!Spec
=============================================================================
