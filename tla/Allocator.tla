----------------------------- MODULE Allocator ------------------------------
(***************************************************************************)
(* allocate and release of lib.c.  A block begins with a word: the link to *)
(* the next free block of its size class, or the size of a block in use.   *)
(* A heap is the allocator's globals and the first words of the blocks;    *)
(* the functions return the heap they leave.                               *)
(***************************************************************************)
EXTENDS Integers

CONSTANTS
  Step,           \* BLOCK_SIZE_STEP (8), a power of two
  NumSizes,       \* NUM_SIZES (512)
  BlocksInChunk,  \* the factor of a chunk (10)
  MinAllocation,  \* MIN_ALLOCATION (100)
  HeapStart,      \* what init_heap is given (0x2000000)
  HeapEnd         \* bound on the addresses of blocks

ASSUME AllocatorAssumption ==
  /\ Step \in Nat /\ Step > 4
  /\ NumSizes \in Nat \ {0}
  /\ BlocksInChunk \in Nat \ {0}
  /\ MinAllocation \in Nat
  /\ HeapStart \in Nat \ {0} /\ HeapEnd \in Nat

NULL == 0

\* sizeof(int), the word in front of a block.
Header == 4

Class == 0 .. NumSizes - 1
\* Where a block may begin.
HeapAddr == {addr \in HeapStart .. HeapEnd : (addr - HeapStart) % Step = 0}

Heaps == [initialized : BOOLEAN, free_space : Nat,
          small_block_headers : [Class -> Nat], word : [HeapAddr -> Nat]]

\* Memory reads as zero until it is written.
init_heap ==
  [initialized |-> FALSE, free_space |-> HeapStart,
   small_block_headers |-> [c \in Class |-> NULL], word |-> [addr \in HeapAddr |-> 0]]

\* Mutant: a block of the size asked for, with no room for its first word.
RoundedBare(size) ==
  IF size % Step = 0 THEN size ELSE size - (size % Step) + Step

\* The size of a block: with its first word, and a multiple of Step.  For sizes with
\* which the sums are ints.
Rounded(size) ==
  LET bytes == size + Header
  IN  IF bytes % Step = 0 THEN bytes ELSE bytes - (bytes % Step) + Step

ClassOf(bytes) == bytes \div Step

\* Larger blocks are left as an exercise.
Serves(size) == size >= 1 /\ ClassOf(Rounded(size)) < NumSizes

ChunkSize(bytes) ==
  IF bytes * BlocksInChunk < MinAllocation THEN (MinAllocation \div bytes) * bytes
  ELSE bytes * BlocksInChunk

\* The blocks of a new chunk, as many as fit.
ChunkBlocks(chunk, bytes) ==
  {chunk + i * bytes : i \in 0 .. (ChunkSize(bytes) \div bytes) - 1}

\* The first call clears the headers.
Initialized(heap) ==
  IF heap.initialized THEN heap
  ELSE [heap EXCEPT !.initialized = TRUE,
                    !.small_block_headers = [c \in Class |-> NULL]]

\* Mutant: a chunk at every call.
RefilledAlways(heap, bytes) ==
  LET chunk == heap.free_space
      blocks == ChunkBlocks(chunk, bytes)
  IN  [heap EXCEPT
         !.free_space = chunk + ChunkSize(bytes),
         !.small_block_headers[ClassOf(bytes)] = chunk,
         !.word = [addr \in HeapAddr |->
                     IF addr \notin blocks THEN heap.word[addr]
                     ELSE IF addr + bytes \in blocks THEN addr + bytes ELSE NULL]]

\* A class without free blocks gets a chunk: its blocks are linked in the order of
\* their addresses.
Refilled(heap, bytes) ==
  LET chunk == heap.free_space
      blocks == ChunkBlocks(chunk, bytes)
  IN  IF heap.small_block_headers[ClassOf(bytes)] # NULL THEN heap
      ELSE [heap EXCEPT
              !.free_space = chunk + ChunkSize(bytes),
              !.small_block_headers[ClassOf(bytes)] = chunk,
              !.word = [addr \in HeapAddr |->
                          IF addr \notin blocks THEN heap.word[addr]
                          ELSE IF addr + bytes \in blocks THEN addr + bytes ELSE NULL]]

\* Mutant: the size is written before the link is read.
UnlinkedLate(heap, bytes) ==
  LET block == heap.small_block_headers[ClassOf(bytes)]
  IN  [heap EXCEPT !.small_block_headers[ClassOf(bytes)] = bytes,
                   !.word[block] = bytes]

Unlinked(heap, bytes) ==
  LET block == heap.small_block_headers[ClassOf(bytes)]
  IN  [heap EXCEPT !.small_block_headers[ClassOf(bytes)] = heap.word[block],
                   !.word[block] = bytes]

\* The heap after allocate(size), and what it returns.
allocate(heap, size) ==
  LET bytes == Rounded(size)
      ready == Refilled(Initialized(heap), bytes)
  IN  IF ~Serves(size) THEN [heap |-> Initialized(heap), ptr |-> NULL]
      ELSE [heap |-> Unlinked(ready, bytes),
            ptr |-> ready.small_block_headers[ClassOf(bytes)] + Header]

\* Whether the bound leaves room for what allocate(size) may carve.
HasRoom(heap, size) ==
  Serves(size) => heap.free_space + ChunkSize(Rounded(size)) <= HeapEnd + 1

\* Mutant: the block goes to the class above.
releaseAbove(heap, memory) ==
  LET block == memory - Header
      class == (ClassOf(heap.word[block]) + 1) % NumSizes
  IN  [heap EXCEPT !.word[block] = heap.small_block_headers[class],
                   !.small_block_headers[class] = block]

release(heap, memory) ==
  LET block == memory - Header
      class == ClassOf(heap.word[block])
  IN  [heap EXCEPT !.word[block] = heap.small_block_headers[class],
                   !.small_block_headers[class] = block]
=============================================================================
