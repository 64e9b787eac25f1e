----------------------------- MODULE GuestHeap ------------------------------
(***************************************************************************)
(* A guest program that allocates and releases blocks in any order.        *)
(***************************************************************************)
EXTENDS Allocator, FiniteSetsExt

CONSTANTS
  Sizes,  \* what the program asks for
  IntMax  \* INT_MAX

\* Beyond this the sums of lib.c:161-165 overflow, and a block of a negative size passes
\* the test for large blocks: no promise covers such a call, and none is made here.
ASSUME GuestHeapAssumption ==
  Sizes \subseteq Int /\ \A size \in Sizes : Rounded(size) <= IntMax

VARIABLES
  heap,
  live,     \* history: the blocks in use, with the sizes that were asked for
  last,     \* the last call, and what it returned
  carved,   \* history: the blocks ever cut from free space, with their sizes
  peak      \* history: the most blocks of a class that were ever in use

vars == <<heap, live, last, carved, peak>>

Init ==
  /\ heap = init_heap
  /\ live = {}
  /\ last = [call |-> "none", size |-> 0, ptr |-> NULL]
  /\ carved = {}
  /\ peak = [c \in Class |-> 0]

InUse(blocks, c) == Cardinality({b \in blocks : ClassOf(Rounded(b.size)) = c})

Allocate(size) ==
  LET result == allocate(heap, size)
      bytes == Rounded(size)
      block == [addr |-> result.ptr, size |-> size]
  IN  /\ HasRoom(heap, size)
      /\ heap' = result.heap
      /\ last' = [call |-> "allocate", size |-> size, ptr |-> result.ptr]
      /\ live' = IF result.ptr = NULL THEN live ELSE live \cup {block}
      /\ carved' = IF heap'.free_space = heap.free_space THEN carved
                   ELSE carved \cup {[addr |-> addr, bytes |-> bytes] :
                                       addr \in ChunkBlocks(heap.free_space, bytes)}
      /\ peak' = [c \in Class |->
                    IF InUse(live', c) > peak[c] THEN InUse(live', c) ELSE peak[c]]

Release(block) ==
  /\ heap' = release(heap, block.addr)
  /\ live' = live \ {block}
  /\ last' = [call |-> "release", size |-> block.size, ptr |-> block.addr]
  /\ UNCHANGED <<carved, peak>>

Next == (\E size \in Sizes : Allocate(size)) \/ (\E block \in live : Release(block))

Spec == Init /\ [][Next]_vars

-----------------------------------------------------------------------------
\* Pointers are blocks of the heap or NULL, sizes are multiples of the step.
TypeOK ==
  /\ heap \in Heaps
  /\ \A b \in live : b.addr - Header \in HeapAddr /\ b.size \in Sizes
  /\ \A b \in carved : b.addr \in HeapAddr /\ b.bytes % Step = 0
  /\ \A c \in Class : heap.small_block_headers[c] \in HeapAddr \cup {NULL}

\* The free list of a class after k links.
Link(c) ==
  LET link[k \in 0 .. Cardinality(carved)] ==
        IF k = 0 THEN heap.small_block_headers[c]
        ELSE LET block == link[k - 1] IN IF block = NULL THEN NULL ELSE heap.word[block]
  IN  link

FreeList(c) == {Link(c)[k] : k \in 0 .. Cardinality(carved)} \ {NULL}

Word(block) == block.addr .. block.addr + Header - 1
InUseAddresses == {b.addr - Header : b \in live}

\* allocate and release: no block is lost and none is in two places: each block
\* ever carved is in use and knows its size, or is in the free list of its own
\* class, and nothing else is in a list; every list ends.  The bytes of a block in
\* use are not the first word of any block, so the program cannot change a link or
\* a size.
EveryBlockOnce ==
  /\ \A c \in Class :
       /\ Link(c)[Cardinality(carved)] = NULL
       /\ FreeList(c) = {b.addr : b \in {b \in carved : ClassOf(b.bytes) = c}}
                          \ InUseAddresses
  /\ \A b \in live :
       /\ [addr |-> b.addr - Header, bytes |-> heap.word[b.addr - Header]] \in carved
       /\ \A c \in carved : (b.addr .. b.addr + b.size - 1) \cap Word(c) = {}

\* allocate carves space only for blocks that were in use together: the heap has
\* grown by a chunk for as many blocks as a chunk holds at the peak of the class,
\* however often blocks were allocated and released.
Chunks(c) ==
  LET perChunk == ChunkSize(c * Step) \div (c * Step)
  IN  (peak[c] + perChunk - 1) \div perChunk

Space == [c \in Class \ {0} |-> Chunks(c) * ChunkSize(c * Step)]

SpaceFollowsPeak ==
  heap.free_space - HeapStart = MapThenSumSet(LAMBDA c : Space[c], Class \ {0})

\* The allocator keeps the promise of a store of disjoint blocks.
Store == INSTANCE BlockStore WITH
           Addresses <- HeapStart .. HeapEnd,
           MaxSize <- (NumSizes - 1) * Step - Header, None <- NULL

StoreSpec == Store!Spec
=============================================================================
