------------------------------- MODULE Radix --------------------------------
(***************************************************************************)
(* radix.c: a program that reads numbers from a file, keeps those that are *)
(* not negative in a radix tree, and for a negative number -N takes the N  *)
(* smallest out of the tree and writes them to another file.               *)
(*                                                                         *)
(* One action per call of the library's file functions and per operation   *)
(* on the tree.  The system that answers the file calls is not part of the *)
(* repository, whose simulator stops at them; another one answers.         *)
(***************************************************************************)
EXTENDS RadixTree

CONSTANTS
  Numbers,     \* the int values in the file
  ReadMax,     \* numbers per read (100)
  BatchMax,    \* numbers taken at a time (1000)
  MaxNumbers,  \* bound on the numbers that are read
  MaxFailures  \* bound on the writes that fail

ASSUME RadixAssumption ==
  /\ Numbers \subseteq -2 * MAX_BITS .. 2 * MAX_BITS - 1
  /\ {ReadMax, BatchMax} \subseteq Nat \ {0}
  /\ {MaxNumbers, MaxFailures} \subseteq Nat

\* Nodes are blocks of a class; a chunk has more than one, and an insertion takes at
\* most two, so that room for a chunk is room for an insertion.
ASSUME NodeBlocks ==
  /\ Serves(NodeSize)
  /\ ChunkSize(Rounded(NodeSize)) \div Rounded(NodeSize) > 1

VARIABLES
  phase,        \* the statement of main that comes next
  t,            \* the tree
  in_file, out_file,
  open,         \* the files the system has open for the program
  numbers,      \* numbers[n] and above, of those read
  limit,        \* how many are still to be taken
  out_numbers,  \* the buffer that is written
  to_write,
  output,       \* what the system was given to write
  taken,        \* history: the numbers taken from the tree
  read,         \* history: how many numbers were read
  cut,          \* history: whether a write took less than it was given
  failures      \* history: how many writes have failed

writes == <<cut, failures>>
store == <<t, numbers, limit, out_numbers, to_write, output, taken, read, writes>>
radixVars == <<phase, in_file, out_file, open, store>>

InHandle == 3
OutHandle == 4
Failed == -1

\* What a block holds before a node is written there.
NoNode == [bit_pos |-> 1, number |-> 0, zero |-> 0, one |-> 0]

\* Behind the numbers taken the buffer holds older ones, or other memory.
Stale == -1

\* The file functions of lib.c: what the system may return, and the files that are
\* open afterwards.  A read that fails gives no more than one that finds nothing.  A
\* write may fail, or take any part of what it is given, nothing included; to a file
\* that could not be opened each fails.  close_file has the ecall of open_file: the
\* system is asked to open a path at the address of the handle, and closes nothing.
open_file(handle) == {handle, Failed}

read_int_buffer(file) ==
  IF file = Failed THEN {<<>>} ELSE UNION {[1 .. count -> Numbers] : count \in 0 .. ReadMax}

write_int_buffer(file, size) == {Failed} \cup IF file = Failed THEN {} ELSE 0 .. size

close_file(files, file) == files

\* argc is 3 when the files are opened.
RadixInit ==
  /\ phase \in {"usage", "open_input"}
  /\ t = EmptyTree([nptr \in NodeAddr |-> NoNode])
  /\ in_file = 0 /\ out_file = 0 /\ open = {}
  /\ numbers = <<>> /\ limit = 0 /\ out_numbers = <<>> /\ to_write = 0
  /\ output = <<>> /\ taken = <<>> /\ read = 0
  /\ cut = FALSE /\ failures = 0

Usage ==
  /\ phase = "usage"
  /\ phase' = "stopped"
  /\ UNCHANGED <<in_file, out_file, open, store>>

\* An ecall that the system does not know, as the simulator, stops the machine.
FilesUnsupported ==
  /\ phase = "open_input"
  /\ phase' = "stopped"
  /\ UNCHANGED <<in_file, out_file, open, store>>

\* The program reports a failure and goes on.
OpenInput ==
  /\ phase = "open_input"
  /\ in_file' \in open_file(InHandle)
  /\ open' = {in_file'} \ {Failed}
  /\ phase' = "open_output"
  /\ UNCHANGED <<out_file, store>>

OpenOutput ==
  /\ phase = "open_output"
  /\ out_file' \in open_file(OutHandle)
  /\ open' = open \cup ({out_file'} \ {Failed})
  /\ phase' = "read"
  /\ UNCHANGED <<in_file, store>>

\* No number ends the program.
Read ==
  /\ phase = "read"
  /\ numbers' \in read_int_buffer(in_file)
  /\ read' = read + Len(numbers')
  /\ read' <= MaxNumbers
  /\ phase' = IF numbers' = <<>> THEN "close" ELSE "process"
  /\ UNCHANGED <<in_file, out_file, open, t, limit, out_numbers, to_write, output, taken,
                 writes>>

EndOfBatch ==
  /\ phase = "process" /\ numbers = <<>>
  /\ phase' = "read"
  /\ UNCHANGED <<in_file, out_file, open, store>>

Add ==
  /\ phase = "process" /\ numbers # <<>> /\ Head(numbers) >= 0
  /\ HasRoom(t.heap, NodeSize)
  /\ t' = add_number(t, Head(numbers))
  /\ numbers' = Tail(numbers)
  /\ UNCHANGED <<phase, in_file, out_file, open,
                 limit, out_numbers, to_write, output, taken, read, writes>>

\* The smallest int is its own negation.
Negated(number) == IF number = -2 * MAX_BITS THEN number ELSE -number

Request ==
  /\ phase = "process" /\ numbers # <<>> /\ Head(numbers) < 0
  /\ limit' = Negated(Head(numbers))
  /\ phase' = IF limit' > 0 THEN "take" ELSE "process"
  /\ numbers' = Tail(numbers)
  /\ UNCHANGED <<in_file, out_file, open, t, out_numbers, to_write, output, taken, read,
                 writes>>

\* Mutant: the loop does not stop at an empty tree.
StillWantedForever(count) == limit - count

\* What is still to be taken; a tree that gives no number ends the loop.
StillWanted(count) == IF count = 0 THEN 0 ELSE limit - count

\* Mutant: as many are written as were asked for.
ToWriteAsked(count) == AtMost(limit, BatchMax)

ToWrite(count) == count

\* A turn of the loop up to its writes.
Take ==
  LET result == take_numbers(t, AtMost(limit, BatchMax))
      count == Len(result.buffer)
  IN  /\ phase = "take"
      /\ t' = result.t
      /\ out_numbers' = result.buffer
      /\ to_write' = ToWrite(count)
      /\ taken' = taken \o result.buffer
      /\ limit' = StillWanted(count)
      /\ phase' = "write"
      /\ UNCHANGED <<in_file, out_file, open, numbers, output, read, writes>>

\* What the buffer holds from its start on.
InBuffer(size) == [k \in 1 .. size |-> IF k <= Len(out_numbers) THEN out_numbers[k] ELSE Stale]

\* Each write is given the buffer from its start on; a failure, -1, counts as one more
\* number to write.
Write ==
  /\ phase = "write" /\ to_write > 0
  /\ \E written \in write_int_buffer(out_file, to_write) :
       /\ to_write' = to_write - written
       /\ output' = output \o InBuffer(written)
       /\ cut' = (cut \/ written < to_write)
       /\ failures' = IF written = Failed THEN failures + 1 ELSE failures
  /\ failures' <= MaxFailures
  /\ UNCHANGED <<phase, in_file, out_file, open, t, numbers, limit, out_numbers, taken, read>>

Written ==
  /\ phase = "write" /\ to_write <= 0
  /\ phase' = IF limit > 0 THEN "take" ELSE "process"
  /\ UNCHANGED <<in_file, out_file, open, store>>

Close ==
  /\ phase = "close"
  /\ open' = close_file(close_file(open, in_file), out_file)
  /\ t' = release_tree(t)
  /\ phase' = "done"
  /\ UNCHANGED <<in_file, out_file, numbers, limit, out_numbers, to_write,
                 output, taken, read, writes>>

RadixNext ==
  \/ Usage \/ FilesUnsupported \/ OpenInput \/ OpenOutput
  \/ Read \/ EndOfBatch \/ Add \/ Request
  \/ Take \/ Write \/ Written
  \/ Close

RadixSpec == RadixInit /\ [][RadixNext]_radixVars

-----------------------------------------------------------------------------
Blocks == {HeapStart + i * Rounded(NodeSize) :
             i \in 0 .. ((t.heap.free_space - HeapStart) \div Rounded(NodeSize)) - 1}

\* The free list of the nodes' class after k links.
NodeLink ==
  LET link[k \in 0 .. Cardinality(Blocks)] ==
        IF k = 0 THEN t.heap.small_block_headers[ClassOf(Rounded(NodeSize))]
        ELSE LET block == link[k - 1] IN IF block = NULL THEN NULL ELSE t.heap.word[block]
  IN  link

FreeBlocks == {NodeLink[k] : k \in 0 .. Cardinality(Blocks)} \ {NULL}

Nodes == NodesBelow(t)[MAX_BITS][t.tree]
Empty(nptr) == t.node[nptr].zero = 0 /\ t.node[nptr].one = 0

RadixTypeOK ==
  /\ t.heap \in Heaps /\ t.node \in [NodeAddr -> Node] /\ t.tree \in NodeAddr \cup {NULL}
  /\ phase \in {"usage", "open_input", "open_output", "read", "process", "take",
                "write", "close", "done", "stopped"}
  /\ {in_file, out_file} \subseteq {0, InHandle, OutHandle, Failed}
  /\ open = {in_file, out_file} \ {0, Failed}
  /\ numbers \in Seq(Numbers)
  /\ out_numbers \in Seq(Number) /\ output \in Seq(Number \cup {Stale})
  /\ taken \in Seq(Number)
  /\ limit \in -2 * MAX_BITS .. 2 * MAX_BITS - 1 /\ to_write \in Nat
  /\ cut \in BOOLEAN /\ failures \in Nat

\* radix.c:112 and release_tree: while the program runs, the nodes that the tree
\* reaches are the blocks that it has allocated and not released, each reached once
\* and none of them empty: no number is in released memory and no node is lost.  In
\* the end all are released.
NodesAreBlocksInUse ==
  IF phase = "done" THEN FreeBlocks = Blocks
  ELSE LET nodes == Nodes
       IN  /\ IsInjective(nodes)
           /\ {nptr - Header : nptr \in ToSet(nodes)} = Blocks \ FreeBlocks
           /\ \A nptr \in ToSet(nodes) : ~Empty(nptr)

\* The numbers in the leaves.
Held(nptr) ==
  LET n == t.node[nptr]
      even == 2 * (n.number \div 2)
  IN  IF n.bit_pos > 1 THEN <<>>
      ELSE [i \in 1 .. n.zero |-> even] \o [i \in 1 .. n.one |-> even + 1]

Content == ToBag(FoldLeft(LAMBDA held, nptr : held \o Held(nptr), <<>>, Nodes))

\* add_number, take_numbers and the loop of main around them implement a bag: each
\* number read that is not negative is added once, in the order of the file, and each
\* request -N takes the N smallest, in ascending order, or all there are.
Sorted == INSTANCE SortedStore WITH
            Smallest <- -2 * MAX_BITS,
            pending <- numbers,
            content <- Content,
            want <- IF limit > 0 THEN limit ELSE 0

SortedSpec == Sorted!Spec

\* The loop of writes (radix.c:180-183): the system is given as many ints as were
\* taken, and one more for each write that failed; they are the numbers taken, in
\* their order, as long as no write takes less than it is given.
WritesWhatIsTaken ==
  /\ Len(output) + to_write = Len(taken) + failures
  /\ ~cut => taken = output \o (IF to_write > 0 THEN out_numbers ELSE <<>>)

\* How far the program is from its end, in lexicographic order: what it has not read,
\* not looked at, not taken and not written.
Left ==
  <<MaxNumbers - read, Len(numbers), IF limit > 0 THEN limit ELSE 0, to_write,
    CASE phase = "open_input" -> 5 [] phase = "open_output" -> 4 [] phase = "write" -> 3
      [] phase \in {"take", "process"} -> 2 [] phase = "read" -> 1
      [] phase \in {"usage", "close"} -> 0 [] phase \in {"done", "stopped"} -> -1>>

\* A write that fails, or takes nothing, leaves no less to write.
NothingWritten ==
  /\ phase = "write" /\ to_write' \in {to_write, to_write + 1}
  /\ UNCHANGED <<phase, in_file, out_file, open, t, numbers, limit, out_numbers,
                 output, taken, read>>

\* The loops of main and of its writes (radix.c:162-192) end, for every input and
\* however the output is cut into writes, as each of their steps leaves less to do:
\* all but the writes that fail or take nothing.  The program tries those again, for
\* as long as the system answers so.
Ends ==
  [][\/ \E k \in DOMAIN Left : Left'[k] < Left[k] /\ \A l \in 1 .. k - 1 : Left'[l] = Left[l]
     \/ NothingWritten]_radixVars
=============================================================================
