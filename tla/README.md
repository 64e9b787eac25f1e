# A verification of the RISC-V simulator

The repository is a simulator for RV32IM programs in C (`src/src`), with four
branch predictors that it compares, a disassembler, an ELF loader, and a set of
guest programs (`src/predictor-benchmarks`). This directory holds TLA+ modules
that model it, configurations for TLC, and proofs for TLAPS. Every definition is
translated from the code; `PROJECT.json` ("map") says from which lines.

Contents: 1 the system, 2 the modules, 3 the runs, 4 the proofs,
5 where code and documentation disagree, 6 what is not covered, 7 the plan.

## 1. The system

| component | state | operations | used by |
|---|---|---|---|
| Simulated memory, `memory.c` | a table of 0x10000 pages of 0x4000 words, allocated on first touch | `memory_create`, `memory_delete`, `memory_wr_w/h/b`, `memory_rd_w/h/b` | loader, arguments, fetch, loads, stores |
| Branch predictors, `simulate.c:545-625` | `bimodal`, `gshare_table` (1024 `unsigned char` counters each), `ghr`, `struct Stat` | `init_branch_predictors`, the update in `execute_b_type` | branch instructions |
| Arithmetic, `simulate.c:9-136` and the branch conditions | none | one function per operation | R-type, I-type and branch instructions |
| Fetch and execute loop, `simulate` | `cpu` (registers, pc, memory), `cpu_running`, `stat`, the flag for the next log line | one turn per instruction; ecalls read and write the standard streams | `main` |
| Decoder, `common.h` | none | one function per instruction format | the loop, the disassembler |
| Disassembler, `disassemble.c` | the caller's text buffer | `disassemble` | log lines, `-d` |
| ELF loader, `read_elf.c`, with the structures of `elf.h` | memory, `struct program_info`, symbol table | `read_elf`, `symbols_read_from_elf`, `symbols_value_to_sym` (never called) | `main` |
| Command line, `main.c` | the log file, memory (program arguments) | argument passing, listing, report | |
| Guest library, `lib.c` | allocator: size classes and free lists in guest memory | `inp`, `outp`, `read_string`, `print_string`, conversions, `allocate`, `release`, `terminate` | the benchmarks |
| Radix tree, `radix.c` | the tree, its nodes in allocated blocks, two open files | `add_number`, `take_numbers`, `release_tree`, the loop over batches | its input file |
| Primes and Fibonacci, `erat.c`, `fib.c` | an array; a call stack | the sieve; the recursion | their arguments |

`main` builds the memory (arguments, then segments), hands it to `simulate`, and
prints the `struct Stat` that comes back. The guest programs run on the machine that
this makes; they call the library, which reaches the host through ecalls.
Nothing is concurrent, nothing is
persistent and there are no messages. What makes the program hard is elsewhere:

- **Long sequences.** A guest program may execute any instructions in any order,
  write over itself, jump anywhere. What must hold at every turn depends on
  counters, tables, history and log that different functions update.
- **Order inside a turn.** State is used after the statement that changes it:
  the predictor tables are indexed by a pc that has already moved, the address
  on a log line likewise, `jalr` writes its link before it reads its base, and
  an inner `flag` hides the one that is returned.
- **Overlays.** Words, halfwords and bytes are different views of the same
  page words; a wrong mask shows only when widths meet.
- **Edges.** The two ends of a counter's scale and its threshold, the page boundary,
  the wrap of addresses, divisions C leaves undefined, sign extensions and the
  difference between signed and unsigned orders.
- **Partial failure.** A misaligned access ends the process in the middle of a
  turn; the host may refuse a page; a segment is missing after others are in memory;
  a write takes a part of what it was given.
- **Two parts that must agree.** Decoder and disassembler, disassembler and execution,
  `main.c` and the start code of a guest, the string conversions in both directions.
- **Shared structures in guest memory.** Free lists run through blocks that were in use,
  tree nodes return to them while a recursion stands on their parents.
- **Stale data.** The text buffer of the log outlives its line.
- **Progress.** The loop ends only through an ecall; some encodings are never left; loops
  over files end only if each turn consumes something.

`PROJECT.json` ("hazards") lists these at their lines, each with the properties
that would catch it going wrong.

What makes each component correct:

- memory: it cannot be told from a flat little-endian array of bytes;
- predictors: counters saturate, a change of behaviour costs a bounded number of
  mispredictions, every misprediction is counted where it was made;
- arithmetic: the identities that connect the operations of the instruction set;
- loop: the tallies of a run agree, only stores write, what ends a run shows in
  its last state, nothing executes after a misaligned jump;
- decoder and disassembler: the word an assembler makes of an instruction decodes to it,
  and is printed under the name of what is computed;
- log: its buffer stays terminated, marks are those of jumps;
- loader and command line: the machine starts with the memory that the file and the
  arguments describe, or not at all; the arguments are what the guest finds;
- guest library: what is read comes out, and the program reaches its end; blocks never overlap
  and none is lost;
- benchmarks: the tree is a sorted bag in exactly the allocated blocks; primes and Fibonacci
  numbers are right, whatever the argument, and the programs end.

## 2. The modules

    Bits ---- Predictor ---- BranchUnit ---- MCBranchUnit     predictors
      \                            \-------- BranchUnitProofs
       \------- Alu ------- AluCheck                          arithmetic
    Memory ---------------- PagedMemory ---- MCPagedMemory    memory
                              |      \------ PagedMemoryProofs
                              | implements
                          FlatMemory
    Memory + Predictor ---- PartsProofs                       lemmas that several proofs share
    Memory + Predictor + Alu
        + Disassembler ---------- Cpu ------ MCCpu            the machine, its log
                                    \------- CpuProofs
    Decoder + Disassembler + AluCheck -- InsnCheck -- MCInsn  instructions
                                    \------- CpuProofs
    Memory + Elf ---- Loader ---- MCLoader                    before the machine
                         \------- LoaderProofs
    Allocator ------- GuestHeap - MCGuestHeap                 guest programs
      \               | implements BlockStore
      |               \-- HeapProofs
       \-- RadixTree ---- Radix - MCRadix
                      | implements SortedStore
                      \-- HeapProofs
    Conversions ----- Fib + Sieve ----- Benchmarks - MCBenchmarks
                                    \------- BenchmarkProofs
    Lemmas                                                    division, induction, folds, sums, powers;
                                                              what all the proofs rest on

**Memory** has the functions of `memory.c` as operators that take the page table
and return the changed table or the value. A word is a function from four byte
lanes: a mask such as `0xffff00ff` is the choice of lanes it keeps, a shift by 8,
16 or 24 is the move between lanes. The number of pages, their size and the
set of byte values are constants.

**PagedMemory** is the machine whose callers use these functions in any order, with
the exits at misaligned addresses (the writes test the address before they touch the
page, the reads after), a `calloc` that returns NULL, and `memory_delete`. `last`
records the last call with the value it wrote or returned.
**FlatMemory** is the promise of `memory.h`: an array of bytes. `PagedMemory`
implements it under the mapping `bytes[addr] = ByteAt(pages, addr)`; since `last`
is shared, each call maps to the same call with the same result.

**Predictor** is the predictor part of `execute_b_type`, with its tables and
counters. `Branch(pc, imm, taken)` is the whole update, in the order of the code,
where `pc` is the address after the branch. **BranchUnit** drives it with a fixed set
of branch instructions taken in any order with any outcomes. Its variables
`last`, `runs`, `wrong` are history: for each bimodal entry, what it was last
trained with, how many runs of equal outcomes it saw, and how many mispredictions it
made. Nothing in the code reads them; they let a property compare the
statistics with the stream of outcomes.

**Alu** computes R-type and I-type results and branch conditions on unsigned
`XLEN`-bit values, with the casts of the code. **AluCheck** states the identities that connect
the operations, for two operands; InsnCheck gives them every value.

**Cpu** is the loop of `simulate` on top of memory, predictors, arithmetic and
disassembler. Its variables are the
fields of `cpu`, `cpu_running` with the ways a process ends (`status`), the
instruction count and predictor counters of `struct Stat`, the flag that the
next log line shows, the last log line (number, arrow, address) with the buffer that its text is put
together in (`result`: its mark and its `strlen`), and the two standard streams. One action is one turn for one kind of
instruction: fetch (which may allocate a page), execution, log line, counters.

| action | code |
|---|---|
| `FetchUnaligned` | the fetch at a misaligned pc |
| `RType`, `DivideFault`, `IType`, `Lui`, `Auipc` | arithmetic; a division that C leaves undefined may trap or leave a value |
| `Load`, `Store` | with the exit at a misaligned address |
| `BType` | the branch, then the predictors |
| `Jal`, `Jalr` | links and jumps; a misaligned target is reported and taken; an unknown `jalr` stays |
| `Ecall` | `Getchar`, `Putchar`, `Stop`, `Unsupported` |
| `Unknown` | every encoding the code skips |
| `NoHostMemory` | a page refused to the fetch or to an aligned access |

`Decode` is a parameter of Cpu: the theorems hold
for every decoder that yields fields in range and takes the zero word, which is what an
untouched page holds, for no instruction; `DecoderFits` proves that the one of
`common.h` is such a decoder. With registers of 8 bits, as in the runs, a word
cannot hold an instruction, and `Decode` is a table. The program is the initial memory,
so self-modifying programs are included.

**Decoder** is `common.h` at its full width: words of 32 bits, signed as C has them, each
immediate put together from its pieces and sign-extended by a shift up and down.
**Disassembler** is the switch trees of `disassemble.c`: for an instruction the name and
the operands it prints, or `Nothing` where it leaves the buffer alone. **InsnCheck** holds
both against an assembler, which is the layout of the instruction set written down once,
and against Alu.

**Elf** has the structures of `elf.h` that are used. A file is what reading it yields: headers
that may be missing, segments that may be shorter than they say, tables that may be empty.
**Loader** is `main`, with `pass_args_to_program`, `read_elf`, `symbols_read_from_elf`
and `disassemble_to_stdout` over the memory of Memory.

| action | code |
|---|---|
| `PassArguments` | the separator, the count, the table and the strings of the arguments |
| `Usage`, `Options` | the usage and its exit; `-l`, `-p`, `-s`, `-d`, a file that does not open |
| `OpenFile` | the file, its header and its magic number |
| `MissingHeader`, `SkipSegment`, `LoadSegment`, `Loaded` | a turn of the loop over the program headers, and its end |
| `ReadSymbols` | the file opened again, which may fail, the section table, the symbol and string tables |
| `List` | `-d` |
| `Simulate`, `Report` | `simulate` as seen from `main`, and the report |
| `NoHostMemory` | a page, a segment or a table refused by the host |

Cpu starts where `Simulate` stands: with any memory, of which Loader says how it came about.

**Allocator** has `allocate` and `release` of `lib.c` as operators that take a heap (the free space,
the list headers, the first word of each block) and return the heap they leave. **GuestHeap** is
a program that calls them in any order; `live`, `carved` and `peak` are history.
**BlockStore** is what an allocator promises. **RadixTree** has the functions of `radix.c` on top
of Allocator, so that nodes come from and return to the same heap, and keep their contents
after a release; **Radix** is its `main`, with one action per library call and per
operation of the tree, and **SortedStore** is what it promises: a bag from which the
smallest are taken. The system that answers the
file ecalls is not this simulator: a run either stops at the first of them, or each call may fail or
do a part of what it was asked for. SortedStore has the same input: the numbers that have been read and not looked at
are shared (`pending`), each that is not negative must be added, once and in its order, and each request must ask for
its own number.

**Conversions** has `str_to_uns`, `uns_to_str` and `print_string` on characters. **Fib** is
`fib.c` with its recursion as an explicit stack; **Sieve** is `erat.c`, one action per turn of
each loop; **Benchmarks** is a run of one of the two.

Wherever the code is recursive or loops over data, the model has a recursive function or a fold. In RadixTree
the functions take the highest bit on which a subtree may branch, which falls with each level of the tree, since
the pointers alone do not show that the recursion ends.

Operators commented "Mutant" are wrong variants of the definition below them, of the kind
an edit of the code could introduce. No definition of the models uses them;
`PROJECT.json` ("mutants") pairs each with a property that it breaks.

### Undefined behaviour

- Division by zero and INT_MIN / -1: either the host traps (`DivideFault`) or the
  result is the one `UndefinedResult` gives. TLC and the theorems cover both.
- Shifts by 32 or more, which the immediate shifts reach because they use all twelve
  bits: hosts take the amount modulo the width, and so does `IResult`.
- A NULL page: the access crashes.
- The text buffer of the log is not initialised: it begins with any `strlen`, also one beyond its
  end (`Init` of Cpu; the runs take a buffer that begins with a NUL and one without any), and is at the
  same place in every turn.
- `fprintf` on a NULL log file crashes (`LoadFails`).
- The negation of the smallest int is that int (`Negated`).

## 3. The runs

| run | module, bounds | question |
|---|---|---|
| `paged_memory` | MCPagedMemory: 2 pages of 2 words, bytes of 2 values, 6 addresses across the page boundary, 2 words of data | does `memory.c` behave as a flat array? |
| `aliasing_branches` | MCBranchUnit: tables of 4, addresses modulo 32, 3 branches with entries that are shared, only targets, only fall-throughs and unused, 8 branches long | do the counters, the tables, the statistics and the history agree, and what does an index taken after the branch reveal? |
| `instructions` | MCInsn: words of 32 bits, every format with register numbers at both ends, immediates with each single bit, every function code, every pair of operands of 4 bits, bytes of one bit | do decoder, disassembler and execution agree, and do the arithmetic identities hold? |
| `free_programs` | MCCpu: 8-bit registers, 64 words of memory, every program of 3 of 22 encodings between two fixed ones, 8 instructions, a log buffer that three unknown instructions fill | do the invariants of the machine and of its log hold in any program? |
| `echo` | MCCpu: a whole program of 49 instructions, from `_start` through `init_heap`, `args_to_main`, `read_string`, `print_string`, `inp` and `outp` to `terminate`; inputs NUL, newline, return, another character, EOF | does a guest print the line it read, and stop? |
| `loader` | MCLoader: 12 command lines, 14 files, 512 bytes of memory in 16 pages, host failures anywhere | does the machine start with what the file and the arguments describe? |
| `guest_heap` | MCGuestHeap: 3 size classes, chunks of 2 and 3 blocks, 88 bytes of heap, 5 sizes around the limits | is every block in one place, and none overlapping? |
| `radix` | MCRadix: numbers of 3 bits, files of up to 5 numbers and requests, batches of 2, writes cut anywhere, one write that fails | is the tree a sorted bag of the numbers read, in the allocated blocks, what is written, and does the program come nearer to its end? |
| `benchmarks` | MCBenchmarks: 19 argument lists of fib.c, 12 array sizes of erat.c around squares of primes, numbers modulo 53 | is what is printed right, is the stack bounded, and do the programs return? |
| `zero_register`, `log_address`, `call` | MCCpu | a statement of the repository that the code contradicts (section 5) |

Bounds and why they suffice:

- *paged_memory* has no bound on the length of behaviours: its state space is finite and
  explored completely. Two pages, two words, neighbouring addresses on both sides of the
  boundary are all the address structure there is; the two data words differ
  between halves and between the bytes of a half, so a swapped lane is visible.
- *aliasing_branches*: `MaxBranches` = 8 is more than the five steps from one end of a counter's
  scale to the other plus a change of direction, and more than the two outcomes a `ghr` of four
  values remembers. Each kind of table entry occurs, and an unknown condition.
- *free_programs*: each program may go round a loop, modify itself, run into
  pages never touched, misalign an access or a jump, and end in any ecall. `MaxInsns` = 8
  is more than the instructions of a program, so loops repeat, and more than the turns that
  fill the buffer of 7, with and without known instructions before.
- *echo*: `MaxInsns` = 100 is never reached by the longest line, of two
  characters, in 100 turns; if it were, `Terminates` would fail.
- *instructions*: an immediate is a sum of its bits in each layout, so one bit at a time and the two
  extremes decide it; all function codes of both switch trees occur. The arithmetic is parametric in
  the width; four bits have both signs, both extreme values and every shift amount. A word is always four
  bytes, so the loads sign-extend bytes of one bit and halves of two.
- *loader*: the files are each way of being wrong (no file, no header, no magic number, a
  segment short, a header missing, no sections, no string table, an empty symbol table), and
  the right ones: text with and without the headers of the file, misaligned, segments over the
  arguments and over each other in both orders, one that is not loaded. Memory beyond
  the segments and arguments takes no part.
- *guest_heap*: `IntMax` is that of the code, far above the sizes asked for. Unbounded in length, explored completely; each class refills at least once, so
  free lists mix blocks of two chunks and of any order of release. `HeapEnd` bounds
  what can be carved.
- *radix*: with three bits every shape of two branchings occurs (0, 1, 2, 5 differ at each bit);
  five numbers suffice for nodes to be released and their blocks used again. `MaxFailures` = 1
  bounds the writes that fail, each of which adds one to what is to be written: one shows the stale number
  behind the buffer and the way the loop goes on.
- *benchmarks*: a width of 53 makes arguments and results wrap; the arguments have leading zeros, several
  digits, a character that is no digit, and no character at all. The array sizes are below, at and
  above squares of primes, and the smallest ones, for which no loop runs.

What the properties say:

- `FlatSpec`: the refinement above.
- `EntryMispredictions`: hysteresis. Each change of behaviour at an entry costs at most three
  mispredictions, the first run at most one. It depends on the start value, the scale
  and the threshold at once.
- `TotalMispredictions`, `StatsAccountForTables`, `HistoryMatchesNT`: the statistics that
  `simulate` returns agree with the mispredictions at the entries, with what the
  tables have learned and with the outcomes `ghr` remembers.
- `OutcomeSelectsEntry`, `OneMispredictionPerTarget`: because the entry is selected by the
  address after the branch, an entry is trained upwards only as a target and
  downwards only as a fall-through. At an entry that is not both, bimodal is charged one
  misprediction if it is a target ever taken and none otherwise, whatever the branches do: the
  reported rate measures aliasing rather than predictability. No document of the repository promises
  otherwise, so this is stated as a property and not as a finding.
- `OperationsAgree`: the operations of the code, related to each other and to integer arithmetic
  (`DivisionIdentity`, `ProductHalves`, `ShiftsMoveBits`, `ImmediatesAgree`, `OrdersAgree`).
- `TalliesAgree`, `DeparturesAreCounted`: branches, mispredictions, instructions and log numbering
  agree, also after an aborted instruction; control leaves the sequence only where the
  log or the never-taken predictor shows it.
- `ExitsAreMisaligned`, `MisalignedIsTheEnd`: why the process exits, and that a misaligned
  jump, which is reported and then made, is followed by nothing but the exit.
- `OnlyStoresWrite`: which bytes an instruction may change.
- `UnknownJumpsHang`: a branch on no condition and an unknown `jalr` are executed for ever,
  where every other unknown encoding is skipped.
- `EchoesLine`, `Terminates`: the guest functions on the machine.
- `DecodesWhatWasAssembled`: decoding undoes assembling, in every format.
- `PrintsWhatRuns`: the switches of the disassembler and of the execution, written apart, agree on
  what is an instruction: an encoding is printed under a name exactly if it is executed (`Acts`), but for the jalr and
  the ecall with a function code that is not zero, which are printed (`disassemble.c:262` and `273`) and not
  executed (`simulate.c:503-516`). The operands printed are the registers and the immediate of the instruction. The results
  of the register, immediate, load and branch operations are what the name means, a lost sign
  extension of a load included, but for exactly srai, mulh and mulhsu, whose results are those of srli and mulhu (`Executed`).
  What jumps, stores and ecalls do is not compared with their names here.
- `StaysTerminated`, `MarksAreJumps`: what the buffer that no turn clears can come to hold.
- `HandsOverTheFile`: memory when `simulate` starts, byte by byte, against the file and the arguments;
  `RunsOnlyWholePrograms`: no machine starts on a part of a program; `ArgumentsReachGuest`: what
  `main.c` writes is what the start code of `lib.c` reads; `ListsText`: what `-d` lists.
- `EveryBlockOnce`: each block ever carved is in use or once in the list of its class, and no byte
  of a block in use is a byte of another block's first word, so that no
  program that keeps to its blocks can change a link or a size; `SpaceFollowsPeak`: releases are reused
  before space is carved; `StoreSpec`: GuestHeap implements BlockStore.
- `NodesAreBlocksInUse`: the nodes that the tree reaches are the blocks not released, through
  every insertion and every removal in the middle of a recursion; `SortedSpec`: Radix
  implements SortedStore, whose input is the numbers that Radix reads: none is dropped or added twice, and a request
  takes as many as it asks for or all there are, the smallest int none. `WritesWhatIsTaken`: the loop of writes gives the
  system as many numbers as were taken, and one more for each write that failed; they are those numbers in their order
  only as long as no write takes less than it was given (`cut`), as each begins at the start of the buffer.
- `DepthFollowsArgument`, `PrintsFibonacci`: the recursion, and the number through both conversions;
  `CrossesOutMultiples`: the loop invariant of the sieve.
- `Ends` of Benchmarks is liveness: both programs return. `Ends` of Radix is the descent that
  termination rests on: every step leaves less, in a lexicographic order of what is not read, not
  looked at, not taken and not written, but for the writes that fail or take nothing (`NothingWritten`). These
  the program repeats for as long as the system answers so, with one more number to write after each failure: on a
  system that always does, it does not end.
- `TypeOK` in each module, `RadixTypeOK` in Radix, is the type invariant. That of Loader is proved and not in a run,
  since what it says of memory `HandsOverTheFile` says byte by byte. In `Cpu` it also says that the flag kept for the
  next log line is never 1: the code that draws an arrow for a taken
  branch is unreachable, since the outcome is assigned to an inner variable.

Fairness: `FairSpec` adds weak fairness of `Next`. The simulator has one thread, and
each turn runs to its end without waiting for anything but `getchar`, whose
answers are the inputs of the model; while the loop can take a turn it does.
`Terminates` needs it, and so does `Ends` of Benchmarks, whose programs wait for nothing.
The action properties of findings are checked under fairness as well, so their counterexamples are not a
machine that merely stops. Deadlock is not checked where a behaviour ends: the process stops, exits,
crashes, or reaches a bound. `instructions` has no such end and is checked.

## 4. The proofs

Theorems hold for all values of the constants that satisfy the named assumptions:
`MemoryAssumption` (sizes, NULL is no page), `AccessAssumption` (addresses are
addresses, data are words), `PredictorAssumption` and `BranchAssumption` (a table size, a xor with natural
values, addresses in range), `AluWidth`, `AluBits` and `AluBytes` (powers of two are what they are, the
bitwise operators stay in a word, a register is four bytes), `CpuAssumption` (the
pages cover the addresses, the decoder yields fields in range), `HistoryRegister` (the table size is a power of
two, as the mask `0x3FF` says), `AllocatorAssumption` and `GuestHeapAssumption` (sizes and where the heap lies;
requests may be of any size, zero and negative ones included, whose rounding is an int), `LoaderAssumption` (bytes are 0 to 255, names have no NUL, a file is
what can be read of it), `ConversionsAssumption`, `SieveAssumption` and `FibAssumption` (an unsigned int has more than one
value and holds the size of the array; an argument is a string that ends with its only NUL), `InsnAssumption` (what fits
the fields of an instruction), `InsnWidth` (the width of a register divides 32, and is a power of two), `RadixTreeAssumption` and `RadixAssumption`
(bits are powers of two from 1 on, without a gap; the numbers of the file are of a width), and the six that
follow. `NodeBlocks` says that a node is served from a class of the allocator and that a chunk holds more than one, so that
one test for room covers the two nodes of an insertion. `AluPowers`, `InsnPowers` and `LoaderPowers` say what powers of two and of 256 are, which the
provers do not know. `AddressesAreWords` says that there are at most 2^32 addresses, so that the address of
an argument survives as a word. `AddressesFit` says that the segments and the arguments end below 2^32: the code
has no test, and its sums of 32 bits (`read_elf.c:87`) would place the rest of a longer segment on the first pages, which
the model does not follow; only `HandsOverTheFile` and `ArgumentsReachGuest` rest on it. The simulator's own values, 32 bits and
1024 entries, satisfy them; TLC evaluates them on the instances of the runs.

| module | theorem | argument |
|---|---|---|
| PagedMemoryProofs | `TypeCorrect`, `Refinement` | PartsProofs gives what each access reads and writes, byte by byte; each action maps to the flat action of the same call, allocation to no change of bytes |
| BranchUnitProofs | `TypeCorrect` | an outcome trains an entry within its scale |
| | `Hysteresis` | see below |
| | `StatsAccount` | an entry crosses the threshold upwards only at a counted misprediction |
| | `TotalsAgree` | a branch adds the same to the statistic and to one entry: `SumChanges` |
| | `HistoryAgrees` | a branch enters at bit 0 and moves the others up, and can only push out the last; see below |
| | `OutcomeVisible`, `OnePerTarget` | an entry that is only a target moves up from 2 and never down: it crosses once; of one that is only a fall-through the mirror image (`Sided`) |
| CpuProofs | `TypeCorrect` | one step per action over the lemmas of the parts |
| | `Tallies` | every turn either retires, or aborts before it counts; a branch counts in both |
| | `ExitCause`, `Misaligned` | only the misaligned actions exit, and they change no register, pc or byte |
| | `StoresOnly` | allocation and reads keep every byte; a store touches its width |
| | `Hang` | an unknown jump changes neither its own word nor pc |
| | `Terminated`, `Marks` | `TurnsEnd`: a turn leaves the buffer alone or ends its line, and each of the three appends is tested against the room left |
| | `Departures` | a branch is charged exactly when it is taken; every other turn but a jump advances |
| | `DecoderFits` | each field is a cut of the word, each immediate a sum of cuts: the assumption that Cpu makes of its decoder |
| | `DecodingIsInjective` | the fields of a format give back all of its cuts, and the cuts give back the word |
| | `DecodedBack` | the word of an instruction is a sum of bits, each at its place: `WordOfFields`, and a lemma per format; see below |
| | `NamesMean` | by cases on the opcode (`ResultsTold`, `OthersTold`): the switch trees of printing and execution meet in `Meanings` and `LoadsAgree`; an immediate that is printed is the one that is added, compared or shifted by |
| | `OperationsRelated` | `Divisions`, `Products`, `Orders`, `Shifts`, `ImmediatesInRegisters`: one lemma for each identity |
| HeapProofs | `TypeCorrect`, `NoBlockLost` | the chains of the free lists, see below |
| | `StoreImplemented` | a block given was free or is new: in both cases it is disjoint from all in use |
| | `HeapFollowsPeak` | a chunk is carved only when the list is empty, so when all blocks of the class are in use; see below |
| | `RadixTypes`, `NodesInUseAreReached` | the shape of the tree, with its nodes as the blocks that are live; see below |
| | `RadixEnds` | each action lowers the first of the components of `Left` that it changes, or is a write that takes nothing |
| | `WritesAgree` | `WritesInv` adds to the property that nothing is left to write when a turn begins, and the whole buffer while nothing was cut |
| | `RadixSorts` | each step of `main` is a step of the bag of numbers that the leaves count, or leaves it alone; see below |
| LoaderProofs | `TypeCorrect` | one step per part of `main` |
| | `WholeProgramsRun`, `TextIsListed` | `HeadersHandled`: what is read is whole, and the text is that of the last executable segment so far |
| | `FileHandedOver` | `MemoryInv`: a segment writes its own bytes over what the first ones left |
| | `ArgumentsArrive` | the bytes of the table and of the texts, each found where the table says |
| BenchmarkProofs | `PrimesListed` | a number that is not crossed out has no prime divisor below it; see below |
| | `StackFollowsArgument`, `FibonacciPrinted` | each frame waits for the number of the frame above it; see below |

`EntryMispredictions` is not inductive: it does not say how far a counter still is from
changing its prediction. The strengthening, `Paid`, adds the potential that remains: the number
of mispredictions that the current run can still cost is what its counter lacks to the
threshold. `EntryPaid` says it of an entry, `PaidStep` that training keeps it. The other invariants
are inductive given `TypeOK`; `OnePerTarget` needs `OutcomeSelectsEntry`
as well. `Hang` and `ExitCause` rest on `SameInstruction`: memory that is equal byte by byte holds
the same instruction, whether its page is allocated or not.

`HistoryMatchesNT` is not inductive either: the counts are equal as long as nothing has been forgotten, and that
nothing has is a statement about the value of `ghr`. `HistoryInv` adds it: `ghr` is below 2^branches while that is no
more than the table size. A branch then finds every bit that is set in a place from which it still moves up
(`HistoryCounts`). That a shift moves bits is `BitEntered` and `BitShifted`, which need the table size to be a
multiple of twice the value of each place: for this it must be a power of two (`PowersDouble`).

`EveryBlockOnce` speaks of the list that following the links yields, and of nothing that says why a step through
the list cannot leave it. The inductive invariant of GuestHeap has three parts. `Layout`: blocks lie below
the free space, share no byte, and each has a class; `Given`: a block in use knows the size of its class and is given once;
`Chained`: for each class there is a sequence that begins at its header, follows the links, has each free
block of the class once, and ends with NULL. Allocation takes the first member of that sequence, a release
puts one before it, and carving a chunk makes a new one; a write to a header changes no other chain, since
blocks share no byte. `Cleared` covers the state before the first call. `GrownAsUsed` adds, for `SpaceFollowsPeak`,
that a class has as many blocks as its chunks hold, and no more in use than its peak: when the list is empty all
are in use, so the one that is asked for raises the peak.

The radix tree lives in the same heap, and its invariant, `RadixInv`, is about both. A set of nodes has three
parts: `Shape`, the pointers of a node lead to nodes that branch on a lower bit, no two pointers lead to the same node, and
one leads to each; `HeapHas`, the allocator's `Sound` holds with these nodes as the blocks in use; `Full`, each of
them counts a number or has a child. `AddNumber` adds one or two nodes at the end of the descent that `Descent` makes.
`take_numbers_2` removes nodes while the recursion is still above them, so there `Full` leaves out the nodes on the
`path` from the root; `CallsKeep` says by induction on the bit that a call keeps the parts and the nodes
of the path, and that no pointer of these changes but the one it was called at, which keeps its node or leads nowhere. That a node is reached exactly once rests on `SubtreesApart`: if
two subtrees shared a node, the shared one that branches on the highest bit would have a pointer in each. `ReleaseTree`
releases the nodes in the order of the code, which leaves the shape of a tree behind and no block in use.

That the tree sorts, `RadixSorts`, is about its numbers. `Agree` says that two numbers have the same bits above a given one,
and `Parted`, the fourth part, that every node agrees with the nodes above it down to the bits that these
branch on and lies on the side that its number's bit says, that no other node has such a number, and that no two nodes branch on
the same bit for the same numbers. A number has then one leaf where it can be counted, which is the
one that `Descent` finds (`DescentEnds`), and `Count` is what its counter says. `AddNumber` raises the count of the
number added by one and keeps all others: a leaf raises its counter, a new one starts at one, and a node put above a
subtree, on the highest bit in which its numbers differ from the new one, moves no number to another side (`AboveCounted`). A call of `take_numbers_2`
appends to the buffer numbers of the subtree it was called at, in ascending order, lowers their counts by as many as were
appended, and leaves a number there only when the buffer is full and holds nothing larger (`Took`): numbers on the side of
zero are smaller (`AgreeOrder`), so what both calls of a node do joins to the same (`BothTaken`), and `TakeNumbers` says it
of the root. The bag of the refinement mapping is computed by a descent over all the nodes; `ContentCounted` shows that it has each number as often as
`Count` says, since the nodes of disjoint subtrees are collected once (`SubtreesCollected`).

The Loader has two invariants. The first, `IInv`, is about control: which headers have been handled in which phase, that
every loadable segment handled is whole, and which segment `text_start` and `text_end` describe. `MemoryInv` is about bytes:
with i headers handled, each address holds the byte of the last segment among the first i that covers it, over
the byte of the arguments, over zero. Segments are written a byte at a time by a fold, and the arguments are joined
by folds: `TextsJoined`, `TableJoined` and the lemmas on `LoadSegment` say what they leave.

The word of an instruction. `Assembled` puts each bit of a number at the place that the layout names for it, so it is a sum over
places. `SumOfBits` says that a number is the sum of its bits, `PieceOfBits` that bits which keep their neighbours
are a piece of the number cut out by a division and a remainder, and moved by a product. A layout is a union of
such pieces (`LaidStore`, `LaidBranch`, `LaidJump`), each below the weight of the next, and cutting such a sum at the
same places gives the pieces back (`FieldsCut`). What is left, for each format, is that the decoder cuts at these places
and that its shift up and down again extends the sign. The invariant, `InsnInv`, is that `word` is the word of `insn`.

The benchmarks. `SieveInv` has, besides the types, what the property says of the numbers and of the texts, with
two facts that it needs: `InnerLoop`, in the inner loop i is a prime and j one of its multiples, and `Lists`, the texts
printed are the primes seen. That the first number not crossed out is a prime rests on `PrimeDivisor` (every number that is
no prime has a prime divisor, by strong induction), and that the loop skips no multiple on `MultiplesApart`.
`FibInv` says of the stack that each frame is the first or the second call of the one below (`Calls`), that the result of a
first call is kept by the frame that made it (`Kept`), and that a result which is returned is the Fibonacci number of the
frame it is returned from, modulo the width (`Results`); the depth bound follows from `Calls` alone. The texts: `DigitsRead` says that the
digits of a number, in the order in which the code writes them, are read back as that number, `NumberIsValue` that a text
which overflows means its value modulo the width, and `TextBeforeNul` and `Flattened` where the text of an argument ends in
memory.

Induction. The library's induction theorems take an operator as a parameter, which the provers at hand do not
instantiate. Lemmas proves the same with sets in place of operators: `Induction` (a set of numbers that has 0 and is closed
under the successor is `Nat`), `BoundedInduction`, `StrongInduction`, `FiniteInduction` over the subsets of a finite set; they rest on
`LeastElement`. A fold of the community modules is a recursive function, of which nothing is known until a function that
satisfies its equation is known to exist: `FoldsExist` shows this for every finite set and every choice of
elements, `LeftFoldsExist` and `LeftFoldRuns` give the folds over sequences as runs from left to right, `SumDefined`,
`SumChanges`, `SumOfZeros` and `SumsBelow` the sums. A recursive function of the models is such a case too:
`RecursionExists` shows that there is one whenever its equation looks only at smaller numbers (`LooksBelow`), and `RunsExist`
does so for a run of steps.

Only model-checked:

- `Terminates`: liveness is out of the prover's reach;
- `EchoesLine`: a property of one program, whose states TLC enumerates;
- `Ends` of Benchmarks: liveness.

## 5. Where code and documentation disagree

Three are runs that TLC ends with a counterexample:

- `zero_register`: `common.h:8` names register 0 "zero"; only `jal` and `jalr` refrain
  from writing it.
- `log_address`: the log promises each instruction with its address (`simulate.c:700`,
  `main.c:19`); the address is that of the next instruction.
- `call`: `jalr ra, ra`, which the assembler makes of the `call` in `lib.c:11`, jumps relative to the link,
  which `simulate.c:141` has already written.

Three are the exceptions that `PrintsWhatRuns` names: `disassemble.c:128` takes bit 30 for srai, and
`execute_i_type` runs `srli` for both; `disassemble.c` prints mulh and mulhsu, and the code multiplies
unsigned values (`simulate.c:73`).

The rest are modelled as the code has them, and no property asks for the contrary:

- the log shows the text of an earlier instruction, or of none, for an encoding that the disassembler
  does not know: `result` is neither initialised nor cleared (`Disassembled` in Cpu);
- after a write that takes a part, `radix.c:181` writes the beginning of the buffer again, so that numbers
  taken are lost and others written twice; a write that fails returns -1, which `radix.c:182` subtracts: the loop goes on
  with one number more, which the buffer does not hold (`Write` and `InBuffer` in Radix);
- a `jalr` or an `ecall` with a function code that is not zero is printed as one and not executed (`PrintsWhatRuns`);
- `close_file` (`lib.c:80`) makes the system call of `open_file`: nothing is closed (`RadixTypeOK`
  says which files stay open);
- the smallest int is negative and takes no numbers, where `radix.c:172` says it takes (`Negated`);
- used as `radix.c:151` says, the program stops at its first file call on this simulator
  (`FilesUnsupported`);
- a file that cannot be opened crashes the simulator, unless it keeps a log (`read_elf.c:12`, `LoadFails`),
  where `main.c:90` tests for a status;
- a program without symbols is refused, where `main.c:92` and `read_elf.h:18` call them optional
  (`SectionsRead`, `SymbolsRead`);
- `-d` leaves out the start of a text segment without the headers of the file (`TextOf`); `ListsText` is
  about the segments with them, and about the last executable segment, the only one listed.

## 6. What is not covered

- `symbols_value_to_sym` and `symbols_delete`: nothing calls the first, the second frees.
- The layout of text: spacing of the disassembly, of log lines and of the report. Which name and
  operands, which marks, and which buffer they go to are modelled.
- The system that answers the file calls of the guest library: outside the repository. In Radix opening
  and writing may fail, a write may take any part of what it is given, none included, and reading may find
  nothing; a read that fails is one that finds nothing, since `radix.c:168` tests `read <= 0`. A system that returns a number
  which no such call can have (more read or written than was asked for, less than -1) is left out.
- Guest code is modelled as machine code only for `echo`; the allocator, the tree and the benchmarks
  are modelled at the level of their C functions. Of the compiled programs beside them (`erat.elf`,
  `fib.elf` and `radix.elf` in `predictor-benchmarks`) nothing is modelled: they are binaries, whose
  code is not the source that the modules are translated from.
- Requests to `allocate` within a few bytes of INT_MAX: `lib.c:161-168` adds the header to the size in an
  int and aligns it, which overflows to a negative number of a class, passes the test for a large block and
  indexes `small_block_headers` out of bounds. That is undefined behaviour of the code, and `GuestHeapAssumption`
  (every size asked for, rounded, is an int) keeps it out of the model.
- The bytes that a program stores are not part of GuestHeap: that they are those of its blocks is assumed.
- The stack of the guest is not part of memory: `fib.c` running into other data is stated as a bound on
  depth instead.
- Of `elf.h`, the header of the C library, only what is used; `Makefile` and `a.in` are a build file and
  input data.
- Host failures other than of memory and of opening files: errors of writing the log, of the terminal.

## 7. The plan

Built, in this order: Memory, PagedMemory and FlatMemory; Predictor and BranchUnit; Alu and
AluCheck; Cpu, which composes them; their proofs; Decoder, Disassembler and InsnCheck; the log in Cpu; Allocator,
GuestHeap and BlockStore; RadixTree and Radix; Elf and Loader; Conversions, Fib, Sieve and Benchmarks; Lemmas, and the
proofs of the allocator, the loader, the sum and the history of the predictors; those of the benchmarks, of the
instructions and of the arithmetic; those of the tree, its nodes first and then its numbers.

What could follow: **Isa**, the step function of the instruction set, and `Cpu` compared with it: `jalr` with equal
registers, register 0, srai, mulh and mulhsu are where the two part.
