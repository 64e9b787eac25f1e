------------------------------- MODULE Loader -------------------------------
(***************************************************************************)
(* main.c and read_elf.c: a run of the simulator, from its command line to *)
(* the end of the process.  It puts the arguments of the guest program     *)
(* into the simulated memory, loads the segments of the ELF file over them,*)
(* reads the symbols, and lists the text segment or simulates.             *)
(*                                                                         *)
(* simulate is the module Cpu, which starts with the memory that this one  *)
(* hands over; here it returns, ends the process, or goes on for ever.     *)
(***************************************************************************)
EXTENDS Memory, Elf, SequencesExt

CONSTANTS
  CommandLines,  \* sequences of names; the first is the simulator's
  Chars,         \* the characters of each name, without the NUL
  Files,         \* what the file may hold: of ElfFile, or NoFile
  NoFile,
  ArgBase        \* where the arguments go (0x1000000)

ASSUME LoaderAssumption ==
  /\ Byte = 0 .. 255 /\ Zero = 0
  /\ \A name \in DOMAIN Chars : Chars[name] \in Seq(1 .. 255)
  /\ \A names \in CommandLines : names \in Seq(DOMAIN Chars) /\ Len(names) > 0
  /\ NoFile \in Files /\ Files \ {NoFile} \subseteq ElfFile
  /\ \A f \in Files \ {NoFile} : Len(f.phdrs) <= f.ehdr.e_phnum
  /\ ArgBase \in Addr /\ ArgBase % 4 = 0

\* The weights of the bytes of a word.
ASSUME LoaderPowers == \A l \in Lane : 256^l = <<1, 256, 65536, 16777216>>[l + 1]

VARIABLES
  argv, file,    \* what the run is given
  phase,         \* the part of main that comes next
  argc,          \* main's, without the arguments of the program
  mem,
  log, prof,     \* whether the files of -l and -p are open
  i,             \* the program headers that read_elf has handled
  info,          \* struct program_info
  listing,       \* the addresses listed by -d
  code           \* how the process ended

vars == <<argv, file, phase, argc, mem, log, prof, i, info, listing, code>>

program_info == [text_start : Nat, text_end : Nat, start : Nat]

\* argv[k] of C, and the options.
Argv(k) == argv[k + 1]
Option(n, name) == argc = n /\ Argv(2) = name

End(how) == phase' = "ended" /\ code' = how

Init ==
  /\ argv \in CommandLines
  /\ file \in Files
  /\ phase = "arguments"
  /\ argc = Len(argv)
  /\ mem = memory_create
  /\ log = FALSE /\ prof = FALSE
  /\ i = 0
  /\ info = [text_start |-> 0, text_end |-> 0, start |-> 0]
  /\ listing = <<>>
  /\ code = "running"

-----------------------------------------------------------------------------
\* A word and a byte as the lanes that memory.c takes.
LanesOf(v) == [l \in Lane |-> (v \div 256^l) % 256]
PutWord(m, addr, v) == memory_wr_w(m, addr, LanesOf(v))
PutByte(m, addr, v) == memory_wr_b(m, addr, LanesOf(v))

\* Consecutive bytes: every page takes those that fall in it.
PutBytes(m, addr, bytes) ==
  LET In(page) == {k \in DOMAIN bytes : PageNumber(addr + k - 1) = page}
  IN  [page \in DOMAIN m |->
         FoldSet(LAMBDA k, t : PutByte(t, addr + k - 1, bytes[k]), m, In(page))[page]]

\* The separator is looked for after the simulator's own name.
Separators(names) == {k \in 1 .. Len(names) - 1 : names[k + 1] = "--"}
Position(names) ==
  IF Separators(names) = {} THEN Len(names) ELSE Min(Separators(names))

\* The arguments of the program: the separator is the first.
ProgramArgs(names) == SubSeq(names, Position(names) + 1, Len(names))

\* Mutant: the strings begin at the table.
StringAddressLow(args, k) ==
  ArgBase + 4
    + FoldLeft(LAMBDA sum, name : sum + Len(Chars[name]) + 1, 0, SubSeq(args, 1, k - 1))

\* Where the string of an argument begins: after the ones before it.
StringAddress(args, k) ==
  ArgBase + 4 + 4 * Len(args)
    + FoldLeft(LAMBDA sum, name : sum + Len(Chars[name]) + 1, 0, SubSeq(args, 1, k - 1))

PassArgument(args, m, k) ==
  PutBytes(PutWord(m, ArgBase + 4 * k, StringAddress(args, k)),
           StringAddress(args, k), Append(Chars[args[k]], 0))

\* pass_args_to_program.
PassArguments ==
  LET args == ProgramArgs(argv)
  IN  /\ phase = "arguments"
      /\ mem' = IF args = <<>> THEN mem
                ELSE FoldLeft(LAMBDA m, k : PassArgument(args, m, k),
                              PutWord(mem, ArgBase, Len(args)), [k \in DOMAIN args |-> k])
      /\ argc' = Position(argv)
      /\ phase' = "options"
      /\ UNCHANGED <<argv, file, log, prof, i, info, listing, code>>

\* terminate, of main.c: the usage, and exit(-1).
Terminate == End("exit -1")

Usage ==
  /\ phase = "options" /\ argc \notin {2, 3, 4}
  /\ Terminate
  /\ UNCHANGED <<argv, file, argc, mem, log, prof, i, info, listing>>

\* A file that is asked for may not open.
Options ==
  /\ phase = "options" /\ argc \in {2, 3, 4}
  /\ log' \in IF Option(4, "-l") THEN BOOLEAN ELSE {FALSE}
  /\ prof' \in IF Option(4, "-p") THEN BOOLEAN ELSE {FALSE}
  /\ IF (Option(4, "-l") /\ ~log') \/ (Option(4, "-p") /\ ~prof') THEN Terminate
     ELSE phase' = "open" /\ UNCHANGED code
  /\ UNCHANGED <<argv, file, argc, mem, i, info, listing>>

-----------------------------------------------------------------------------
\* read_elf reports a failure through the log file.  Without one it writes through
\* a NULL pointer, and main does not get to exit with its status.
LoadFails == IF log THEN End("exit -1") ELSE End("crashed")

Recognised ==
  /\ file # NoFile
  /\ file.header /\ file.ehdr.e_ident = ELFMAG

OpenFile ==
  /\ phase = "open"
  /\ \/ /\ ~Recognised
        /\ LoadFails
        /\ UNCHANGED info
     \/ /\ Recognised
        /\ info' = [text_start |-> 0, text_end |-> 0, start |-> file.ehdr.e_entry]
        /\ phase' = "segments"
        /\ UNCHANGED code
  /\ UNCHANGED <<argv, file, argc, mem, log, prof, i, listing>>

\* Mutant: the headers count as text.
TextWithHeaders(phdr) ==
  [info EXCEPT !.text_start = phdr.p_vaddr, !.text_end = phdr.p_vaddr + phdr.p_filesz]

\* The headers of the file are taken to lie in front of the code, in the segment.
TextOf(phdr) ==
  [info EXCEPT !.text_start = phdr.p_vaddr + SizeOfEhdr + file.ehdr.e_phnum * SizeOfPhdr,
               !.text_end = phdr.p_vaddr + phdr.p_filesz]

\* Mutant: what there is of a segment is enough.
WholeEnough(phdr) == Len(phdr.data) <= phdr.p_filesz

Whole(phdr) == Len(phdr.data) = phdr.p_filesz

\* Mutant: a file offset for an address.
PlacedAtOffset(phdr) == PutBytes(mem, phdr.p_offset, phdr.data)

Placed(phdr) == PutBytes(mem, phdr.p_vaddr, phdr.data)

\* A turn of the loop over the program headers.  The host may not have the memory
\* for a segment; one that is not all there leaves the segments before it loaded.
MissingHeader ==
  /\ phase = "segments" /\ i < file.ehdr.e_phnum /\ i >= Len(file.phdrs)
  /\ LoadFails
  /\ UNCHANGED <<argv, file, argc, mem, log, prof, i, info, listing>>

SkipSegment ==
  /\ phase = "segments" /\ i < file.ehdr.e_phnum /\ i < Len(file.phdrs)
  /\ file.phdrs[i + 1].p_type # PT_LOAD
  /\ i' = i + 1
  /\ UNCHANGED <<argv, file, phase, argc, mem, log, prof, info, listing, code>>

LoadSegment ==
  LET phdr == file.phdrs[i + 1]
  IN  /\ phase = "segments" /\ i < file.ehdr.e_phnum /\ i < Len(file.phdrs)
      /\ phdr.p_type = PT_LOAD
      /\ info' = IF PF_X \in phdr.p_flags THEN TextOf(phdr) ELSE info
      /\ \/ /\ Whole(phdr)
            /\ mem' = Placed(phdr)
            /\ i' = i + 1
            /\ UNCHANGED <<phase, code>>
         \/ /\ LoadFails
            /\ UNCHANGED <<mem, i>>
      /\ UNCHANGED <<argv, file, argc, log, prof, listing>>

Loaded ==
  /\ phase = "segments" /\ i >= file.ehdr.e_phnum
  /\ phase' = "symbols"
  /\ UNCHANGED <<argv, file, argc, mem, log, prof, i, info, listing, code>>

-----------------------------------------------------------------------------
\* symbols_read_from_elf.  With the sizes of fread the wrong way around a table
\* without entries counts as one that cannot be read.
SectionsRead == file.ehdr.e_shnum > 0 /\ Len(file.shdrs) = file.ehdr.e_shnum

\* The last of each counts; the string table of the sections is not one.
SymbolTables == {k \in DOMAIN file.shdrs : file.shdrs[k].sh_type = SHT_SYMTAB}
StringTables == {k \in DOMAIN file.shdrs :
                   file.shdrs[k].sh_type = SHT_STRTAB /\ k - 1 # file.ehdr.e_shstrndx}

SymbolsRead ==
  /\ SectionsRead
  /\ SymbolTables # {} /\ StringTables # {}
  /\ file.shdrs[Max(StringTables)].whole
  /\ file.shdrs[Max(SymbolTables)].whole
  /\ file.shdrs[Max(SymbolTables)].symbols # <<>>

\* The file is opened again, and may not open this time.
ReadSymbols ==
  /\ phase = "symbols"
  /\ \/ /\ SymbolsRead
        /\ phase' = IF Option(3, "-d") THEN "list" ELSE "simulate"
        /\ UNCHANGED code
     \/ End("exit -1")
  /\ UNCHANGED <<argv, file, argc, mem, log, prof, i, info, listing>>

\* disassemble_to_stdout, which ends at an address that is not aligned.
Lines == [k \in 1 .. (info.text_end - info.text_start + 3) \div 4 |->
            info.text_start + 4 * (k - 1)]

List ==
  /\ phase = "list"
  /\ IF Lines # <<>> /\ ~Aligned(info.text_start, 4)
     THEN End("exit -1") /\ UNCHANGED <<mem, listing>>
     ELSE /\ listing' = Lines
          /\ mem' = FoldLeft(get_page, mem, Lines)
          /\ End("exit 0")
  /\ UNCHANGED <<argv, file, argc, log, prof, i, info>>

\* simulate may return, end the process, or do neither.  Nothing reads the memory
\* after it.
Simulate ==
  /\ phase = "simulate"
  /\ (phase' = "report" /\ UNCHANGED code) \/ End("in simulate")
  /\ UNCHANGED <<argv, file, argc, mem, log, prof, i, info, listing>>

\* The file of -s is opened after the simulation.
Report ==
  /\ phase = "report"
  /\ IF Option(4, "-s") THEN Terminate \/ End("exit 0") ELSE End("exit 0")
  /\ log' = FALSE
  /\ UNCHANGED <<argv, file, argc, mem, prof, i, info, listing>>

\* The host has no memory for a page, or for the tables of symbols.
NoHostMemory ==
  /\ phase \in {"arguments", "segments", "symbols", "list"}
  /\ End("crashed")
  /\ UNCHANGED <<argv, file, argc, mem, log, prof, i, info, listing>>

Next ==
  \/ NoHostMemory
  \/ PassArguments \/ Usage \/ Options
  \/ OpenFile \/ MissingHeader \/ SkipSegment \/ LoadSegment \/ Loaded
  \/ ReadSymbols \/ List \/ Simulate \/ Report

Spec == Init /\ [][Next]_vars

-----------------------------------------------------------------------------
\* Memory keeps to whole pages of bytes, at most the headers counted are handled.
TypeOK ==
  /\ phase \in {"arguments", "options", "open", "segments", "symbols", "list",
                "simulate", "report", "ended"}
  /\ argc \in 1 .. Len(argv)
  /\ mem \in PageTable
  /\ {log, prof} \subseteq BOOLEAN
  /\ i \in Nat /\ (file # NoFile => i <= file.ehdr.e_phnum)
  /\ info \in program_info
  /\ listing \in Seq(Nat)
  /\ code \in {"running", "exit 0", "exit -1", "crashed", "in simulate"}
  /\ (code = "running") = (phase # "ended")

\* The loadable segments that cover an address.
Covering(addr) ==
  {k \in DOMAIN file.phdrs :
     /\ file.phdrs[k].p_type = PT_LOAD
     /\ addr - file.phdrs[k].p_vaddr \in 0 .. file.phdrs[k].p_filesz - 1}

\* The arguments as bytes from ArgBase on: their number, their table, their text.
ArgumentBytes ==
  LET args == ProgramArgs(argv)
      Little(v) == [k \in 1 .. 4 |-> (v \div 256^(k - 1)) % 256]
      texts == FoldLeft(LAMBDA text, name : text \o Chars[name] \o <<0>>, <<>>, args)
      table == FoldLeftDomain(LAMBDA words, k : words \o Little(StringAddress(args, k)),
                              <<>>, args)
  IN  IF args = <<>> THEN <<>> ELSE Little(Len(args)) \o table \o texts

\* An address is a word, and every segment and text ends within the addresses.
ASSUME AddressesAreWords == PageWords * NPages <= 1073741824

ASSUME AddressesFit ==
  /\ \A f \in Files \ {NoFile} : \A k \in DOMAIN f.phdrs :
       f.phdrs[k].p_vaddr + f.phdrs[k].p_filesz <= 4 * PageWords * NPages
  /\ \A names \in CommandLines :
       LET args == ProgramArgs(names)
       IN  StringAddress(args, Len(args) + 1) <= 4 * PageWords * NPages

\* The program gets the memory that its file describes (pass_args_to_program and
\* read_elf write the same memory): at each address the byte of the last loadable
\* segment that covers it, over that of the arguments, and zero where there is neither.
HandsOverTheFile ==
  phase \in {"simulate", "list"} =>
    LET arguments == ArgumentBytes
    IN  \A addr \in Addr :
          ByteAt(mem, addr) =
            IF Covering(addr) # {}
            THEN LET phdr == file.phdrs[Max(Covering(addr))]
                 IN  phdr.data[addr - phdr.p_vaddr + 1]
            ELSE IF addr - ArgBase + 1 \in DOMAIN arguments
            THEN arguments[addr - ArgBase + 1] ELSE 0

\* read_elf.c:79: a program of which a header or a segment is missing is neither run
\* nor listed, although a part of it is in memory already.
RunsOnlyWholePrograms ==
  phase \in {"symbols", "simulate", "list", "report"} =>
    /\ file.header /\ Len(file.phdrs) >= file.ehdr.e_phnum
    /\ \A k \in 1 .. file.ehdr.e_phnum :
         file.phdrs[k].p_type = PT_LOAD => Len(file.phdrs[k].data) = file.phdrs[k].p_filesz

WordAtAddress(addr) ==
  ByteAt(mem, addr) + 256 * ByteAt(mem, addr + 1) + 65536 * ByteAt(mem, addr + 2)
    + 16777216 * ByteAt(mem, addr + 3)

\* Up to the first NUL, or else to the end of the addresses.
TextAt(addr) ==
  LET ends == {k \in 0 .. 4 * PageWords * NPages - 1 - addr : ByteAt(mem, addr + k) = 0}
                \cup {4 * PageWords * NPages - addr}
  IN  [k \in 1 .. Min(ends) |-> ByteAt(mem, addr + k - 1)]

\* What the guest's main is called with: its start code has the address of the
\* arguments as a constant of its own.
args_to_main(args_ptr) == [argc |-> WordAtAddress(args_ptr), argv |-> args_ptr + 4]

\* pass_args_to_program writes what args_to_main of lib.c reads: the guest's main gets
\* the arguments after the separator, the separator first, or none at all, unless a
\* segment lies over them.
ArgumentsReachGuest ==
  LET args == ProgramArgs(argv)
      area == ArgBase .. ArgBase + 3 + Len(ArgumentBytes)
      guest == args_to_main(ArgBase)
  IN  phase = "simulate" /\ (\A addr \in area : Covering(addr) = {}) =>
        /\ guest.argc = Len(args)
        /\ \A k \in DOMAIN args :
             TextAt(WordAtAddress(guest.argv + 4 * (k - 1))) = Chars[args[k]]

\* The loadable segments that are executable.
ExecutableSegments ==
  {k \in DOMAIN file.phdrs : file.phdrs[k].p_type = PT_LOAD /\ PF_X \in file.phdrs[k].p_flags}

\* main.c:18, "disassemble text segment to stdout": with -d each word of the last
\* executable segment is listed once, and nothing else, where the headers of the file
\* are a part of that segment: they are not text.
ListsText ==
  LET phdr == file.phdrs[Max(ExecutableSegments)]
      headers == SizeOfEhdr + file.ehdr.e_phnum * SizeOfPhdr
      listed == phase = "ended" /\ code = "exit 0" /\ Option(3, "-d")
  IN  listed /\ ExecutableSegments # {} /\ phdr.p_offset = 0 =>
        /\ ToSet(listing) =
             {addr \in phdr.p_vaddr + headers .. phdr.p_vaddr + phdr.p_filesz - 1 :
                addr % 4 = 0}
        /\ IsInjective(listing)
=============================================================================
