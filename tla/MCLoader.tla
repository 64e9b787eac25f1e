------------------------------ MODULE MCLoader ------------------------------
(***************************************************************************)
(* A memory of 512 bytes in 16 pages, the arguments at its middle.         *)
(***************************************************************************)
EXTENDS Loader

MCByte == 0 .. 255

\* Every option, with and without arguments, and what is not a command line.
MCCommandLines ==
  {<<"sim">>, <<"sim", "prog">>, <<"sim", "prog", "-d">>, <<"sim", "prog", "-l", "log">>,
   <<"sim", "prog", "-p", "log">>, <<"sim", "prog", "-s", "log">>,
   <<"sim", "prog", "-d", "log">>, <<"sim", "prog", "-l", "log", "prog">>,
   <<"sim", "prog", "--", "arg">>, <<"sim", "--", "arg">>,
   <<"sim", "prog", "-l", "log", "--", "arg", "", "x">>,
   <<"sim", "prog", "-d", "--", "--", "arg">>}

Names == UNION {ToSet(names) : names \in MCCommandLines}

\* Only the names that are passed on need their own text.
MCChars == [name \in Names |->
              CASE name = "--" -> <<45, 45>>
                [] name = "arg" -> <<97, 114, 103>>
                [] name = "" -> <<>>
                [] OTHER -> <<120>>]

Segment(vaddr, offset, flags, data) ==
  [p_type |-> PT_LOAD, p_offset |-> offset, p_vaddr |-> vaddr,
   p_filesz |-> Len(data), p_flags |-> flags, data |-> data]

Bytes(n, first) == [k \in 1 .. n |-> (first + k) % 256]

\* Text with the headers of a file of two segments, and text without.
TextAfterHeaders == Segment(0, 0, {PF_R, PF_X}, Bytes(SizeOfEhdr + 2 * SizeOfPhdr + 8, 0))
TextAlone == Segment(128, 148, {PF_R, PF_X}, Bytes(12, 20))
Misaligned == Segment(2, 0, {PF_R, PF_X}, Bytes(SizeOfEhdr + SizeOfPhdr + 5, 0))
Data == Segment(200, 160, {PF_R, PF_W}, Bytes(6, 40))

\* Segments over the arguments, and over each other.
OverArguments == Segment(258, 100, {PF_R}, Bytes(6, 80))
OverBoth == Segment(262, 120, {PF_R}, Bytes(3, 90))

Ignored == [Data EXCEPT !.p_type = PT_NULL]
Short == [Data EXCEPT !.data = Bytes(5, 40)]

Section(type, symbols) == [sh_type |-> type, whole |-> TRUE, symbols |-> symbols]
Symbol == [st_name |-> "_start", st_value |-> 128, st_info |-> 16]
Sections == <<Section(SHT_NULL, <<>>), Section(SHT_SYMTAB, <<Symbol>>),
              Section(SHT_STRTAB, <<>>), Section(SHT_STRTAB, <<>>)>>

\* A file whose headers are right, with its section names last.
File(phdrs, shdrs) ==
  [header |-> TRUE, phdrs |-> phdrs, shdrs |-> shdrs,
   ehdr |-> [e_ident |-> ELFMAG, e_entry |-> 128, e_phnum |-> Len(phdrs),
             e_shnum |-> Len(shdrs), e_shstrndx |-> Max({0, Len(shdrs) - 1})]]

Good == File(<<TextAfterHeaders, Data>>, Sections)

MCFiles ==
  {NoFile, Good,
   [Good EXCEPT !.header = FALSE],
   [Good EXCEPT !.ehdr.e_ident = <<>>],
   [Good EXCEPT !.phdrs = <<TextAfterHeaders>>],
   File(<<TextAfterHeaders, Short>>, Sections),
   File(<<TextAlone, Ignored, OverArguments, OverBoth>>, Sections),
   File(<<OverBoth, OverArguments>>, Sections),
   File(<<Misaligned>>, Sections),
   File(<<TextAlone>>, <<>>),
   [Good EXCEPT !.shdrs = SubSeq(Sections, 1, 3)],
   File(<<TextAlone>>, SubSeq(Sections, 1, 3)),
   File(<<TextAlone>>, [Sections EXCEPT ![2].symbols = <<>>]),
   File(<<TextAlone>>, [Sections EXCEPT ![3].whole = FALSE])}
=============================================================================
