-------------------------------- MODULE Elf ---------------------------------
(***************************************************************************)
(* The part of elf.h that read_elf.c uses, and the file as its functions   *)
(* read it: the headers, the segments with the bytes that the file has for *)
(* them, the sections.  A file may end anywhere.                           *)
(***************************************************************************)
EXTENDS Integers, Sequences

\* The sizes of the types.
Half == 2
Word32 == 4

\* The sizes of the structures: e_ident and the fields after it.
SizeOfEhdr == 16 + 2 * Half + 5 * Word32 + 6 * Half
SizeOfPhdr == 8 * Word32

ELFMAG == <<127, "E", "L", "F">>

SHT_NULL == 0
SHT_SYMTAB == 2
SHT_STRTAB == 3

PT_NULL == 0
PT_LOAD == 1

PF_X == "X"
PF_W == "W"
PF_R == "R"

\* A program header, and data, the bytes of the segment that the file holds: at
\* most p_filesz.
Elf32_Phdr == [p_type : {PT_NULL, PT_LOAD}, p_offset : Nat, p_vaddr : Nat,
               p_filesz : Nat, p_flags : SUBSET {PF_X, PF_W, PF_R},
               data : Seq(0 .. 255)]

\* A section header, whether the file holds all of the section, and what is in it:
\* symbols for a symbol table.
Elf32_Sym == [st_name : STRING, st_value : Nat, st_info : 0 .. 255]
Elf32_Shdr == [sh_type : {SHT_NULL, SHT_SYMTAB, SHT_STRTAB}, whole : BOOLEAN,
               symbols : Seq(Elf32_Sym)]

\* e_phnum and e_shnum are what the header says, phdrs and shdrs what can be read of
\* as many.
Elf32_Ehdr == [e_ident : {ELFMAG, <<>>}, e_entry : Nat, e_phnum : Nat,
               e_shnum : Nat, e_shstrndx : Nat]

\* header is FALSE for a file that is shorter than its header.
ElfFile == [header : BOOLEAN, ehdr : Elf32_Ehdr,
            phdrs : Seq(Elf32_Phdr), shdrs : Seq(Elf32_Shdr)]
=============================================================================
