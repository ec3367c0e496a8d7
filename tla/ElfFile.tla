------------------------------ MODULE ElfFile -------------------------------
(***************************************************************************)
(* The bytes of the object file: ELF32::serialize and what it calls, and   *)
(* the section headers the constructor of ELF32 sets up.                   *)
(*                                                                         *)
(* The stream is the sequence of its bytes, so tellp() at its end is Len.  *)
(* A field is a number; write() cuts it to its size.                       *)
(***************************************************************************)
EXTENDS Words, SequencesExt

LE == 0
BE == 1

(* (u_value >> (8 * i)) & 0xFF *)
Octet(w, i) ==
    LET Bit(b) == IF 8 * i + b \in w THEN 2^b ELSE 0
    IN  Bit(0) + Bit(1) + Bit(2) + Bit(3) + Bit(4) + Bit(5) + Bit(6) + Bit(7)

(* write<T> with sizeof(T) = size. *)
write(w, size, bo) ==
    [i \in 1..size |-> Octet(w, IF bo = LE THEN i - 1 ELSE size - i)]

Byte1(n) == write(U32(n), 1, LE)
Elf32_Half(n) == write(U32(n), 2, LE)
Elf32_Word(n) == write(U32(n), 4, LE)

(* What writing the elements of s in turn adds to the stream, when each    *)
(* takes size bytes.                                                       *)
Pack(Bytes(_), size, s) ==
    [i \in 1..(size * Len(s)) |-> Bytes(s[(i - 1) \div size + 1])[((i - 1) % size) + 1]]
Halves(s) == Pack(Elf32_Half, 2, s)
Words32(s) == Pack(Elf32_Word, 4, s)

-----------------------------------------------------------------------------
(* The ELF header.  Only three of its fields change after init_elf_header. *)

SizeofEhdr == 52
SizeofShdr == 40
ET_REL == 1
EM_RISCV == 243

e_ident == <<127, 69, 76, 70, 1, 1, 1, 0, 0, 0, 0, 0, 0, 0, 0, 0>>

init_elf_header == [e_shoff |-> 0, e_shnum |-> 0, e_shstrndx |-> 0]

Ehdr_serialize(h) ==
    e_ident \o Halves(<<ET_REL, EM_RISCV>>)
      \o Words32(<<1, 0, 0, h.e_shoff, 0>>)     \* e_version, e_entry, e_phoff, e_shoff, e_flags
      \o Halves(<<SizeofEhdr, 0, 0,             \* e_ehsize, e_phentsize, e_phnum
                  SizeofShdr, h.e_shnum, h.e_shstrndx>>)

-----------------------------------------------------------------------------
(* Section headers.                                                        *)

SHT_NULL == 0
SHT_PROGBITS == 1
SHT_SYMTAB == 2
SHT_STRTAB == 3
SHF_WRITE == 1
SHF_ALLOC == 2
SHF_EXECINSTR == 4

(* The names in the order the constructor stores them, and their bytes. *)
section_names == <<".shstrtab", ".strtab", ".symtab", ".text", ".data">>
section_chars ==
    [name \in ToSet(section_names) |->
       CASE name = ".shstrtab" -> <<46, 115, 104, 115, 116, 114, 116, 97, 98>>
         [] name = ".strtab" -> <<46, 115, 116, 114, 116, 97, 98>>
         [] name = ".symtab" -> <<46, 115, 121, 109, 116, 97, 98>>
         [] name = ".text" -> <<46, 116, 101, 120, 116>>
         [] name = ".data" -> <<46, 100, 97, 116, 97>>]

Table == INSTANCE StringTable
            WITH String <- ToSet(section_names), Chars <- section_chars,
                 data <- <<0>>, sh_size <- 1, stored <- {}

(* .shstrtab once the first n names are stored; store_section_name returns *)
(* the offset the next one gets.  The constructor stores all and nothing   *)
(* is added later.                                                         *)
shstrtab_after[n \in 0..Len(section_names)] ==
    IF n = 0 THEN <<0>>
    ELSE Table!add_string_data(shstrtab_after[n - 1], section_chars[section_names[n]])
shstrtab == shstrtab_after[Len(section_names)]

store_section_name(name) ==
    LET n == CHOOSE k \in 1..Len(section_names) : section_names[k] = name
    IN  Table!add_string_offset(shstrtab_after[n - 1])

Shdr(name, type, flags) ==
    [sh_name |-> name, sh_type |-> type, sh_flags |-> flags, sh_addr |-> 0,
     sh_offset |-> 0, sh_size |-> 0, sh_link |-> 0, sh_info |-> 0,
     sh_addralign |-> 0, sh_entsize |-> 0]

init_section_headers == Shdr(0, SHT_NULL, 0)

(* sh_strtab and sh_shstrtab, in the order they are pushed. *)
init_strtables == <<Shdr(store_section_name(".strtab"), SHT_STRTAB, 0),
                    Shdr(store_section_name(".shstrtab"), SHT_STRTAB, 0)>>

(* sh_link and sh_info are constants. *)
init_symtab_link == [Shdr(store_section_name(".symtab"), SHT_SYMTAB, 0)
                       EXCEPT !.sh_link = 2, !.sh_info = 1, !.sh_entsize = 16]
init_symtab == [Shdr(store_section_name(".symtab"), SHT_SYMTAB, 0)
                  EXCEPT !.sh_link = 1, !.sh_info = 1, !.sh_entsize = 16]

init_text_section == Shdr(store_section_name(".text"), SHT_PROGBITS, SHF_ALLOC + SHF_EXECINSTR)
init_data_section == Shdr(store_section_name(".data"), SHT_PROGBITS, SHF_ALLOC + SHF_WRITE)

(* section_headers as the constructor leaves it; index 0 is the first. *)
section_headers ==
    <<init_section_headers>> \o init_strtables
       \o <<init_symtab, init_text_section, init_data_section>>
header_shstrtab == 2

Shdr_serialize(sh) ==
    Words32(<<sh.sh_name, sh.sh_type, sh.sh_flags, sh.sh_addr, sh.sh_offset, sh.sh_size,
              sh.sh_link, sh.sh_info, sh.sh_addralign, sh.sh_entsize>>)

-----------------------------------------------------------------------------
(* Section contents: the stream os with a section added.                   *)

Text_serialize(os, text) == os \o Pack(LAMBDA w : write(w, 4, LE), 4, text)
Data_serialize(os, data) == os \o data
StringTable_serialize(os, table) == os \o table

(* Three words, then st_info, st_other and st_shndx. *)
Sym_serialize(s) ==
    LET words == Words32(<<s.st_name, s.st_value, 0>>)
        rest == Byte1(s.st_info) \o Byte1(0) \o Elf32_Half(s.st_shndx)
    IN  [i \in 1..16 |-> IF i <= 12 THEN words[i] ELSE rest[i - 12]]

Symtab_serialize(os, symtab) == os \o Pack(Sym_serialize, 16, symtab)

(* The sh_offset of a section: where the stream ends before it is added. *)
Placed(sh, os, size) == [sh EXCEPT !.sh_offset = Len(os), !.sh_size = size]

(* The file of an object with these contents.  .text and .data keep the    *)
(* sh_size every push left in their headers; the tables set theirs here.   *)
serialize(text, data, strtab, symtab, sh_size) ==
    LET os1 == Ehdr_serialize(init_elf_header)
        os2 == Text_serialize(os1, text)
        os3 == Data_serialize(os2, data)
        os4 == StringTable_serialize(os3, strtab)
        os5 == StringTable_serialize(os4, shstrtab)
        os6 == Symtab_serialize(os5, symtab)
        sh  == section_headers
        headers ==
          <<sh[1],
            Placed(sh[2], os3, Len(strtab)),
            Placed(sh[3], os4, Len(shstrtab)),
            Placed(sh[4], os5, sh[4].sh_entsize * Len(symtab)),
            Placed(sh[5], os1, sh_size.text),
            Placed(sh[6], os2, sh_size.data)>>
        final == [e_shoff |-> Len(os6), e_shnum |-> Len(headers),
                  e_shstrndx |-> header_shstrtab]
        os7 == os6 \o Pack(Shdr_serialize, SizeofShdr, headers)
    IN  (* seekp(0), and the header once more *)
        Ehdr_serialize(final) \o SubSeq(os7, SizeofEhdr + 1, Len(os7))
=============================================================================
