------------------------ MODULE ToolchainProperties -------------------------
(***************************************************************************)
(* What a user of the two programs may rely on: about the object file as a *)
(* linker reads it, about what the dump tool shows of it, and about the    *)
(* files a call of riscvass touches.                                       *)
(***************************************************************************)
EXTENDS Toolchain, AssemblerProperties

(* The object as a linker reads it, from the bytes of the file alone. *)
Obj == fs[out_filename]
(* The ELF header, .text, .data, the tables and six section headers fit in *)
(* 2^31 - 1 bytes, so that no 32-bit offset or size wraps.                 *)
MaxOffset == 2147483647
Addressable ==
    SizeofEhdr + SizeofInsn * Len(text) + Len(data) + Len(strtab) + Len(shstrtab)
      + SizeofSym * Len(symtab) + 6 * SizeofShdr <= MaxOffset
(* write_elf has just stored it whole; nothing changes it afterwards. *)
Written == file = "complete" /\ status = "running" /\ Addressable

ShAt(i, off) == Num(Obj, ReadEhdr(Obj).e_shoff + SizeofShdr * i + off, 4)
SectionIndices == 0..(ReadEhdr(Obj).e_shnum - 1)
SectionBytes(i) == SubSeq(Obj, ShAt(i, 16) + 1, ShAt(i, 16) + ShAt(i, 20))
SectionName(i) == NameAt(SectionBytes(ReadEhdr(Obj).e_shstrndx), ShAt(i, 0))
SymtabIndex == CHOOSE i \in SectionIndices : ShAt(i, 4) = SHT_SYMTAB
SymAt(k, off, size) == Num(SectionBytes(SymtabIndex), SizeofSym * k + off, size)

-----------------------------------------------------------------------------
(* Through the file alone, whatever the program: every symbol is found,    *)
(* named by the string table its section links to; the indices given to    *)
(* symbols lead to the sections of those names; and the bytes of a string  *)
(* whose symbol is in .data are where the symbol says (elf.cc lines 83-97, *)
(* 113, 138, 451-456).  A string may have a symbol in .text instead, which *)
(* is wrong (ValueInItsSection) and left out here.  .strtab and .shstrtab  *)
(* have each other's index, which no symbol uses.                          *)
LinkerView ==
    Written =>
      LET strings == SectionBytes(ShAt(SymtabIndex, 24))
      IN  /\ Len(SectionBytes(SymtabIndex)) = SizeofSym * Len(symtab)
          /\ \A s \in {".symtab", ".text", ".data"} :
                SectionName(section_to_idx[s]) = section_chars[s]
          /\ \A k \in 1..(Len(symtab) - 1) :
                LET s == symtab[k + 1]
                    home == SymAt(k, 14, 2)
                IN  /\ NameAt(strings, SymAt(k, 0, 4)) = Chars[s.name]
                    /\ DataSymbol(s) /\ SectionName(home) = section_chars[".data"] =>
                          SubSeq(SectionBytes(home), SymAt(k, 4, 4) + 1,
                                 SymAt(k, 4, 4) + Len(s.val)) = s.val

(* The ELF header, the sections and the section header table fill the file *)
(* without a gap or an overlap: every offset was taken where the stream    *)
(* stood, and nothing of an older file is left (elf.cc lines 434-499).     *)
RegionsTile ==
    Written =>
      LET ehdr == ReadEhdr(Obj)
          Region == <<[from |-> 0, size |-> SizeofEhdr],
                      [from |-> ehdr.e_shoff, size |-> SizeofShdr * ehdr.e_shnum]>>
                    \o [i \in 1..(ehdr.e_shnum - 1) |->
                          [from |-> ShAt(i, 16), size |-> ShAt(i, 20)]]
          In(p, i) == Region[i].from <= p /\ p < Region[i].from + Region[i].size
      IN  /\ \A i \in DOMAIN Region : Region[i].from + Region[i].size <= Len(Obj)
          /\ \A p \in 0..(Len(Obj) - 1) :
                \E i \in DOMAIN Region : \A j \in DOMAIN Region : In(p, j) <=> j = i

(* The little-endian word of four bytes. *)
WordOf(bytes) == {b \in 0..31 : (bytes[b \div 8 + 1] \div 2^(b % 8)) % 2 = 1}

DumpOf(path) == dump.called /\ dump.args = <<path>>

(* dis.cc and elf.cc agree on the format: of a complete object the tool    *)
(* lists the six sections with their sizes and shows exactly the words of  *)
(* .text, in order.                                                        *)
DumpShowsProgram ==
    file = "complete" /\ DumpOf(out_filename) /\ Addressable =>
      LET shown == dump.printed
      IN  /\ shown.status = 0 /\ shown.text.found
          /\ [k \in DOMAIN shown.text.lines |-> WordOf(shown.text.lines[k])] = text
          /\ [i \in DOMAIN shown.sections |-> <<shown.sections[i].name, shown.sections[i].size>>] =
                <<<<<<>>, 0>>,
                  <<section_chars[".strtab"], Len(strtab)>>,
                  <<section_chars[".shstrtab"], Len(shstrtab)>>,
                  <<section_chars[".symtab"], SizeofSym * Len(symtab)>>,
                  <<section_chars[".text"], SizeofInsn * Len(text)>>,
                  <<section_chars[".data"], Len(data)>>>>

(* A file cut short by a failed write (elf.cc line 499, which only reports *)
(* it) is never taken for a program: the section headers come last, so the *)
(* tool's read of them fails, and with its stream failed it finds no .text *)
(* although it checks no later read (dis.cc lines 40, 83-109).             *)
TruncationShowsNothing ==
    file = "partial" /\ DumpOf(out_filename) /\ Addressable =>
        dump.printed.sections = <<>> /\ ~dump.printed.text.found

(* A call that ends with a status other than 0 has written nothing; the    *)
(* converse fails, since main ignores what yyparse returns, and a syntax   *)
(* error after a complete statement even comes after the object is written *)
(* (riscvass.y lines 410-442).                                             *)
FailureWritesNothing == status \notin {"running", "0"} => fs = Files

(* No call removes a file, and the only one it overwrites is the one named *)
(* as output or, when none is named, one whose name ends in .o: a source   *)
(* file under another name survives (utils.cc lines 4-16, riscvass.y lines *)
(* 423-432).                                                               *)
SourcesSurvive ==
    [][\A p \in DOMAIN fs :
          /\ p \in DOMAIN fs'
          /\ fs'[p] # fs[p] =>
                IF Len(argv) = 4 THEN p = argv[4]
                ELSE Len(p) > 1 /\ SubSeq(p, Len(p) - 1, Len(p)) = <<".", "o">>]_allVars
=============================================================================
