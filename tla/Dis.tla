-------------------------------- MODULE Dis ---------------------------------
(***************************************************************************)
(* The object dump tool, tools/dis.cc: what it prints of a file.           *)
(*                                                                         *)
(* It reads through one std::ifstream and, but for the ELF header and the  *)
(* section headers, looks at no read's outcome.  ok is the stream's state: *)
(* once a read fails, every later seek and read does nothing and leaves    *)
(* the zeroes its buffer was made with.                                    *)
(***************************************************************************)
EXTENDS ElfFile

(* seekg(off) and read(n): what the buffer holds afterwards. *)
Zeroes(n) == [k \in 1..n |-> 0]
Buffer(file, ok, off, n) ==
    IF ok /\ off < Len(file)
    THEN LET got == SubSeq(file, off + 1, IF off + n < Len(file) THEN off + n ELSE Len(file))
         IN  got \o Zeroes(n - Len(got))
    ELSE Zeroes(n)
Fetch_lenient(file, ok, off, n) == [ok |-> ok, bytes |-> Buffer(file, ok, off, n)]
Fetch(file, ok, off, n) ==
    [ok |-> ok /\ (n = 0 \/ off + n <= Len(file)), bytes |-> Buffer(file, ok, off, n)]

(* A little-endian field of size bytes at offset off of a struct. *)
Num(bytes, off, size) ==
    LET Digit(k) == IF k < size THEN bytes[off + k + 1] * 256^k ELSE 0
    IN  Digit(0) + Digit(1) + Digit(2) + Digit(3)

(* The C string at offset off of a string table, or the name of none. *)
BadName == <<60, 98, 97, 100, 62>>    \* "<bad>"
NameAt(tab, off) ==
    IF off < Len(tab)
    THEN SubSeq(tab, off + 1, SelectInSubSeq(tab, off + 1, Len(tab), LAMBDA c : c = 0) - 1)
    ELSE BadName

ReadEhdr(bytes) == [e_shoff |-> Num(bytes, 32, 4), e_shentsize |-> Num(bytes, 46, 2),
                    e_shnum |-> Num(bytes, 48, 2), e_shstrndx |-> Num(bytes, 50, 2)]

ReadShdr(bytes, i) ==
    LET at == SizeofShdr * i
    IN  [sh_name |-> Num(bytes, at, 4), sh_type |-> Num(bytes, at + 4, 4),
         sh_addr |-> Num(bytes, at + 12, 4), sh_offset |-> Num(bytes, at + 16, 4),
         sh_size |-> Num(bytes, at + 20, 4)]

(* The first lines of both functions below: the section headers, then the  *)
(* string table of their names.                                            *)
LoadSections(file, ok, hdr) ==
    LET read == Fetch(file, ok, hdr.e_shoff, hdr.e_shentsize * hdr.e_shnum)
    IN  [ok |-> read.ok, sections |-> [i \in 1..hdr.e_shnum |-> ReadShdr(read.bytes, i - 1)]]
LoadNames_before(file, ok, hdr, sections) ==
    LET sh == sections[hdr.e_shstrndx] IN Fetch(file, ok, sh.sh_offset, sh.sh_size)
LoadNames(file, ok, hdr, sections) ==
    LET sh == sections[hdr.e_shstrndx + 1] IN Fetch(file, ok, sh.sh_offset, sh.sh_size)

(* One line per section, none when the headers cannot be read. *)
print_section_headers(file, ok, hdr) ==
    LET load == LoadSections(file, ok, hdr)
        names == LoadNames(file, load.ok, hdr, load.sections)
    IN  IF ~load.ok
        THEN [ok |-> FALSE, lines |-> <<>>]
        ELSE [ok |-> names.ok,
              lines |-> [i \in 1..Len(load.sections) |->
                           LET sh == load.sections[i]
                           IN  [name |-> NameAt(names.bytes, sh.sh_name), type |-> sh.sh_type,
                                offset |-> sh.sh_offset, size |-> sh.sh_size]]]

(* The words of the first section named .text, four bytes to a line. *)
print_text_section(file, ok, hdr) ==
    LET load == LoadSections(file, ok, hdr)
        names == LoadNames(file, load.ok, hdr, load.sections)
        text == SelectInSeq(load.sections,
                            LAMBDA sh : NameAt(names.bytes, sh.sh_name) = section_chars[".text"])
        sh == load.sections[text]
        content == Fetch(file, names.ok, sh.sh_offset, sh.sh_size).bytes
        Line(k) == SubSeq(content, 4 * k - 3, IF 4 * k < sh.sh_size THEN 4 * k ELSE sh.sh_size)
    IN  IF text = 0
        THEN [found |-> FALSE, lines |-> <<>>]
        ELSE [found |-> TRUE, lines |-> [k \in 1..((sh.sh_size + 3) \div 4) |-> Line(k)]]

NoDump == [status |-> 1, sections |-> <<>>, text |-> [found |-> FALSE, lines |-> <<>>]]

ELFMAG == <<127, 69, 76, 70>>
ELFCLASS32 == 1

(* main on the arguments after argv[0]; fs maps the files that can be      *)
(* opened to their contents.                                               *)
dis(args, fs) ==
    IF Len(args) # 1 \/ args[1] \notin DOMAIN fs THEN NoDump
    ELSE LET file == fs[args[1]]
             head == Fetch(file, TRUE, 0, SizeofEhdr)
             hdr == ReadEhdr(head.bytes)
             sections == print_section_headers(file, TRUE, hdr)
         IN  IF \/ ~head.ok
                \/ SubSeq(head.bytes, 1, 4) # ELFMAG
                \/ head.bytes[5] # ELFCLASS32
             THEN NoDump
             ELSE [status |-> 0, sections |-> sections.lines,
                   text |-> print_text_section(file, sections.ok, hdr)]
=============================================================================
