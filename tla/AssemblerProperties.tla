------------------------- MODULE AssemblerProperties ------------------------
(***************************************************************************)
(* What the assembler promises: about its label maps, its references, its  *)
(* tables and the object it writes.                                        *)
(***************************************************************************)
EXTENDS Assembler, Isa

SymEntry == [name : Names \cup {NoName}, st_name : Nat, st_value : Nat, st_info : Nat,
             st_shndx : Nat, val : Seq(0..255)]
Reference == [insn_number : Nat, pc_insn_number : Nat \cup {-1},
              insn_type : {"B_TYPE", "J_TYPE"}, hash : Word]

ParserOK ==
    /\ pc \in {"statement", "label", "labelled", "body", "resolve"} \cup Final
    /\ stmtLabel \in Names \cup {NoName}
    /\ pc \in {"label", "labelled", "body"} => stmtLabel \in Names
    /\ items \in Nat
    /\ currentSection \in {"", ".text", ".data"}
    /\ temp_value \in Seq(0..255)
TablesOK ==
    /\ text \in Seq(Word) /\ data \in Seq(0..255) /\ strtab \in Seq(0..255)
    /\ symtab \in Seq(SymEntry)
    /\ sh_size \in [text : Nat, data : Nat, strtab : Nat, symtab : Nat]
    /\ section_to_idx \in [DOMAIN section_to_idx -> Nat]
LabelsOK ==
    /\ resolved_labels \in [DOMAIN resolved_labels -> Nat]
    /\ DOMAIN resolved_labels \subseteq Names
    /\ unresolved_labels \subseteq Names
    /\ label_to_addr \in [DOMAIN label_to_addr -> Nat]
    /\ DOMAIN label_to_addr \subseteq Word
RefsOK ==
    /\ DOMAIN symbols \subseteq Names
    /\ \A s \in DOMAIN symbols : symbols[s].offset_idx = UNRESOLVED_IDX
    /\ unresolved_instructions \in Seq(Reference)
OutputOK == entry \in Nat \ {0} /\ file \in {"none", "partial", "complete"}

(* Every variable holds a value of its C++ type, the parser has a label    *)
(* whenever it is about to use one, and no symbol is ever resolved.        *)
TypeOK == ParserOK /\ TablesOK /\ LabelsOK /\ RefsOK /\ OutputOK

-----------------------------------------------------------------------------
(* Labels and references.                                                  *)

(* elf.h lines 174-180 keep a label's address twice, by name and by hash.  *)
(* Whatever order labels are bound and used in, the address found by hash  *)
(* is that of a bound label with that hash: the label itself, unless two   *)
(* names collide.                                                          *)
AddressByHash ==
    \A l \in DOMAIN resolved_labels :
        /\ Hash[l] \in DOMAIN label_to_addr
        /\ \E m \in DOMAIN resolved_labels :
              Hash[m] = Hash[l] /\ label_to_addr[Hash[l]] = resolved_labels[m]

(* No label is both bound and pending, and no reference recorded for the   *)
(* second pass is to a label that is neither (elf.cc lines 212, 297).      *)
ReferencesTracked ==
    /\ DOMAIN resolved_labels \cap unresolved_labels = {}
    /\ \A k \in 1..Len(unresolved_instructions) :
          \E l \in DOMAIN resolved_labels \cup unresolved_labels :
             Hash[l] = unresolved_instructions[k].hash

(* A bound address is that of an instruction already emitted (or 0).       *)
AddressesInText ==
    \A l \in DOMAIN resolved_labels : resolved_labels[l] < Len(text) \/ resolved_labels[l] = 0

(* The index recorded for a branch, before the branch is pushed to .text,  *)
(* is the one it is stored at, and what is stored there stays a beq until  *)
(* the object is written.  Index 0 is also what get_next_insn_number says  *)
(* outside .section .text, so nothing holds of it.                         *)
BranchesWellPlaced ==
    \A k \in 1..Len(unresolved_instructions) :
        LET e == unresolved_instructions[k]
        IN  /\ e.insn_number <= Len(text)
            /\ e.insn_type = "B_TYPE" => e.insn_number < Len(text)
            /\ e.insn_type = "B_TYPE" /\ e.insn_number > 0 =>
                  Low(text[e.insn_number + 1], 7) = U32(BEQ_32)

(* A label's address never changes once given: the first binding wins over *)
(* a later definition or .globl (elf.cc line 198).                         *)
BindingsStable ==
    [][\A l \in DOMAIN resolved_labels :
          l \in DOMAIN resolved_labels' /\ resolved_labels'[l] = resolved_labels[l]]_vars

(* Only the second pass changes an emitted word, only the one its entry    *)
(* names, and never the word's opcode (elf.cc lines 336-374).              *)
PatchesConfined ==
    [][\A n \in 1..Len(text) :
          /\ n <= Len(text')
          /\ text'[n] # text[n] =>
                /\ pc = "resolve" /\ n = unresolved_instructions[entry].insn_number + 1
                /\ Low(text'[n], 7) = Low(text[n], 7)]_vars

NonColliding(l) == \A m \in Names : Hash[m] = Hash[l] => m = l

(* In a complete object, a branch recorded in .text and patched by no      *)
(* other entry holds twice the distance to the instruction its label was   *)
(* bound to, counted from the instruction before it; a label never bound   *)
(* counts as instruction 0.  No range is checked: of an offset too large   *)
(* for a B-immediate the low 13 bits are kept (elf.cc lines 343-355).      *)
BranchesPatched ==
    file = "complete" =>
        \A k \in 1..Len(unresolved_instructions), l \in Names :
            LET e == unresolved_instructions[k]
                addr == IF label_exists(l) THEN resolved_labels[l] ELSE 0
                offset == 2 * (addr - e.insn_number + 1)
            IN  /\ e.insn_type = "B_TYPE" /\ e.insn_number > 0
                /\ Hash[l] = e.hash /\ NonColliding(l)
                /\ \A j \in 1..Len(unresolved_instructions) \ {k} :
                      unresolved_instructions[j].insn_number # e.insn_number
                => /\ IsMnemonic(text[e.insn_number + 1], "BEQ")
                   /\ ImmB(text[e.insn_number + 1]) = SignExtend(Low(U32(offset), 13), 13)
                   /\ -4096 <= offset /\ offset < 4096 =>
                         ImmB(text[e.insn_number + 1]) = U32(offset)

-----------------------------------------------------------------------------
(* Tables and the object.                                                  *)

DataSymbol(s) == s.val # <<>>

(* One symbol per bound label, however often it is defined or made global  *)
(* (elf.cc lines 198, 226).                                                *)
OneSymbolPerLabel ==
    \A l \in Names :
        Cardinality({k \in 2..Len(symtab) : symtab[k].name = l /\ ~DataSymbol(symtab[k])})
          = IF label_exists(l) THEN 1 ELSE 0

(* The offset Data::push returned for a string, kept in the st_value of    *)
(* its symbol, goes on being the place of its bytes in .data, whatever is  *)
(* pushed after it (data.cc lines 20-28).  Whether st_shndx says .data as  *)
(* well is the subject of ValueInItsSection below.                         *)
DataIntact ==
    \A k \in 1..Len(symtab) :
        LET s == symtab[k]
        IN  DataSymbol(s) =>
               /\ s.st_value + Len(s.val) <= Len(data)
               /\ \A n \in 1..Len(s.val) : data[s.st_value + n] = s.val[n]

(* Every sh_size is the size of what will be serialized: .text is written  *)
(* without setting it again (text.cc, data.cc, symtab.cc, strtab.cc).      *)
SizesAgree ==
    sh_size = [text |-> SizeofInsn * Len(text), data |-> Len(data),
               strtab |-> Len(strtab), symtab |-> SizeofSym * Len(symtab)]

(* section_to_idx[section] of add_program_data (elf.cc line 399) never     *)
(* inserts a section: a value is pending only after .ascii, which names    *)
(* one.                                                                    *)
SectionsKnown ==
    /\ DOMAIN section_to_idx = {".shstrtab", ".strtab", ".symtab", ".text", ".data"}
    /\ temp_value # <<>> => currentSection \in DOMAIN section_to_idx

(* The strings of the symbol table form a StringTable: every symbol's name *)
(* was added once, and its st_name goes on naming it (strtab.cc).          *)
StrtabSpec == Strtab!Spec

(* Resolution by hash is resolution by name while no two names collide:    *)
(* the references recorded with a hash, the two maps and the second pass   *)
(* of elf.cc lines 262-305 and 323-374 implement LabelSpec, whatever order *)
(* labels are used, bound, bound again and made global in.                 *)
Resolution ==
    INSTANCE LabelSpec
       WITH bound <- resolved_labels,
            waiting <- [k \in DOMAIN unresolved_instructions |->
                          CHOOSE l \in Names : Hash[l] = unresolved_instructions[k].hash],
            answers <- [k \in 1..(entry - 1) |-> label_to_addr[unresolved_instructions[k].hash]]
ResolvesByName == Resolution!Spec

(* The assembler ends: the second pass visits every entry once and the     *)
(* parse ends with the input.                                              *)
Termination == <>(pc \in Final)

-----------------------------------------------------------------------------
(* What a comment or a test of the repository says and the code does not   *)
(* do.                                                                     *)

(* riscvass.y line 293, "alias of: jal x0, label": what the second pass    *)
(* rewrites for a j of .section .text is a jal.                            *)
JumpPatchesJump ==
    [][\A k \in {entry} \cap 1..Len(unresolved_instructions) :
          LET e == unresolved_instructions[k]
          IN  pc = "resolve" /\ e.insn_type = "J_TYPE"
              /\ 0 < e.insn_number /\ e.insn_number < Len(text) =>
                 Low(text[e.insn_number + 1], 7) = U32(JAL_32)]_vars

(* tests/strlen.s line 10, "if str[i] == 0, break": a forward beq, once    *)
(* patched, goes to the instruction its label is bound to.                 *)
BranchReachesLabel ==
    file = "complete" =>
        \A k \in 1..Len(unresolved_instructions), l \in DOMAIN resolved_labels :
            LET e == unresolved_instructions[k]
            IN  /\ e.insn_type = "B_TYPE" /\ Hash[l] = e.hash
                /\ 0 < e.insn_number /\ e.insn_number < resolved_labels[l]
                => ImmB(text[e.insn_number + 1]) =
                      U32(SizeofInsn * (resolved_labels[l] - e.insn_number))

(* encoding.h lines 1-3, "implements the instructions based on [...] The   *)
(* RISC-V Instruction Set Manual": the displacement of a branch to a label *)
(* that is bound already, emitted as riscvass.y lines 258-263 do ("FIXME:  *)
(* seems to be a bug here?"), is the distance from the branch.             *)
BackwardBranchReachesLabel ==
    [][\A i \in Insns :
          BranchResolved(i) =>
             ImmB(text'[Len(text')]) = U32(SizeofInsn * (resolved_labels[i.sym] - Len(text)))]_vars

(* elf.cc line 400, "offset in relation to the section identified in       *)
(* st_shndx": the section a data symbol names is the one that its st_value *)
(* is an offset into, .data.                                               *)
ValueInItsSection ==
    \A k \in 1..Len(symtab) :
        DataSymbol(symtab[k]) => symtab[k].st_shndx = section_to_idx[".data"]

(* tests/strlen.s lines 7-12, "repeat": a label names the first            *)
(* instruction of its block.  The first block of a file starts at 0.       *)
LabelStartsBlock ==
    [][EndBlock /\ DOMAIN resolved_labels = {} => resolved_labels'[stmtLabel] = 0]_vars
=============================================================================
