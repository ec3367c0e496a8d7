----------------------------- MODULE Assembler ------------------------------
(***************************************************************************)
(* The assembler proper: the grammar actions of riscvass.y driving the     *)
(* ELF32 object of elf.cc.                                                 *)
(*                                                                         *)
(* The input is any sentence of the grammar, one production at a time: a   *)
(* statement is a directive, a label and a directive, or a label and a     *)
(* block of instructions.  A label is bound when its block ENDS.  A branch *)
(* or jump to a label not bound yet is recorded, and once the whole input  *)
(* is parsed a second pass patches the recorded instructions and the       *)
(* object file is written.                                                 *)
(*                                                                         *)
(* Not state here: offset, op_status, sym, temp_inst and temp_opcode are   *)
(* assigned before each use within one action, and the only read of        *)
(* currentLabel follows its assignment in the same instruction.            *)
(***************************************************************************)
EXTENDS Codegen, Sequences, FiniteSets

CONSTANTS Names,     \* the symbols a source file uses
          Chars,     \* the characters of each one
          Hash,      \* hasher(): the 32-bit FNV-1a hash of each one
          Values,    \* the texts of .ascii strings, quotes included
          Insns,     \* the instructions a source file uses
          JumpBits,  \* the width of a j offset; 21 in the code
          MaxItems   \* bound: labels, instructions and directives in a file

ASSUME CharsAssumption == Chars \in [Names -> Seq(1..255)]
ASSUME HashAssumption == Hash \in [Names -> Word]
ASSUME ValuesAssumption == Values \subseteq Seq(0..255) \ {<<>>}
ASSUME BoundsAssumption == JumpBits \in 2..21 /\ MaxItems \in Nat
ASSUME InsnsAssumption ==
    \A i \in Insns :
        /\ i.rule \in Rules
        /\ i.rule \in {"ISYM", "IHI", "B", "LA", "J"} => i.sym \in Names
        /\ i.rule = "B" => i.mn \in DOMAIN opcode_branch

NoName == ""

VARIABLES
    (* the parser *)
    pc,              \* where the parse, or the pass after it, stands
    stmtLabel,       \* $1 of the statement being parsed
    items,           \* how much of the input is consumed
    currentSection,  \* "" until a directive names one
    temp_value,      \* the .ascii string not stored yet; <<>> when empty
    (* ELF32: sections, tables and the sh_size of their headers *)
    text, data, strtab, symtab, sh_size,
    section_to_idx,  \* section name -> section header index
    (* ELF32: labels, symbols and references.  A std::map is a function    *)
    (* on the keys it holds; unresolved_labels maps each key to its hash,  *)
    (* so its keys say everything.                                         *)
    resolved_labels, unresolved_labels, label_to_addr, symbols,
    unresolved_instructions,
    entry,           \* the loop of _resolve_unresolved_instructions
    file             \* the object file: "none", "partial" or "complete"

parser == <<stmtLabel, currentSection, temp_value>>
tables == <<data, strtab, symtab, section_to_idx>>
labels == <<resolved_labels, unresolved_labels, label_to_addr>>
refs   == <<symbols, unresolved_instructions>>
output == <<entry, file>>
vars   == <<pc, items, text, sh_size, parser, tables, labels, refs, output>>

(* m[k] = v on a std::map. *)
Put(m, k, v) == [x \in DOMAIN m \cup {k} |-> IF x = k THEN v ELSE m[x]]

-----------------------------------------------------------------------------
(* Section<T> and the tables.                                              *)

last_index_unguarded(d) == Len(d) - 1
last_index_next(d) == Len(d)
last_index(d) == IF Len(d) > 0 THEN Len(d) - 1 ELSE 0
next_index(d) == Len(d)

(* An index outside the section is ignored: get_entry leaves its result    *)
(* uninitialised, and update_entry then drops it.                          *)
get_entry(d, idx) == d[idx + 1]
update_entry_before(d, idx, val) == IF idx \in 1..(Len(d) - 1) THEN [d EXCEPT ![idx] = val] ELSE d
update_entry(d, idx, val) == IF idx < Len(d) THEN [d EXCEPT ![idx + 1] = val] ELSE d

SizeofSym == 16
SizeofInsn == 4
STB_LOCAL  == 0
STB_GLOBAL == 1
ELF32_ST_BIND(i) == i \div 16

(* std::map iterates in the order of its keys. *)
MapOrder == <<"", ".data", ".shstrtab", ".strtab", ".symtab", ".text">>
SIZE_MAX == -1

(* std::distance(begin, it): the rank of the key, not what it maps to. *)
get_section_idx(name) ==
    IF name \in DOMAIN section_to_idx
    THEN Cardinality({k \in 1..Len(MapOrder) :
            /\ MapOrder[k] \in DOMAIN section_to_idx
            /\ \E j \in (k + 1)..Len(MapOrder) : MapOrder[j] = name})
    ELSE SIZE_MAX

Strtab == INSTANCE StringTable
             WITH String <- Names, data <- strtab, sh_size <- sh_size.strtab,
                  stored <- {<<symtab[k].st_name, symtab[k].name>> : k \in 2..Len(symtab)}

(* A symbol table entry.  name and val are history: the string st_name     *)
(* stands for, and the bytes st_value points to (<<>> for a label).        *)
Symbol_past(name, st_info, st_shndx, st_value, val) ==
    [name |-> name, st_name |-> Len(strtab), st_value |-> st_value,
     st_info |-> st_info, st_shndx |-> st_shndx, val |-> val]
Symbol(name, st_info, st_shndx, st_value, val) ==
    [name |-> name, st_name |-> Strtab!add_string_offset(strtab), st_value |-> st_value,
     st_info |-> st_info, st_shndx |-> st_shndx, val |-> val]

NullSymbol == [name |-> NoName, st_name |-> 0, st_value |-> 0, st_info |-> 0,
               st_shndx |-> 0, val |-> <<>>]

(* store_regular_string and symtab->push, which every new symbol takes:    *)
(* sizes is sh_size with what else the caller changes.                     *)
StoreSymbol(sym, sizes) ==
    /\ strtab' = Strtab!add_string_data(strtab, Chars[sym.name])
    /\ symtab' = Append(symtab, sym)
    /\ sh_size' = [sizes EXCEPT !.strtab = Len(strtab'),
                                !.symtab = SizeofSym * Len(symtab')]

Init ==
    /\ pc = "statement" /\ stmtLabel = NoName /\ items = 0
    /\ currentSection = "" /\ temp_value = <<>>
    /\ text = <<>> /\ data = <<>> /\ strtab = <<0>> /\ symtab = <<NullSymbol>>
    /\ sh_size = [text |-> 0, data |-> 0, strtab |-> 1, symtab |-> SizeofSym]
    /\ section_to_idx = [s \in {".shstrtab", ".strtab", ".symtab", ".text", ".data"} |->
                           CASE s = ".shstrtab" -> 1 [] s = ".strtab" -> 2
                             [] s = ".symtab" -> 3 [] s = ".text" -> 4 [] s = ".data" -> 5]
    /\ resolved_labels = <<>> /\ unresolved_labels = {} /\ label_to_addr = <<>>
    /\ symbols = <<>> /\ unresolved_instructions = <<>>
    /\ entry = 1 /\ file = "none"

-----------------------------------------------------------------------------
(* Labels.                                                                 *)

label_exists(l) == l \in DOMAIN resolved_labels

BindLabel_pending(l) ==
    /\ resolved_labels' = Put(resolved_labels, l, last_index(text))
    /\ label_to_addr' = Put(label_to_addr, Hash[l], last_index(text))
    /\ UNCHANGED unresolved_labels
BindLabel_next(l) ==
    /\ unresolved_labels' = unresolved_labels \ {l}
    /\ resolved_labels' = Put(resolved_labels, l, last_index(text))
    /\ label_to_addr' = Put(label_to_addr, Hash[l], next_index(text))
BindLabel(l) ==
    /\ unresolved_labels' = unresolved_labels \ {l}
    /\ resolved_labels' = Put(resolved_labels, l, last_index(text))
    /\ label_to_addr' = Put(label_to_addr, Hash[l], last_index(text))

(* A new label is a symbol without a value, in its section or, when that   *)
(* is unknown, in none.                                                    *)
NewLabel(l, is_global, section_name) ==
    /\ StoreSymbol(
         Symbol(l, ELF32_ST_BIND(IF is_global THEN STB_GLOBAL ELSE STB_LOCAL),
                IF section_name \in DOMAIN section_to_idx
                THEN section_to_idx[section_name] ELSE 0, 0, <<>>), sh_size)
    /\ BindLabel(l)
    /\ UNCHANGED <<data, section_to_idx>>

init_label_again(l, is_global, section_name) == NewLabel(l, is_global, section_name)
init_label(l, is_global, section_name) ==
    IF label_exists(l)
    THEN UNCHANGED <<sh_size, tables, labels>>
    ELSE NewLabel(l, is_global, section_name)

update_label_visibility(l, is_global) ==
    IF label_exists(l)
    THEN UNCHANGED <<sh_size, tables, labels>>    \* "(NYI)"
    ELSE init_label(l, is_global, ".text")

get_next_insn_number_last(section) == IF section = ".text" THEN last_index(text) ELSE 0
get_next_insn_number(section) == IF section = ".text" THEN next_index(text) ELSE 0

(* resolve_label failed: remember the name and where the reference is.     *)
(* pc_insn_number is a uint32_t; -1 stands for 2^32 - 1.                   *)
Unresolved(insn_type, l) ==
    LET n == get_next_insn_number(currentSection)
    IN  /\ unresolved_labels' = unresolved_labels \cup {l}
        /\ unresolved_instructions' =
              Append(unresolved_instructions,
                     [insn_number |-> n, pc_insn_number |-> n - 1,
                      insn_type |-> insn_type, hash |-> Hash[l]])
        /\ UNCHANGED <<resolved_labels, label_to_addr, symbols>>

-----------------------------------------------------------------------------
(* Statements.                                                             *)

Consume(from, to) == /\ pc \in from /\ items < MaxItems
                     /\ pc' = to /\ items' = items + 1

(* SYMBOL COLON ... *)
Label(l) == /\ Consume({"statement"}, "label")
            /\ stmtLabel' = l
            /\ UNCHANGED <<text, sh_size, currentSection, temp_value, tables, labels, refs, output>>

(* SYMBOL COLON instructions, reduced when the block ends. *)
EndBlock == /\ pc = "body"
            /\ init_label(stmtLabel, FALSE, currentSection)
            /\ pc' = "statement" /\ stmtLabel' = NoName
            /\ UNCHANGED <<items, text, currentSection, temp_value, refs, output>>

(* A directive that ends a statement, or the first half of a labelled one. *)
Directive == Consume({"statement", "label"}, IF pc = "label" THEN "labelled" ELSE "statement")

(* .section .data, .section .text and .data. *)
SectionDirective(s) ==
    /\ Directive
    /\ currentSection' = s
    /\ UNCHANGED <<text, sh_size, stmtLabel, temp_value, tables, labels, refs, output>>

(* .text alone assigns nothing that is read. *)
TextDirective ==
    /\ Directive
    /\ UNCHANGED <<text, sh_size, parser, tables, labels, refs, output>>

Globl(l) ==
    /\ Directive
    /\ update_label_visibility(l, TRUE)
    /\ UNCHANGED <<text, parser, refs, output>>

Ascii_anywhere(v) ==
    /\ Directive
    /\ temp_value' = v
    /\ UNCHANGED <<text, sh_size, stmtLabel, currentSection, tables, labels, refs, output>>
Ascii(v) ==
    /\ Directive
    /\ currentSection' = ".data" /\ temp_value' = v
    /\ UNCHANGED <<text, sh_size, stmtLabel, tables, labels, refs, output>>

(* Data::push of a string; the offset it returns is the size before it. *)
Data_push(d, value) == d \o value

add_program_data_after(name, value, section) ==
    /\ data' = Data_push(data, value)
    /\ StoreSymbol(Symbol(name, 0, section_to_idx[section], Len(data'), value),
                   [sh_size EXCEPT !.data = Len(data')])
    /\ UNCHANGED section_to_idx
(* section_to_idx[section] inserts a key that is missing. *)
add_program_data(name, value, section) ==
    LET idx == IF section \in DOMAIN section_to_idx THEN section_to_idx[section] ELSE 0
    IN  /\ data' = Data_push(data, value)
        /\ StoreSymbol(Symbol(name, ELF32_ST_BIND(STB_LOCAL), idx, Len(data), value),
                       [sh_size EXCEPT !.data = Len(data')])
        /\ section_to_idx' = Put(section_to_idx, section, idx)

(* SYMBOL COLON directive: whatever string is pending becomes its value. *)
LabelledDirective ==
    /\ pc = "labelled"
    /\ IF temp_value # <<>>
       THEN add_program_data(stmtLabel, temp_value, currentSection)
       ELSE UNCHANGED <<sh_size, tables>>
    /\ pc' = "statement" /\ stmtLabel' = NoName /\ temp_value' = <<>>
    /\ UNCHANGED <<items, text, currentSection, labels, refs, output>>

-----------------------------------------------------------------------------
(* Instructions.                                                           *)

Instruction(i, r) == i.rule = r /\ Consume({"label", "body"}, "body")

add_to_text_unsized(w) == text' = Append(text, w) /\ UNCHANGED sh_size
add_to_text(w) == /\ text' = Append(text, w)
                  /\ sh_size' = [sh_size EXCEPT !.text = SizeofInsn * Len(text')]

Emit(w) == add_to_text(w) /\ UNCHANGED <<parser, tables, labels, refs, output>>

NoEmit == UNCHANGED <<text, sh_size, parser, tables, labels, refs, output>>

(* exit_with_message: the process ends, nothing is written. *)
Exit == /\ pc \in {"label", "body"} /\ items < MaxItems
        /\ pc' = "exit" /\ items' = items + 1
        /\ NoEmit

Arithmetic(i) == Instruction(i, "R") /\ Emit(RWord(i))

Immediate(i) == /\ Instruction(i, "I") /\ is_within_range_12b(i.imm)
                /\ Emit(IWord(i, Low(U32(i.imm), 12)))

ImmediateOutOfRange(i) == i.rule = "I" /\ ~is_within_range_12b(i.imm) /\ Exit

UNRESOLVED_IDX == 64240    \* 0xFAF0

symbol_exists(l) == l \in DOMAIN symbols
add_symbol(l, section_idx, offset_idx) ==
    symbols' = Put(symbols, l, [section_idx |-> section_idx, offset_idx |-> offset_idx])
resolve_symbol(l) == symbols[l]

(* The first use of a symbol only declares it. *)
DeclareSymbol(i) ==
    /\ Instruction(i, "ISYM") /\ ~symbol_exists(i.sym)
    /\ add_symbol(i.sym, get_section_idx(currentSection), UNRESOLVED_IDX)
    /\ UNCHANGED <<text, sh_size, parser, tables, labels, unresolved_instructions, output>>

UseSymbol(i) ==
    /\ Instruction(i, "ISYM") /\ symbol_exists(i.sym)
    /\ Emit(IWord(i, U32(resolve_symbol(i.sym).offset_idx * SizeofInsn)))

(* %hi(symbol) and la are parsed and then dropped. *)
HiModifier(i) == Instruction(i, "IHI") /\ NoEmit
LoadAddress(i) == Instruction(i, "LA") /\ NoEmit

LoadStore(i) == Instruction(i, "LS") /\ Emit(LSWord(i))
System(i) == Instruction(i, "SYS") /\ Emit(SysWord(i))
Mv(i) == Instruction(i, "MV") /\ Emit(MvWord(i))
Ret(i) == Instruction(i, "RET") /\ Emit(RetWord)

(* A branch is emitted at once, with the instruction number of its label   *)
(* or, for one not bound yet, with the label's hash as its immediate.      *)
BranchResolved(i) ==
    /\ Instruction(i, "B") /\ label_exists(i.sym)
    /\ Emit(BWord(i, U32(resolved_labels[i.sym])))

BranchUnresolved(i) ==
    /\ Instruction(i, "B") /\ ~label_exists(i.sym)
    /\ Unresolved("B_TYPE", i.sym)
    /\ add_to_text(BWord(i, Hash[i.sym]))
    /\ UNCHANGED <<parser, tables, output>>

(* offset << 1, masked to JumpBits and range-checked as a signed number. *)
JumpOffset(l) == (resolved_labels[l] * 2) % 2^JumpBits

JumpResolved(i) ==
    /\ Instruction(i, "J") /\ label_exists(i.sym)
    /\ is_within_range(JumpOffset(i.sym), JumpBits)
    /\ Emit(JWord(U32(JumpOffset(i.sym))))

JumpOutOfRange(i) == /\ i.rule = "J" /\ label_exists(i.sym)
                     /\ ~is_within_range(JumpOffset(i.sym), JumpBits)
                     /\ Exit

JumpUnresolved(i) ==
    /\ Instruction(i, "J") /\ ~label_exists(i.sym)
    /\ Unresolved("J_TYPE", i.sym)
    /\ UNCHANGED <<text, sh_size, parser, tables, output>>

-----------------------------------------------------------------------------
(* The end of the input.                                                   *)

(* A token that breaks a statement: yyparse returns 1 and no object is     *)
(* written.                                                                *)
SyntaxError == /\ pc \in {"statement", "label", "body"}
               /\ pc' = "syntax_error"
               /\ UNCHANGED <<items, text, sh_size, parser, tables, labels, refs, output>>

(* program: statements -- the input ends or, this being the default        *)
(* reduction of its state, goes on with a token no statement starts with.  *)
(* An empty file is a syntax error.                                        *)
EndOfFile == /\ pc = "statement" /\ items > 0
             /\ pc' = "resolve"
             /\ UNCHANGED <<items, text, sh_size, parser, tables, labels, refs, output>>

(* The switch of _resolve_unresolved_instructions.  No rule records a      *)
(* U_TYPE reference yet.                                                   *)
effective_offset_own(e, addr) == U32(((addr - e.insn_number) * SizeofInsn) \div 2)
effective_offset(e, addr) == U32(((addr - e.pc_insn_number) * SizeofInsn) \div 2)

Patched(e, addr, insn) ==
    LET b == btype32_deserialize(insn)
        u == utype32_deserialize(insn)
        j == jtype32_deserialize(insn)
        offset == effective_offset(e, addr)
    IN  CASE e.insn_type = "B_TYPE" -> emit_b_type_instruction(offset, b.rs1, b.rs2, b.funct3, b.opcode)
          [] e.insn_type = "U_TYPE" -> emit_u_type_instruction(offset, u.rd, u.opcode)
          [] e.insn_type = "J_TYPE" -> emit_j_type_instruction(offset, j.rd, j.opcode)

(* One round of its loop.  operator[] on label_to_addr makes an unknown    *)
(* hash stand for instruction 0.                                           *)
Resolve(e) ==
    LET addr == IF e.hash \in DOMAIN label_to_addr THEN label_to_addr[e.hash] ELSE 0
    IN  /\ label_to_addr' = Put(label_to_addr, e.hash, addr)
        /\ text' = update_entry(text, e.insn_number,
                                Patched(e, addr, get_entry(text, e.insn_number)))

ResolveEntry_stuck ==
    /\ pc = "resolve" /\ entry <= Len(unresolved_instructions)
    /\ Resolve(unresolved_instructions[entry])
    /\ UNCHANGED <<pc, items, sh_size, parser, tables, resolved_labels, unresolved_labels, refs, output>>
ResolveEntry ==
    /\ pc = "resolve" /\ entry <= Len(unresolved_instructions)
    /\ Resolve(unresolved_instructions[entry])
    /\ entry' = entry + 1
    /\ UNCHANGED <<pc, items, sh_size, parser, tables, resolved_labels, unresolved_labels, refs, file>>

(* write_elf: the file may not open, or take only part of the bytes.  Only *)
(* then does yyparse look at the token after the program, which may be an  *)
(* error.                                                                  *)
WriteElf == /\ pc = "resolve" /\ entry > Len(unresolved_instructions)
            /\ pc' \in {"done", "syntax_error"}
            /\ file' \in {"none", "partial", "complete"}
            /\ UNCHANGED <<items, text, sh_size, parser, tables, labels, refs, entry>>

Final == {"done", "syntax_error", "exit"}

Terminated == pc \in Final /\ UNCHANGED vars

InstructionStep(i) ==
    \/ Arithmetic(i) \/ Immediate(i) \/ ImmediateOutOfRange(i)
    \/ DeclareSymbol(i) \/ UseSymbol(i) \/ HiModifier(i) \/ LoadAddress(i)
    \/ LoadStore(i) \/ System(i) \/ Mv(i) \/ Ret(i)
    \/ BranchResolved(i) \/ BranchUnresolved(i)
    \/ JumpResolved(i) \/ JumpOutOfRange(i) \/ JumpUnresolved(i)

(* A step of yyparse before the object is written. *)
ParseStep ==
    \/ \E l \in Names : Label(l) \/ Globl(l)
    \/ \E s \in {".text", ".data"} : SectionDirective(s)
    \/ \E v \in Values : Ascii(v)
    \/ TextDirective \/ LabelledDirective \/ EndBlock
    \/ \E i \in Insns : InstructionStep(i)
    \/ SyntaxError \/ EndOfFile \/ ResolveEntry

Next == ParseStep \/ WriteElf \/ Terminated

Spec == Init /\ [][Next]_vars

(* A single-threaded program keeps running until it ends. *)
FairSpec == Spec /\ WF_vars(Next)
=============================================================================
