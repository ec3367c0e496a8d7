----------------------------- MODULE TableProofs ----------------------------
(***************************************************************************)
(* Sections, symbols and strings: the headers follow the tables, and the   *)
(* assembler's .strtab implements StringTable.                             *)
(***************************************************************************)
EXTENDS AssemblerProofs, FiniteSetTheorems

(* An instruction changes no table but .text, which gets one word or none. *)
LEMMA InstructionTables ==
    ASSUME NEW i \in Insns, InstructionStep(i)
    PROVE  /\ UNCHANGED <<parser, tables>>
           /\ UNCHANGED <<text, sh_size>> \/ \E w : add_to_text(w)
<1>1. CASE ImmediateOutOfRange(i) \/ JumpOutOfRange(i) \/ HiModifier(i) \/ LoadAddress(i)
  BY <1>1 DEF ImmediateOutOfRange, JumpOutOfRange, HiModifier, LoadAddress, Exit, NoEmit
<1>2. CASE \/ Arithmetic(i) \/ Immediate(i) \/ UseSymbol(i) \/ LoadStore(i) \/ System(i)
           \/ Mv(i) \/ Ret(i) \/ BranchResolved(i) \/ JumpResolved(i)
  <2>1. \E w : Emit(w)
    BY <1>2 DEF Arithmetic, Immediate, UseSymbol, LoadStore, System, Mv, Ret,
                BranchResolved, JumpResolved
  <2> QED
    BY <2>1 DEF Emit
<1>3. CASE DeclareSymbol(i) \/ JumpUnresolved(i)
  BY <1>3 DEF DeclareSymbol, JumpUnresolved
<1>4. CASE BranchUnresolved(i)
  BY <1>4 DEF BranchUnresolved
<1> QED
  BY <1>1, <1>2, <1>3, <1>4 DEF InstructionStep

(* A symbol of any binding and section is stored.  sizes is sh_size with   *)
(* what else the caller changes.                                           *)
NewSymbol(l, value, val, sizes) ==
    \E info, idx : StoreSymbol(Symbol(l, info, idx, value, val), sizes)

(* Every way the tables change. *)
LEMMA TableSteps ==
    ASSUME TypeOK, [Next]_vars
    PROVE  \/ UNCHANGED <<text, sh_size, tables>>
           \/ UNCHANGED tables /\ \E w : add_to_text(w)
           \/ \E l \in Names :
                 NewSymbol(l, 0, <<>>, sh_size) /\ UNCHANGED <<text, data, section_to_idx>>
           \/ \E l \in Names :
                 /\ NewSymbol(l, Len(data), temp_value, [sh_size EXCEPT !.data = Len(data')])
                 /\ data' = data \o temp_value /\ UNCHANGED text
           \/ ResolveEntry
<1> DEFINE Quiet == UNCHANGED <<text, sh_size, tables>>
           Named(l) == NewSymbol(l, 0, <<>>, sh_size) /\ UNCHANGED <<text, data, section_to_idx>>
           Stored(l) == /\ NewSymbol(l, Len(data), temp_value, [sh_size EXCEPT !.data = Len(data')])
                        /\ data' = data \o temp_value /\ UNCHANGED text
<1>1. ASSUME NEW l \in Names, NEW g, NEW s, init_label(l, g, s), UNCHANGED text
      PROVE  Quiet \/ Named(l)
  <2>1. CASE label_exists(l)
    BY <1>1, <2>1 DEF init_label
  <2>2. CASE ~label_exists(l)
    BY <1>1, <2>2 DEF init_label, NewLabel, NewSymbol
  <2> QED
    BY <2>1, <2>2
<1>2. ASSUME NEW l \in Names, Globl(l) PROVE Quiet \/ Named(l)
  <2>1. CASE label_exists(l)
    BY <1>2, <2>1 DEF Globl, update_label_visibility
  <2>2. CASE ~label_exists(l)
    BY <1>1, <1>2, <2>2 DEF Globl, update_label_visibility
  <2> QED
    BY <2>1, <2>2
<1>3. ASSUME EndBlock PROVE Quiet \/ \E l \in Names : Named(l)
  <2>1. stmtLabel \in Names
    BY <1>3 DEF EndBlock, TypeOK, ParserOK
  <2> QED
    BY <1>1, <1>3, <2>1 DEF EndBlock
<1>4. ASSUME LabelledDirective PROVE Quiet \/ \E l \in Names : Stored(l)
  <2>1. stmtLabel \in Names
    BY <1>4 DEF LabelledDirective, TypeOK, ParserOK
  <2>2. CASE temp_value = <<>>
    BY <1>4, <2>2 DEF LabelledDirective
  <2>3. CASE temp_value # <<>>
    BY <1>4, <2>1, <2>3 DEF LabelledDirective, add_program_data, Data_push, NewSymbol
  <2> QED
    BY <2>2, <2>3
<1>5. ASSUME NEW i \in Insns, InstructionStep(i)
      PROVE  Quiet \/ (UNCHANGED tables /\ \E w : add_to_text(w))
  BY <1>5, InstructionTables
<1>6. ASSUME \/ \E l \in Names : Label(l)
             \/ \E s \in {".text", ".data"} : SectionDirective(s)
             \/ \E v \in Values : Ascii(v)
             \/ TextDirective \/ SyntaxError \/ EndOfFile \/ WriteElf \/ UNCHANGED vars
      PROVE  Quiet
  BY <1>6 DEF Label, SectionDirective, Ascii, TextDirective, SyntaxError, EndOfFile, WriteElf, vars
<1> QED
  BY <1>2, <1>3, <1>4, <1>5, <1>6 DEF Next, ParseStep, Terminated

-----------------------------------------------------------------------------
(* The symbol table keeps its null symbol, so the strings of its other     *)
(* entries are exactly those that were added.                              *)
NullSymbolKept == symtab \in Seq(SymEntry) /\ Len(symtab) > 0

(* The four sizes. *)
Sizes == [text : Nat, data : Nat, strtab : Nat, symtab : Nat]

(* What storing a symbol does to the two tables and their headers. *)
LEMMA NewSymbolTables ==
    ASSUME NEW l, NEW value, NEW val, NEW sizes \in Sizes, NewSymbol(l, value, val, sizes)
    PROVE  /\ strtab' = Strtab!add_string_data(strtab, Chars[l])
           /\ \E s : /\ s.name = l /\ s.st_name = Strtab!add_string_offset(strtab)
                     /\ s.st_value = value /\ s.val = val
                     /\ symtab' = Append(symtab, s)
           /\ sh_size' = [text |-> sizes.text, data |-> sizes.data,
                          strtab |-> Len(strtab'), symtab |-> SizeofSym * Len(symtab')]
<1>1. PICK info, idx : StoreSymbol(Symbol(l, info, idx, value, val), sizes)
  BY DEF NewSymbol
<1> DEFINE s == Symbol(l, info, idx, value, val)
<1>2. /\ s.name = l /\ s.st_name = Strtab!add_string_offset(strtab)
      /\ s.st_value = value /\ s.val = val
  BY DEF Symbol
<1>3. /\ strtab' = Strtab!add_string_data(strtab, Chars[s.name])
      /\ symtab' = Append(symtab, s)
      /\ sh_size' = [sizes EXCEPT !.strtab = Len(strtab'), !.symtab = SizeofSym * Len(symtab')]
  BY <1>1 DEF StoreSymbol
<1> HIDE DEF s
<1>4. sh_size' = [text |-> sizes.text, data |-> sizes.data,
                  strtab |-> Len(strtab'), symtab |-> SizeofSym * Len(symtab')]
  BY <1>3 DEF Sizes
<1> QED
  BY <1>2, <1>3, <1>4

(* Appending an entry adds its name and offset to the strings stored. *)
LEMMA StoredGrows ==
    ASSUME NEW t, NEW S, t \in Seq(S), Len(t) > 0, NEW s \in S
    PROVE  LET a == Append(t, s)
           IN  {<<a[k].st_name, a[k].name>> : k \in 2..Len(a)} =
                  {<<t[k].st_name, t[k].name>> : k \in 2..Len(t)} \cup {<<s.st_name, s.name>>}
<1> DEFINE a == Append(t, s)
<1>1. /\ Len(a) = Len(t) + 1 /\ Len(t) \in Nat
      /\ \A k \in 1..Len(t) : a[k] = t[k]
      /\ a[Len(t) + 1] = s
  BY AppendProperties, LenProperties
<1> HIDE DEF a
<1>2. /\ 2..Len(a) = (2..Len(t)) \cup {Len(t) + 1}
      /\ 2..Len(t) \subseteq 1..Len(t)
  BY <1>1
<1>3. {<<a[k].st_name, a[k].name>> : k \in 2..Len(a)} =
         {<<a[k].st_name, a[k].name>> : k \in 2..Len(t)}
           \cup {<<a[Len(t) + 1].st_name, a[Len(t) + 1].name>>}
  BY <1>2, Zenon
<1>4. {<<a[k].st_name, a[k].name>> : k \in 2..Len(t)} =
         {<<t[k].st_name, t[k].name>> : k \in 2..Len(t)}
  BY <1>1, <1>2
<1> QED
  BY <1>1, <1>3, <1>4 DEF a

(* Adding data sets a size that is one. *)
LEMMA SizesType ==
    ASSUME TypeOK, TypeOK'
    PROVE  sh_size \in Sizes /\ [sh_size EXCEPT !.data = Len(data')] \in Sizes
<1>1. sh_size \in Sizes
  BY DEF TypeOK, TablesOK, Sizes
<1>2. Len(data') \in Nat
  BY LenProperties DEF TypeOK, TablesOK
<1> QED
  BY <1>1, <1>2 DEF Sizes

(* Every way the strings and symbols change. *)
LEMMA SymbolSteps ==
    ASSUME TypeOK, TypeOK', [Next]_vars
    PROVE  \/ UNCHANGED tables /\ sh_size'.strtab = sh_size.strtab
           \/ \E l \in Names, sizes \in Sizes :
                 NewSymbol(l, 0, <<>>, sizes) /\ UNCHANGED data
           \/ \E l \in Names, sizes \in Sizes :
                 NewSymbol(l, Len(data), temp_value, sizes) /\ data' = data \o temp_value
<1>1. sh_size \in Sizes /\ [sh_size EXCEPT !.data = Len(data')] \in Sizes
  BY SizesType
<1>2. ASSUME NEW w, add_to_text(w) PROVE sh_size'.strtab = sh_size.strtab
  BY <1>1, <1>2 DEF add_to_text, Sizes
<1>3. ResolveEntry => UNCHANGED tables /\ sh_size' = sh_size
  BY DEF ResolveEntry
<1> QED
  BY <1>1, <1>2, <1>3, TableSteps

(* The null symbol of init_symtab is never removed. *)
LEMMA NullSymbolStays == Spec => []NullSymbolKept
<1>1. Init => Len(symtab) > 0
  <2>1. Init => symtab = <<NullSymbol>>
    BY DEF Init
  <2> QED
    BY <2>1
<1>2. ASSUME TypeOK, TypeOK', NullSymbolKept, [Next]_vars PROVE NullSymbolKept'
  <2>1. ASSUME NEW l \in Names, NEW value, NEW val, NEW sizes \in Sizes,
               NewSymbol(l, value, val, sizes)
        PROVE  Len(symtab') > 0
    <3>1. PICK s : symtab' = Append(symtab, s)
      BY <2>1, NewSymbolTables
    <3> QED
      BY <1>2, <3>1 DEF NullSymbolKept
  <2>2. CASE UNCHANGED tables
    BY <1>2, <2>2 DEF NullSymbolKept, tables
  <2>3. symtab' \in Seq(SymEntry)
    BY <1>2 DEF TypeOK, TablesOK
  <2> QED
    BY <1>2, <2>1, <2>2, <2>3, SymbolSteps DEF NullSymbolKept
<1>3. TypeOK => symtab \in Seq(SymEntry)
  BY DEF TypeOK, TablesOK
<1>4. Init => NullSymbolKept
  BY <1>1, <1>3, InitTypeOK DEF NullSymbolKept
<1> QED
  BY <1>2, <1>4, TypeCorrect, PTL DEF Spec

(* The second pass rewrites words of .text and never adds or drops one. *)
LEMMA ResolveKeepsLength ==
    ASSUME TypeOK, ResolveEntry
    PROVE  Len(text') = Len(text)
<1> DEFINE e == unresolved_instructions[entry]
<1>1. text \in Seq(Word)
  BY DEF TypeOK, TablesOK
<1>2. PICK w : text' = update_entry(text, e.insn_number, w)
  BY DEF ResolveEntry, Resolve
<1>3. text' = text \/ text' = [text EXCEPT ![e.insn_number + 1] = w]
  BY <1>2 DEF update_entry
<1> HIDE DEF e
<1>4. text' \in Seq(Word)
  <2>1. TypeOK'
    BY ResolveTypeOK
  <2> QED
    BY <2>1 DEF TypeOK, TablesOK
<1>5. DOMAIN text' = DOMAIN text
  BY <1>3
<1> QED
  BY <1>1, <1>4, <1>5, LenProperties

(* text.cc, data.cc, symtab.cc and strtab.cc each set the sh_size of their *)
(* section when they grow it: after any input, and after the second pass,  *)
(* every header says how many bytes will be serialized.                    *)
THEOREM HeadersAgree == Spec => []SizesAgree
<1>1. Init => SizesAgree
  <2> SUFFICES ASSUME Init PROVE SizesAgree
    OBVIOUS
  <2>1. /\ text = <<>> /\ data = <<>> /\ strtab = <<0>> /\ symtab = <<NullSymbol>>
        /\ sh_size = [text |-> 0, data |-> 0, strtab |-> 1, symtab |-> SizeofSym]
    BY DEF Init
  <2>2. Len(text) = 0 /\ Len(data) = 0 /\ Len(strtab) = 1 /\ Len(symtab) = 1
    BY <2>1
  <2> QED
    BY <2>1, <2>2 DEF SizesAgree, SizeofSym, SizeofInsn
<1>2. ASSUME TypeOK, TypeOK', SizesAgree, [Next]_vars PROVE SizesAgree'
  <2>1. CASE UNCHANGED <<text, sh_size, tables>>
    BY <1>2, <2>1 DEF SizesAgree, tables
  <2>2. ASSUME NEW w, UNCHANGED tables, add_to_text(w) PROVE SizesAgree'
    BY <1>2, <2>2 DEF SizesAgree, tables, add_to_text
  <2>3. ASSUME NEW l \in Names, NewSymbol(l, 0, <<>>, sh_size), UNCHANGED <<text, data>>
        PROVE  SizesAgree'
    <3>1. sh_size' = [text |-> sh_size.text, data |-> sh_size.data,
                      strtab |-> Len(strtab'), symtab |-> SizeofSym * Len(symtab')]
      BY <1>2, <2>3, SizesType, NewSymbolTables
    <3> QED
      BY <1>2, <2>3, <3>1 DEF SizesAgree
  <2>4. ASSUME NEW l \in Names, UNCHANGED text,
               NewSymbol(l, Len(data), temp_value, [sh_size EXCEPT !.data = Len(data')])
        PROVE  SizesAgree'
    <3> DEFINE sizes == [sh_size EXCEPT !.data = Len(data')]
    <3>1. /\ NewSymbol(l, Len(data), temp_value, sizes) /\ sizes \in Sizes
          /\ sizes.text = SizeofInsn * Len(text) /\ sizes.data = Len(data')
      BY <1>2, <2>4, SizesType DEF SizesAgree
    <3> HIDE DEF sizes
    <3>2. sh_size' = [text |-> sizes.text, data |-> sizes.data,
                      strtab |-> Len(strtab'), symtab |-> SizeofSym * Len(symtab')]
      BY <3>1, NewSymbolTables
    <3> QED
      BY <2>4, <3>1, <3>2 DEF SizesAgree
  <2>5. CASE ResolveEntry
    <3>1. Len(text') = Len(text)
      BY <1>2, <2>5, ResolveKeepsLength
    <3> QED
      BY <1>2, <2>5, <3>1 DEF ResolveEntry, SizesAgree, tables
  <2> QED
    BY <1>2, <2>1, <2>2, <2>3, <2>4, <2>5, TableSteps
<1> QED
  BY <1>1, <1>2, TypeCorrect, PTL DEF Spec

(* strtab.cc inside elf.cc: whatever the input, the assembler adds a       *)
(* string exactly when it pushes a symbol, gives the symbol the offset     *)
(* add_string returned, and touches .strtab in no other way.  So what      *)
(* StringTableProofs shows of the table holds of the object's symbols.     *)
THEOREM ImplementsStringTable == Spec => StrtabSpec
<1> DEFINE stored == {<<symtab[k].st_name, symtab[k].name>> : k \in 2..Len(symtab)}
<1>1. Init => Strtab!Init
  <2> SUFFICES ASSUME Init PROVE Strtab!Init
    OBVIOUS
  <2>1. strtab = <<0>> /\ sh_size.strtab = 1 /\ symtab = <<NullSymbol>>
    BY DEF Init
  <2>2. 2..Len(symtab) = {}
    BY <2>1
  <2>3. stored = {}
    BY <2>2
  <2> QED
    BY <2>1, <2>3 DEF Strtab!Init, Strtab!NUL
<1>2. ASSUME TypeOK, TypeOK', NullSymbolKept, [Next]_vars PROVE [Strtab!Next]_(Strtab!vars)
  <2>1. CASE UNCHANGED tables /\ sh_size'.strtab = sh_size.strtab
    BY <2>1 DEF tables, Strtab!vars
  <2>2. ASSUME NEW l \in Names, NEW value, NEW val, NEW sizes \in Sizes,
               NewSymbol(l, value, val, sizes)
        PROVE  Strtab!add_string(l)
    <3>1. PICK s : /\ s.name = l /\ s.st_name = Strtab!add_string_offset(strtab)
                   /\ symtab' = Append(symtab, s)
      BY <2>2, NewSymbolTables
    <3>2. strtab' = Strtab!add_string_data(strtab, Chars[l])
      BY <2>2, NewSymbolTables
    <3>3. sh_size'.strtab = Len(strtab')
      <4>1. sh_size' = [text |-> sizes.text, data |-> sizes.data,
                        strtab |-> Len(strtab'), symtab |-> SizeofSym * Len(symtab')]
        BY <2>2, NewSymbolTables
      <4> QED
        BY <4>1
    <3>4. symtab \in Seq(SymEntry \cup {s}) /\ Len(symtab) > 0
      BY <1>2 DEF NullSymbolKept
    <3>5. stored' = stored \cup {<<s.st_name, s.name>>}
      <4> DEFINE a == Append(symtab, s)
      <4>1. s \in SymEntry \cup {s}
        OBVIOUS
      <4>2. {<<a[k].st_name, a[k].name>> : k \in 2..Len(a)} = stored \cup {<<s.st_name, s.name>>}
        BY <3>4, <4>1, StoredGrows
      <4> HIDE DEF a
      <4>3. symtab' = a
        BY <3>1 DEF a
      <4> QED
        BY <4>2, <4>3
    <3> QED
      BY <3>1, <3>2, <3>3, <3>5 DEF Strtab!add_string
  <2> QED
    BY <1>2, <2>1, <2>2, SymbolSteps DEF Strtab!Next
<1> QED
  BY <1>1, <1>2, TypeCorrect, NullSymbolStays, PTL DEF Spec, StrtabSpec, Strtab!Spec

(* The index add_program_data gives a symbol. *)
HomeIndex == IF currentSection \in DOMAIN section_to_idx THEN section_to_idx[currentSection] ELSE 0

(* Every way the pending string and the current section change.  Only      *)
(* add_program_data writes section_to_idx.                                 *)
LEMMA SectionSteps ==
    ASSUME TypeOK, [Next]_vars
    PROVE  \/ UNCHANGED <<section_to_idx, currentSection, temp_value>>
           \/ UNCHANGED section_to_idx /\ currentSection' \in {".text", ".data"}
           \/ /\ UNCHANGED <<section_to_idx, currentSection>> /\ temp_value' = <<>>
           \/ /\ temp_value # <<>> /\ temp_value' = <<>>
              /\ section_to_idx' = Put(section_to_idx, currentSection, HomeIndex)
<1> DEFINE Same == UNCHANGED <<section_to_idx, currentSection, temp_value>>
<1>1. ASSUME NEW l \in Names, NEW g, NEW s, init_label(l, g, s) PROVE UNCHANGED section_to_idx
  BY <1>1 DEF init_label, NewLabel, tables
<1>2. ASSUME NEW l \in Names, Globl(l) PROVE Same
  <2>1. UNCHANGED section_to_idx
    BY <1>1, <1>2 DEF Globl, update_label_visibility, tables
  <2> QED
    BY <1>2, <2>1 DEF Globl, parser
<1>3. ASSUME EndBlock PROVE Same
  <2>1. stmtLabel \in Names
    BY <1>3 DEF EndBlock, TypeOK, ParserOK
  <2> QED
    BY <1>1, <1>3, <2>1 DEF EndBlock
<1>4. ASSUME NEW i \in Insns, InstructionStep(i) PROVE Same
  BY <1>4, InstructionTables DEF parser, tables
<1>5. ASSUME \/ \E l \in Names : Label(l)
             \/ TextDirective \/ SyntaxError \/ EndOfFile \/ ResolveEntry \/ WriteElf
             \/ UNCHANGED vars
      PROVE  Same
  BY <1>5 DEF Label, TextDirective, SyntaxError, EndOfFile, ResolveEntry, WriteElf,
              vars, parser, tables
<1>6. ASSUME \/ \E s \in {".text", ".data"} : SectionDirective(s)
             \/ \E v \in Values : Ascii(v)
      PROVE  UNCHANGED section_to_idx /\ currentSection' \in {".text", ".data"}
  BY <1>6 DEF SectionDirective, Ascii, tables
<1>7. CASE LabelledDirective /\ temp_value = <<>>
  BY <1>7 DEF LabelledDirective, tables
<1>8. CASE LabelledDirective /\ temp_value # <<>>
  BY <1>8 DEF LabelledDirective, add_program_data, HomeIndex
<1> QED
  BY <1>2, <1>3, <1>4, <1>5, <1>6, <1>7, <1>8 DEF Next, ParseStep, Terminated

(* elf.cc line 399: section_to_idx[section] never inserts a section, since *)
(* a string is pending only once a section is current.                     *)
THEOREM SectionsStayKnown == Spec => []SectionsKnown
<1> DEFINE Known == {".shstrtab", ".strtab", ".symtab", ".text", ".data"}
<1>1. Init => SectionsKnown
  <2> SUFFICES ASSUME Init PROVE SectionsKnown
    OBVIOUS
  <2>1. DOMAIN section_to_idx = Known /\ temp_value = <<>>
    BY DEF Init
  <2> QED
    BY <2>1 DEF SectionsKnown
<1>2. ASSUME TypeOK, SectionsKnown, [Next]_vars PROVE SectionsKnown'
  <2>1. ASSUME temp_value # <<>>, NEW idx,
               section_to_idx' = Put(section_to_idx, currentSection, idx)
        PROVE  DOMAIN section_to_idx' = DOMAIN section_to_idx
    BY <1>2, <2>1 DEF SectionsKnown, Put
  <2> QED
    BY <1>2, <2>1, SectionSteps DEF SectionsKnown
<1> QED
  BY <1>1, <1>2, TypeCorrect, PTL DEF Spec

-----------------------------------------------------------------------------
(* The bytes of a data symbol. *)
Holds(d, s) == DataSymbol(s) =>
                  /\ s.st_value + Len(s.val) <= Len(d)
                  /\ \A n \in 1..Len(s.val) : d[s.st_value + n] = s.val[n]

(* Bytes pushed after a symbol's own leave those alone. *)
LEMMA HoldsGrows ==
    ASSUME NEW d \in Seq(0..255), NEW v \in Seq(0..255), NEW s \in SymEntry, Holds(d, s)
    PROVE  Holds(d \o v, s)
<1>1. /\ Len(d \o v) = Len(d) + Len(v) /\ Len(d) \in Nat /\ Len(v) \in Nat
      /\ \A k \in 1..Len(d) : (d \o v)[k] = d[k]
  BY ConcatProperties, LenProperties
<1>2. s.st_value \in Nat /\ s.val \in Seq(0..255) /\ Len(s.val) \in Nat
  BY LenProperties DEF SymEntry
<1>3. ASSUME DataSymbol(s), NEW n \in 1..Len(s.val)
      PROVE  s.st_value + n \in 1..Len(d)
  BY <1>1, <1>2, <1>3 DEF Holds
<1> QED
  BY <1>1, <1>2, <1>3 DEF Holds

(* data.cc lines 20-28: whatever follows it in the input, a data symbol's  *)
(* st_value is the offset in .data at which its bytes are.                 *)
THEOREM DataStaysIntact == Spec => []DataIntact
<1>0. DataIntact <=> \A k \in 1..Len(symtab) : Holds(data, symtab[k])
  BY DEF DataIntact, Holds
<1>0p. DataIntact' <=> \A k \in 1..Len(symtab') : Holds(data', symtab'[k])
  BY DEF DataIntact, Holds
<1>1. Init => DataIntact
  <2> SUFFICES ASSUME Init, NEW k \in 1..Len(symtab) PROVE Holds(data, symtab[k])
    BY <1>0
  <2>1. symtab = <<NullSymbol>>
    BY DEF Init
  <2>2. symtab[k] = NullSymbol
    BY <2>1
  <2> QED
    BY <2>2 DEF Holds, DataSymbol, NullSymbol
<1>2. ASSUME TypeOK, TypeOK', DataIntact, [Next]_vars PROVE DataIntact'
  <2>0. symtab \in Seq(SymEntry) /\ data \in Seq(0..255) /\ temp_value \in Seq(0..255)
    BY <1>2 DEF TypeOK, TablesOK, ParserOK
  <2>1. ASSUME NEW s, symtab' = Append(symtab, s), Holds(data', s),
               \A k \in 1..Len(symtab) : Holds(data', symtab[k])
        PROVE  DataIntact'
    <3> SUFFICES ASSUME NEW k \in 1..Len(symtab') PROVE Holds(data', symtab'[k])
      BY <1>0p
    <3>1. /\ Len(symtab') = Len(symtab) + 1 /\ Len(symtab) \in Nat
          /\ \A j \in 1..Len(symtab) : symtab'[j] = symtab[j]
          /\ symtab'[Len(symtab) + 1] = s
      <4>1. symtab \in Seq(SymEntry \cup {s}) /\ s \in SymEntry \cup {s}
        BY <2>0
      <4> QED
        BY <2>1, <4>1, AppendProperties, LenProperties
    <3>2. k \in 1..Len(symtab) \/ k = Len(symtab) + 1
      BY <3>1
    <3> QED
      BY <2>1, <3>1, <3>2
  <2>2. CASE UNCHANGED <<symtab, data>>
    BY <1>2, <2>2 DEF DataIntact
  <2>3. ASSUME NEW l \in Names, NEW sizes \in Sizes, NewSymbol(l, 0, <<>>, sizes), UNCHANGED data
        PROVE  DataIntact'
    <3>1. PICK s : s.val = <<>> /\ symtab' = Append(symtab, s)
      BY <2>3, NewSymbolTables
    <3>2. Holds(data', s)
      BY <3>1 DEF Holds, DataSymbol
    <3>3. \A k \in 1..Len(symtab) : Holds(data', symtab[k])
      BY <1>0, <1>2, <2>3
    <3> QED
      BY <2>1, <3>1, <3>2, <3>3
  <2>4. ASSUME NEW l \in Names, NEW sizes \in Sizes, NewSymbol(l, Len(data), temp_value, sizes),
               data' = data \o temp_value
        PROVE  DataIntact'
    <3>1. PICK s : /\ s.st_value = Len(data) /\ s.val = temp_value
                   /\ symtab' = Append(symtab, s)
      BY <2>4, NewSymbolTables
    <3>2. Holds(data', s)
      <4>1. /\ Len(data') = Len(data) + Len(temp_value)
            /\ \A k \in 1..Len(temp_value) : data'[Len(data) + k] = temp_value[k]
            /\ Len(data) \in Nat /\ Len(temp_value) \in Nat
        BY <2>0, <2>4, ConcatProperties, LenProperties
      <4> QED
        BY <3>1, <4>1 DEF Holds
    <3>3. \A k \in 1..Len(symtab) : Holds(data', symtab[k])
      <4> SUFFICES ASSUME NEW k \in 1..Len(symtab) PROVE Holds(data', symtab[k])
        OBVIOUS
      <4>1. symtab[k] \in SymEntry
        BY <2>0, ElementOfSeq
      <4>2. Holds(data, symtab[k])
        BY <1>0, <1>2
      <4>3. Holds(data \o temp_value, symtab[k])
        BY <2>0, <4>1, <4>2, HoldsGrows
      <4> QED
        BY <2>4, <4>3
    <3> QED
      BY <2>1, <3>1, <3>2, <3>3
  <2>5. UNCHANGED tables => UNCHANGED <<symtab, data>>
    BY DEF tables
  <2> QED
    BY <1>2, <2>2, <2>3, <2>4, <2>5, SymbolSteps
<1> QED
  BY <1>1, <1>2, TypeCorrect, PTL DEF Spec

-----------------------------------------------------------------------------
(***************************************************************************)
(* Labels and their symbols.                                               *)
(***************************************************************************)

(* Every way the symbols and the bound labels change: an entry without a   *)
(* value comes with the first binding of its label, one with a value with  *)
(* none.                                                                   *)
LEMMA EntrySteps ==
    ASSUME TypeOK, [Next]_vars
    PROVE  \/ UNCHANGED <<symtab, resolved_labels>>
           \/ \E l \in Names : /\ ~label_exists(l) /\ BindLabel(l)
                               /\ \E s : s.name = l /\ s.val = <<>> /\ symtab' = Append(symtab, s)
           \/ /\ UNCHANGED resolved_labels
              /\ temp_value # <<>>
              /\ \E s : s.val # <<>> /\ s.st_shndx = HomeIndex /\ symtab' = Append(symtab, s)
<1> DEFINE Quiet == UNCHANGED <<symtab, resolved_labels>>
           Named(l) == /\ ~label_exists(l) /\ BindLabel(l)
                       /\ \E s : s.name = l /\ s.val = <<>> /\ symtab' = Append(symtab, s)
           Valued == /\ UNCHANGED resolved_labels
                     /\ temp_value # <<>>
                     /\ \E s : s.val # <<>> /\ s.st_shndx = HomeIndex /\ symtab' = Append(symtab, s)
<1>1. ASSUME NEW l, NEW info, NEW idx, NEW value, NEW val, NEW sizes,
             StoreSymbol(Symbol(l, info, idx, value, val), sizes)
      PROVE  \E s : /\ s.name = l /\ s.val = val /\ s.st_shndx = idx
                    /\ symtab' = Append(symtab, s)
  <2> DEFINE s == Symbol(l, info, idx, value, val)
  <2>1. s.name = l /\ s.val = val /\ s.st_shndx = idx
    BY DEF Symbol
  <2>2. symtab' = Append(symtab, s)
    BY <1>1 DEF StoreSymbol
  <2> HIDE DEF s
  <2> QED
    BY <2>1, <2>2
<1>2. ASSUME NEW l \in Names, NEW g, NEW x, init_label(l, g, x) PROVE Quiet \/ Named(l)
  <2>1. CASE label_exists(l)
    BY <1>2, <2>1 DEF init_label, tables, labels
  <2>2. CASE ~label_exists(l)
    BY <1>1, <1>2, <2>2 DEF init_label, NewLabel
  <2> QED
    BY <2>1, <2>2
<1>3. ASSUME NEW l \in Names, Globl(l) PROVE Quiet \/ Named(l)
  <2>1. CASE label_exists(l)
    BY <1>3, <2>1 DEF Globl, update_label_visibility, tables, labels
  <2>2. CASE ~label_exists(l)
    BY <1>2, <1>3, <2>2 DEF Globl, update_label_visibility
  <2> QED
    BY <2>1, <2>2
<1>4. ASSUME EndBlock PROVE Quiet \/ \E l \in Names : Named(l)
  <2>1. stmtLabel \in Names
    BY <1>4 DEF EndBlock, TypeOK, ParserOK
  <2> QED
    BY <1>2, <1>4, <2>1 DEF EndBlock
<1>5. ASSUME LabelledDirective PROVE Quiet \/ Valued
  <2>1. UNCHANGED resolved_labels
    BY <1>5 DEF LabelledDirective, labels
  <2>2. CASE temp_value = <<>>
    BY <1>5, <2>1, <2>2 DEF LabelledDirective, tables
  <2>3. CASE temp_value # <<>>
    BY <1>1, <1>5, <2>1, <2>3 DEF LabelledDirective, add_program_data, HomeIndex
  <2> QED
    BY <2>2, <2>3
<1>6. ASSUME NEW i \in Insns, InstructionStep(i) PROVE Quiet
  <2>1. UNCHANGED symtab
    BY <1>6, InstructionTables DEF tables
  <2>2. UNCHANGED resolved_labels
    BY <1>6 DEF InstructionStep, Arithmetic, Immediate, ImmediateOutOfRange, DeclareSymbol,
       UseSymbol, HiModifier, LoadAddress, LoadStore, System, Mv, Ret, BranchResolved,
       BranchUnresolved, JumpResolved, JumpOutOfRange, JumpUnresolved, Exit, Emit, NoEmit,
       Unresolved, labels
  <2> QED
    BY <2>1, <2>2
<1>7. ASSUME \/ \E l \in Names : Label(l)
             \/ \E x \in {".text", ".data"} : SectionDirective(x)
             \/ \E v \in Values : Ascii(v)
             \/ TextDirective \/ SyntaxError \/ EndOfFile \/ ResolveEntry \/ WriteElf
             \/ UNCHANGED vars
      PROVE  Quiet
  BY <1>7 DEF Label, SectionDirective, Ascii, TextDirective, SyntaxError, EndOfFile, ResolveEntry,
              WriteElf, vars, tables, labels
<1> QED
  BY <1>3, <1>4, <1>5, <1>6, <1>7 DEF Next, ParseStep, Terminated

(* The entries of a label: none before it is bound, a single one after. *)
LabelEntries(l) == {k \in 2..Len(symtab) : symtab[k].name = l /\ ~DataSymbol(symtab[k])}
EntryInv ==
    \A l \in Names : IF label_exists(l) THEN \E k : LabelEntries(l) = {k} ELSE LabelEntries(l) = {}

(* elf.cc lines 198, 226: a label has a symbol from its first definition   *)
(* or .globl on, and never a second one.                                   *)
THEOREM SymbolsMatchLabels == Spec => []OneSymbolPerLabel
<1>1. Init => EntryInv
  <2> SUFFICES ASSUME Init PROVE EntryInv
    OBVIOUS
  <2>1. resolved_labels = <<>> /\ symtab = <<NullSymbol>>
    BY DEF Init
  <2>2. 2..Len(symtab) = {} /\ DOMAIN resolved_labels = {}
    BY <2>1
  <2> QED
    BY <2>2 DEF EntryInv, LabelEntries, label_exists
<1>2. ASSUME TypeOK, TypeOK', NullSymbolKept, EntryInv, [Next]_vars PROVE EntryInv'
  <2>1. CASE UNCHANGED <<symtab, resolved_labels>>
    BY <1>2, <2>1 DEF EntryInv, LabelEntries, label_exists
  <2>2. ASSUME NEW s, symtab' = Append(symtab, s)
        PROVE  /\ Len(symtab') = Len(symtab) + 1 /\ Len(symtab) \in Nat \ {0}
               /\ symtab'[Len(symtab) + 1] = s
               /\ \A k \in 2..Len(symtab) : symtab'[k] = symtab[k]
    <3>1. symtab \in Seq(SymEntry \cup {s}) /\ s \in SymEntry \cup {s}
      BY <1>2, SeqMonotonic DEF NullSymbolKept
    <3> QED
      BY <1>2, <2>2, <3>1, AppendProperties, LenProperties DEF NullSymbolKept
  <2>3. ASSUME NEW s, symtab' = Append(symtab, s), NEW l
        PROVE  LabelEntries(l)' = IF s.name = l /\ s.val = <<>>
                                  THEN LabelEntries(l) \cup {Len(symtab) + 1} ELSE LabelEntries(l)
    <3>1. \A k : k \in LabelEntries(l)' <=>
             \/ k \in LabelEntries(l)
             \/ k = Len(symtab) + 1 /\ s.name = l /\ s.val = <<>>
      BY <2>2, <2>3 DEF LabelEntries, DataSymbol
    <3> QED
      BY <3>1
  <2>4. ASSUME NEW m \in Names, ~label_exists(m), BindLabel(m),
               NEW s, s.name = m, s.val = <<>>, symtab' = Append(symtab, s)
        PROVE  EntryInv'
    <3>1. \A l : label_exists(l)' <=> label_exists(l) \/ l = m
      BY <2>4 DEF BindLabel, Put, label_exists
    <3>2. LabelEntries(m) = {}
      BY <1>2, <2>4 DEF EntryInv
    <3>3. \E k : LabelEntries(m)' = {k}
      BY <2>3, <2>4, <3>2
    <3>4. \A l \in Names \ {m} : LabelEntries(l)' = LabelEntries(l)
      BY <2>3, <2>4
    <3> QED
      BY <1>2, <3>1, <3>3, <3>4 DEF EntryInv
  <2>5. ASSUME UNCHANGED resolved_labels, NEW s, s.val # <<>>, symtab' = Append(symtab, s)
        PROVE  EntryInv'
    <3>1. \A l \in Names : LabelEntries(l)' = LabelEntries(l)
      BY <2>3, <2>5
    <3> QED
      BY <1>2, <2>5, <3>1 DEF EntryInv, label_exists
  <2> QED
    BY <1>2, <2>1, <2>4, <2>5, EntrySteps
<1>3. EntryInv => OneSymbolPerLabel
  <2> SUFFICES ASSUME EntryInv, NEW l \in Names
               PROVE  Cardinality(LabelEntries(l)) = IF label_exists(l) THEN 1 ELSE 0
    BY DEF OneSymbolPerLabel, LabelEntries
  <2>1. CASE label_exists(l)
    BY <2>1, FS_Singleton DEF EntryInv
  <2>2. CASE ~label_exists(l)
    BY <2>2, FS_EmptySet DEF EntryInv
  <2> QED
    BY <2>1, <2>2
<1> QED
  BY <1>1, <1>2, <1>3, TypeCorrect, NullSymbolStays, PTL DEF Spec

-----------------------------------------------------------------------------
(* Section indices.                                                        *)

(* section_to_idx keeps what the constructor put in it, and a symbol with  *)
(* a value has one of its indices.                                         *)
IndicesKept ==
    section_to_idx = [s \in {".shstrtab", ".strtab", ".symtab", ".text", ".data"} |->
                        CASE s = ".shstrtab" -> 1 [] s = ".strtab" -> 2
                          [] s = ".symtab" -> 3 [] s = ".text" -> 4 [] s = ".data" -> 5]
HomesKnown ==
    \A k \in 1..Len(symtab) : DataSymbol(symtab[k]) => symtab[k].st_shndx \in 0..5

(* elf.cc lines 399-401: storing a value changes no index, and its symbol  *)
(* gets the index of a section there is.                                   *)
LEMMA IndicesStay == Spec => [](IndicesKept /\ HomesKnown)
<1>1. Init => IndicesKept /\ HomesKnown
  <2> SUFFICES ASSUME Init PROVE IndicesKept /\ HomesKnown
    OBVIOUS
  <2>1. symtab = <<NullSymbol>> /\ NullSymbol.val = <<>>
    BY DEF Init, NullSymbol
  <2>2. ASSUME NEW k \in 1..Len(symtab) PROVE symtab[k].val = <<>>
    BY <2>1
  <2>3. HomesKnown
    BY <2>2 DEF HomesKnown, DataSymbol
  <2> QED
    BY <2>3 DEF Init, IndicesKept
<1>2. ASSUME TypeOK, SectionsKnown, IndicesKept, HomesKnown, [Next]_vars
      PROVE  IndicesKept' /\ HomesKnown'
  <2>1. ASSUME temp_value # <<>>, section_to_idx' = Put(section_to_idx, currentSection, HomeIndex)
        PROVE  section_to_idx' = section_to_idx
    BY <1>2, <2>1 DEF SectionsKnown, Put, HomeIndex, IndicesKept
  <2>2. section_to_idx' = section_to_idx
    BY <1>2, <2>1, SectionSteps
  <2>3. symtab \in Seq(SymEntry) /\ Len(symtab) \in Nat
    BY <1>2, LenProperties DEF TypeOK, TablesOK
  <2>4. ASSUME NEW s, symtab' = Append(symtab, s), DataSymbol(s) => s.st_shndx \in 0..5
        PROVE  HomesKnown'
    <3>1. symtab \in Seq(SymEntry \cup {s}) /\ s \in SymEntry \cup {s}
      BY <2>3, SeqMonotonic
    <3>2. /\ Len(symtab') = Len(symtab) + 1 /\ symtab'[Len(symtab) + 1] = s
          /\ \A k \in 1..Len(symtab) : symtab'[k] = symtab[k]
      BY <2>4, <3>1, AppendProperties
    <3>3. ASSUME NEW k \in 1..Len(symtab'), DataSymbol(symtab'[k])
          PROVE  symtab'[k].st_shndx \in 0..5
      <4>1. CASE k = Len(symtab) + 1
        BY <2>4, <3>2, <3>3, <4>1
      <4>2. CASE k # Len(symtab) + 1
        <5>1. k \in 1..Len(symtab)
          BY <2>3, <3>2, <4>2
        <5> QED
          BY <1>2, <3>2, <3>3, <5>1 DEF HomesKnown
      <4> QED
        BY <4>1, <4>2
    <3> QED
      BY <3>3 DEF HomesKnown, DataSymbol
  <2>5. temp_value # <<>> => HomeIndex \in 0..5
    BY <1>2 DEF SectionsKnown, HomeIndex, IndicesKept
  <2>6. HomesKnown'
    <3>1. CASE UNCHANGED symtab
      BY <1>2, <3>1 DEF HomesKnown, DataSymbol
    <3>2. CASE \E s : s.val = <<>> /\ symtab' = Append(symtab, s)
      BY <2>4, <3>2 DEF DataSymbol
    <3>3. CASE temp_value # <<>> /\ \E s : s.st_shndx = HomeIndex /\ symtab' = Append(symtab, s)
      BY <2>4, <2>5, <3>3
    <3> QED
      BY <1>2, <3>1, <3>2, <3>3, EntrySteps
  <2> QED
    BY <1>2, <2>2, <2>6 DEF IndicesKept
<1> QED
  BY <1>1, <1>2, TypeCorrect, SectionsStayKnown, PTL DEF Spec
=============================================================================
