--------------------------- MODULE AssemblerProofs --------------------------
(***************************************************************************)
(* The assembler for every set of names, hash function, instruction set    *)
(* and input length.                                                       *)
(***************************************************************************)
EXTENDS AssemblerProperties, EncodingProofs, SequenceTheorems

(***************************************************************************)
(* Lemmas about the operators.                                             *)
(***************************************************************************)

(* Adding a key keeps a map a map. *)
LEMMA PutType ==
    ASSUME NEW S, NEW T, NEW m, m \in [DOMAIN m -> T], DOMAIN m \subseteq S,
           NEW k \in S, NEW v \in T
    PROVE  /\ DOMAIN Put(m, k, v) = DOMAIN m \cup {k}
           /\ DOMAIN Put(m, k, v) \subseteq S
           /\ Put(m, k, v) \in [DOMAIN Put(m, k, v) -> T]
           /\ Put(m, k, v)[k] = v
           /\ \A x \in DOMAIN m \ {k} : Put(m, k, v)[x] = m[x]
  BY DEF Put

(* add_string on bytes leaves bytes, and the offset it returns is one. *)
LEMMA AddStringType ==
    ASSUME NEW d \in Seq(0..255), NEW str \in Seq(1..255)
    PROVE  /\ Strtab!add_string_data(d, str) \in Seq(0..255)
           /\ Strtab!add_string_offset(d) \in Nat
<1> DEFINE p == IF Len(d) < 2 THEN Append(d, 0) ELSE d
           front == SubSeq(p, 1, Len(p) - 1)
<1>1. Len(d) \in Nat /\ str \in Seq(0..255) /\ 0 \in 0..255
  BY LenProperties
<1>2. p \in Seq(0..255) /\ Len(p) > 0 /\ Len(p) \in Nat
  <2>1. Append(d, 0) \in Seq(0..255) /\ Len(Append(d, 0)) = Len(d) + 1
    BY <1>1, AppendProperties
  <2> QED
    BY <1>1, <2>1
<1> HIDE DEF p
<1>3. p[Len(p)] \in 0..255 /\ \A k \in 1..(Len(p) - 1) : p[k] \in 0..255
  <2>1. \A k \in 1..Len(p) : p[k] \in 0..255
    BY <1>2, ElementOfSeq
  <2>2. Len(p) \in 1..Len(p) /\ 1..(Len(p) - 1) \subseteq 1..Len(p)
    BY <1>2
  <2> QED
    BY <2>1, <2>2
<1>4. front \in Seq(0..255)
  BY <1>2, <1>3, SubSeqProperties
<1> HIDE DEF front
<1>5. front \o str \o <<0>> \o <<p[Len(p)]>> \in Seq(0..255)
  BY <1>1, <1>3, <1>4
<1>6. Strtab!add_string_data(d, str) = front \o str \o <<0>> \o <<p[Len(p)]>>
  BY DEF Strtab!add_string_data, Strtab!NUL, p, front
<1>7. Strtab!add_string_offset(d) \in Nat
  BY <1>1 DEF Strtab!add_string_offset
<1> QED
  BY <1>5, <1>6, <1>7

-----------------------------------------------------------------------------
(***************************************************************************)
(* Type correctness, one lemma per part of the state an action changes.    *)
(***************************************************************************)

(* add_to_text keeps the tables typed. *)
LEMMA AddToTextType ==
    ASSUME TablesOK, NEW w \in Word, add_to_text(w), UNCHANGED tables
    PROVE  TablesOK'
<1>1. text' \in Seq(Word) /\ Len(text') \in Nat
  <2>1. text' = Append(text, w)
    BY DEF add_to_text
  <2>2. text' \in Seq(Word)
    BY <2>1, AppendProperties DEF TablesOK
  <2> QED
    BY <2>2, LenProperties
<1>2. sh_size' \in [text : Nat, data : Nat, strtab : Nat, symtab : Nat]
  <2>1. SizeofInsn * Len(text') \in Nat
    BY <1>1 DEF SizeofInsn
  <2>2. sh_size' = [sh_size EXCEPT !.text = SizeofInsn * Len(text')]
    BY DEF add_to_text
  <2> QED
    BY <2>1, <2>2 DEF TablesOK
<1> QED
  BY <1>1, <1>2 DEF TablesOK, tables

(* So does storing a symbol and its name. *)
LEMMA StoreSymbolType ==
    ASSUME TablesOK,
           NEW l \in Names, NEW info \in Nat, NEW idx \in Nat, NEW value \in Nat,
           NEW val \in Seq(0..255),
           NEW sizes \in [text : Nat, data : Nat, strtab : Nat, symtab : Nat],
           StoreSymbol(Symbol(l, info, idx, value, val), sizes)
    PROVE  /\ strtab' \in Seq(0..255) /\ symtab' \in Seq(SymEntry)
           /\ sh_size' \in [text : Nat, data : Nat, strtab : Nat, symtab : Nat]
<1> DEFINE sym == Symbol(l, info, idx, value, val)
<1>1. Strtab!add_string_offset(strtab) \in Nat
      /\ Strtab!add_string_data(strtab, Chars[l]) \in Seq(0..255)
  BY AddStringType, CharsAssumption DEF TablesOK
<1>2. sym \in SymEntry /\ sym.name = l
  BY <1>1 DEF Symbol, SymEntry
<1> HIDE DEF sym
<1>3. /\ strtab' = Strtab!add_string_data(strtab, Chars[sym.name])
      /\ symtab' = Append(symtab, sym)
      /\ sh_size' = [sizes EXCEPT !.strtab = Len(strtab'), !.symtab = SizeofSym * Len(symtab')]
  BY DEF StoreSymbol, sym
<1>4. strtab' \in Seq(0..255) /\ Len(strtab') \in Nat
  BY <1>1, <1>2, <1>3, LenProperties
<1>5. symtab' \in Seq(SymEntry)
  BY <1>2, <1>3, AppendProperties DEF TablesOK
<1>6. Len(symtab') \in Nat
  BY <1>5, LenProperties
<1>7. sh_size' \in [text : Nat, data : Nat, strtab : Nat, symtab : Nat]
  <2>1. SizeofSym * Len(symtab') \in Nat
    BY <1>6 DEF SizeofSym
  <2> QED
    BY <1>3, <1>4, <2>1
<1> QED
  BY <1>4, <1>5, <1>7

(* init_label, for a label that exists and for a new one. *)
LEMMA InitLabelType ==
    ASSUME TablesOK, LabelsOK, NEW l \in Names, NEW g \in BOOLEAN, NEW s,
           init_label(l, g, s), UNCHANGED text
    PROVE  TablesOK' /\ LabelsOK'
<1>1. CASE label_exists(l)
  BY <1>1 DEF init_label, tables, labels, TablesOK, LabelsOK
<1>2. CASE ~label_exists(l)
  <2> DEFINE info == ELF32_ST_BIND(IF g THEN STB_GLOBAL ELSE STB_LOCAL)
             idx == IF s \in DOMAIN section_to_idx THEN section_to_idx[s] ELSE 0
  <2>1. /\ StoreSymbol(Symbol(l, info, idx, 0, <<>>), sh_size)
        /\ BindLabel(l) /\ UNCHANGED <<data, section_to_idx>>
    BY <1>2 DEF init_label, NewLabel
  <2>2. info \in Nat /\ idx \in Nat /\ <<>> \in Seq(0..255)
    BY DEF ELF32_ST_BIND, STB_GLOBAL, STB_LOCAL, TablesOK
  <2> HIDE DEF info, idx
  <2>3. /\ strtab' \in Seq(0..255) /\ symtab' \in Seq(SymEntry)
        /\ sh_size' \in [text : Nat, data : Nat, strtab : Nat, symtab : Nat]
    BY <2>1, <2>2, StoreSymbolType DEF TablesOK
  <2>4. TablesOK'
    BY <2>1, <2>3 DEF TablesOK
  <2>5. last_index(text) \in Nat
    BY LenProperties DEF last_index, TablesOK
  <2>6. Hash[l] \in Word
    BY HashAssumption
  <2>7. LabelsOK'
    <3>1. /\ unresolved_labels' = unresolved_labels \ {l}
          /\ resolved_labels' = Put(resolved_labels, l, last_index(text))
          /\ label_to_addr' = Put(label_to_addr, Hash[l], last_index(text))
      BY <2>1 DEF BindLabel
    <3>2. /\ resolved_labels' \in [DOMAIN resolved_labels' -> Nat]
          /\ DOMAIN resolved_labels' \subseteq Names
      <4>1. /\ resolved_labels \in [DOMAIN resolved_labels -> Nat]
            /\ DOMAIN resolved_labels \subseteq Names
        BY DEF LabelsOK
      <4> DEFINE m == Put(resolved_labels, l, last_index(text))
      <4>2. m \in [DOMAIN m -> Nat] /\ DOMAIN m \subseteq Names
        BY <2>5, <4>1, PutType
      <4> QED
        BY <3>1, <4>2
    <3>3. /\ label_to_addr' \in [DOMAIN label_to_addr' -> Nat]
          /\ DOMAIN label_to_addr' \subseteq Word
      <4>1. /\ label_to_addr \in [DOMAIN label_to_addr -> Nat]
            /\ DOMAIN label_to_addr \subseteq Word
        BY DEF LabelsOK
      <4> DEFINE m == Put(label_to_addr, Hash[l], last_index(text))
      <4>2. m \in [DOMAIN m -> Nat] /\ DOMAIN m \subseteq Word
        BY <2>5, <2>6, <4>1, PutType
      <4> QED
        BY <3>1, <4>2
    <3> QED
      BY <3>1, <3>2, <3>3 DEF LabelsOK
  <2> QED
    BY <2>4, <2>7
<1> QED
  BY <1>1, <1>2

(* Recording a reference. *)
LEMMA UnresolvedType ==
    ASSUME TypeOK, NEW l \in Names, NEW t \in {"B_TYPE", "J_TYPE"}, Unresolved(t, l)
    PROVE  LabelsOK' /\ RefsOK'
<1> DEFINE n == get_next_insn_number(currentSection)
           e == [insn_number |-> n, pc_insn_number |-> n - 1, insn_type |-> t, hash |-> Hash[l]]
<1>1. n \in Nat
  BY LenProperties DEF get_next_insn_number, next_index, TypeOK, TablesOK
<1>2. e \in Reference
  BY <1>1, HashAssumption DEF Reference
<1>3. unresolved_instructions' = Append(unresolved_instructions, e)
      /\ unresolved_labels' = unresolved_labels \cup {l}
      /\ UNCHANGED <<resolved_labels, label_to_addr, symbols>>
  BY DEF Unresolved
<1> HIDE DEF e
<1>4. unresolved_instructions' \in Seq(Reference)
  BY <1>2, <1>3, AppendProperties DEF TypeOK, RefsOK
<1> QED
  BY <1>3, <1>4 DEF TypeOK, RefsOK, LabelsOK

(* Taking an item of the input. *)
LEMMA ConsumeType ==
    ASSUME TypeOK, NEW from, NEW to, Consume(from, to)
    PROVE  pc \in from /\ pc' = to /\ items' \in Nat
<1>1. pc \in from /\ pc' = to /\ items' = items + 1
  BY DEF Consume
<1>2. items \in Nat
  BY DEF TypeOK, ParserOK
<1> QED
  BY <1>1, <1>2

(* An instruction leaves the parser in the block it was in. *)
LEMMA InstructionParser ==
    ASSUME TypeOK, NEW i \in Insns, NEW r, Instruction(i, r), UNCHANGED parser
    PROVE  ParserOK'
<1>1. pc \in {"label", "body"} /\ pc' = "body" /\ items' \in Nat
  BY ConsumeType DEF Instruction
<1>2. stmtLabel' = stmtLabel /\ currentSection' = currentSection /\ temp_value' = temp_value
  BY DEF parser
<1> QED
  BY <1>1, <1>2 DEF TypeOK, ParserOK

(* A step of the parser that emits one word and changes nothing else. *)
LEMMA EmitType ==
    ASSUME TypeOK, NEW i \in Insns, NEW r, NEW w \in Word,
           Instruction(i, r), Emit(w)
    PROVE  TypeOK'
<1>1. TablesOK'
  BY AddToTextType DEF Emit, TypeOK, tables
<1>2. ParserOK'
  BY InstructionParser DEF Emit
<1>3. LabelsOK' /\ RefsOK' /\ OutputOK'
  BY DEF Emit, labels, refs, output, TypeOK, LabelsOK, RefsOK, OutputOK
<1> QED
  BY <1>1, <1>2, <1>3 DEF TypeOK

(* Steps that change only where the parser stands. *)
LEMMA QuietType ==
    ASSUME TypeOK, pc' \in Final \/ pc' = "resolve" \/ (pc \in {"label", "body"} /\ pc' = "body"),
           items' \in Nat, NoEmit
    PROVE  TypeOK'
<1>1. ParserOK'
  BY DEF NoEmit, parser, TypeOK, ParserOK, Final
<1>2. TablesOK' /\ LabelsOK' /\ RefsOK' /\ OutputOK'
  BY DEF NoEmit, tables, labels, refs, output, TypeOK, TablesOK, LabelsOK, RefsOK, OutputOK
<1> QED
  BY <1>1, <1>2 DEF TypeOK

(* exit_with_message. *)
LEMMA ExitType ==
    ASSUME TypeOK, Exit
    PROVE  TypeOK'
<1>1. pc' \in Final /\ items' = items + 1 /\ NoEmit
  BY DEF Exit, Final
<1>2. items \in Nat
  BY DEF TypeOK, ParserOK
<1> QED
  BY <1>1, <1>2, QuietType

(* An instruction that emits nothing. *)
LEMMA DroppedType ==
    ASSUME TypeOK, NEW i \in Insns, NEW r, Instruction(i, r), NoEmit
    PROVE  TypeOK'
<1>1. pc \in {"label", "body"} /\ pc' = "body" /\ items' \in Nat
  BY ConsumeType DEF Instruction
<1> QED
  BY <1>1, QuietType

(* Every instruction of the grammar. *)
LEMMA InstructionTypeOK ==
    ASSUME TypeOK, NEW i \in Insns, InstructionStep(i)
    PROVE  TypeOK'
<1>1. CASE Arithmetic(i)
  <2>1. RWord(i) \in Word
    BY EmittedAreWords DEF RWord
  <2> QED
    BY <1>1, <2>1, EmitType DEF Arithmetic
<1>2. CASE Immediate(i) \/ UseSymbol(i)
  <2>1. \A o : IWord(i, o) \in Word
    BY EmittedAreWords DEF IWord
  <2> QED
    BY <1>2, <2>1, EmitType DEF Immediate, UseSymbol
<1>3. CASE ImmediateOutOfRange(i) \/ JumpOutOfRange(i)
  BY <1>3, ExitType DEF ImmediateOutOfRange, JumpOutOfRange
<1>4. CASE DeclareSymbol(i)
  <2>1. i.sym \in Names
    BY <1>4, InsnsAssumption DEF DeclareSymbol, Instruction
  <2>2. ParserOK'
    BY <1>4, InstructionParser DEF DeclareSymbol
  <2>3. TablesOK' /\ LabelsOK' /\ OutputOK'
    BY <1>4 DEF DeclareSymbol, tables, labels, output, TypeOK, TablesOK, LabelsOK, OutputOK
  <2>4. RefsOK'
    BY <1>4, <2>1 DEF DeclareSymbol, add_symbol, Put, TypeOK, RefsOK
  <2> QED
    BY <2>2, <2>3, <2>4 DEF TypeOK
<1>5. CASE HiModifier(i) \/ LoadAddress(i)
  BY <1>5, DroppedType DEF HiModifier, LoadAddress
<1>6. CASE LoadStore(i)
  <2>1. LSWord(i) \in Word
    BY EmittedAreWords DEF LSWord
  <2> QED
    BY <1>6, <2>1, EmitType DEF LoadStore
<1>7. CASE System(i) \/ Mv(i) \/ Ret(i)
  <2>1. SysWord(i) \in Word /\ MvWord(i) \in Word /\ RetWord \in Word
    BY EmittedAreWords DEF SysWord, MvWord, RetWord
  <2> QED
    BY <1>7, <2>1, EmitType DEF System, Mv, Ret
<1>8. CASE BranchResolved(i)
  <2>1. \A o : BWord(i, o) \in Word
    BY EmittedAreWords DEF BWord
  <2> QED
    BY <1>8, <2>1, EmitType DEF BranchResolved
<1>9. CASE BranchUnresolved(i)
  <2>1. BWord(i, Hash[i.sym]) \in Word /\ i.sym \in Names
    BY <1>9, EmittedAreWords, InsnsAssumption DEF BWord, BranchUnresolved, Instruction
  <2>2. TablesOK'
    BY <1>9, <2>1, AddToTextType DEF BranchUnresolved, TypeOK
  <2>3. LabelsOK' /\ RefsOK'
    BY <1>9, <2>1, UnresolvedType DEF BranchUnresolved
  <2>4. ParserOK' /\ OutputOK'
    BY <1>9, InstructionParser DEF BranchUnresolved, output, TypeOK, OutputOK
  <2> QED
    BY <2>2, <2>3, <2>4 DEF TypeOK
<1>10. CASE JumpResolved(i)
  <2>1. \A o : JWord(o) \in Word
    BY EmittedAreWords DEF JWord
  <2> QED
    BY <1>10, <2>1, EmitType DEF JumpResolved
<1>11. CASE JumpUnresolved(i)
  <2>1. i.sym \in Names
    BY <1>11, InsnsAssumption DEF JumpUnresolved, Instruction
  <2>2. LabelsOK' /\ RefsOK'
    BY <1>11, <2>1, UnresolvedType DEF JumpUnresolved
  <2>3. ParserOK' /\ OutputOK'
    BY <1>11, InstructionParser DEF JumpUnresolved, output, TypeOK, OutputOK
  <2>4. TablesOK'
    BY <1>11 DEF JumpUnresolved, tables, TypeOK, TablesOK
  <2> QED
    BY <2>2, <2>3, <2>4 DEF TypeOK
<1> QED
  BY <1>1, <1>2, <1>3, <1>4, <1>5, <1>6, <1>7, <1>8, <1>9, <1>10, <1>11 DEF InstructionStep

(* A round of the second pass. *)
LEMMA ResolveTypeOK ==
    ASSUME TypeOK, ResolveEntry
    PROVE  TypeOK'
<1> DEFINE e == unresolved_instructions[entry]
           addr == IF e.hash \in DOMAIN label_to_addr THEN label_to_addr[e.hash] ELSE 0
           w == Patched(e, addr, get_entry(text, e.insn_number))
<1>1. e \in Reference
  <2>1. entry \in 1..Len(unresolved_instructions)
    BY LenProperties DEF ResolveEntry, TypeOK, OutputOK, RefsOK
  <2> QED
    BY <2>1, ElementOfSeq DEF TypeOK, RefsOK
<1>2. /\ label_to_addr' = Put(label_to_addr, e.hash, addr)
      /\ text' = update_entry(text, e.insn_number, w)
  BY DEF ResolveEntry, Resolve
<1>3. w \in Word
  <2>1. e.insn_type = "B_TYPE" \/ e.insn_type = "J_TYPE"
    BY <1>1 DEF Reference
  <2> HIDE DEF e
  <2>2. CASE e.insn_type = "B_TYPE"
    BY <2>2, EmittedAreWords DEF Patched
  <2>3. CASE e.insn_type = "J_TYPE"
    BY <2>3, EmittedAreWords DEF Patched
  <2> QED
    BY <2>1, <2>2, <2>3
<1>4. e.hash \in Word /\ e.insn_number \in Nat
  BY <1>1 DEF Reference
<1> HIDE DEF e, w
<1>5. addr \in Nat
  BY DEF TypeOK, LabelsOK
<1> HIDE DEF addr
<1>6. LabelsOK'
  <2>1. /\ label_to_addr' \in [DOMAIN label_to_addr' -> Nat]
        /\ DOMAIN label_to_addr' \subseteq Word
    <3>1. /\ label_to_addr \in [DOMAIN label_to_addr -> Nat]
          /\ DOMAIN label_to_addr \subseteq Word
      BY DEF TypeOK, LabelsOK
    <3>2. /\ Put(label_to_addr, e.hash, addr) \in [DOMAIN Put(label_to_addr, e.hash, addr) -> Nat]
          /\ DOMAIN Put(label_to_addr, e.hash, addr) \subseteq Word
      BY <1>4, <1>5, <3>1, PutType
    <3> QED
      BY <1>2, <3>2
  <2>2. UNCHANGED <<resolved_labels, unresolved_labels>>
    BY DEF ResolveEntry
  <2> QED
    BY <2>1, <2>2 DEF TypeOK, LabelsOK
<1>7. text' \in Seq(Word)
  <2>1. CASE e.insn_number < Len(text)
    <3>1. e.insn_number + 1 \in 1..Len(text)
      BY <1>4, <2>1, LenProperties DEF TypeOK, TablesOK
    <3>2. [text EXCEPT ![e.insn_number + 1] = w] \in Seq(Word)
      BY <1>3, <3>1, ExceptSeq DEF TypeOK, TablesOK
    <3> QED
      BY <1>2, <2>1, <3>2 DEF update_entry
  <2>2. CASE ~(e.insn_number < Len(text))
    BY <1>2, <2>2 DEF update_entry, TypeOK, TablesOK
  <2> QED
    BY <2>1, <2>2
<1>8. TablesOK'
  BY <1>7 DEF ResolveEntry, tables, TypeOK, TablesOK
<1>9. ParserOK' /\ RefsOK'
  BY DEF ResolveEntry, parser, refs, TypeOK, ParserOK, RefsOK
<1>10. OutputOK'
  <2>1. entry' = entry + 1 /\ file' = file
    BY DEF ResolveEntry
  <2> QED
    BY <2>1 DEF TypeOK, OutputOK
<1> QED
  BY <1>6, <1>8, <1>9, <1>10 DEF TypeOK

(* The initial state. *)
LEMMA InitTypeOK == Init => TypeOK
<1> SUFFICES ASSUME Init PROVE TypeOK
  OBVIOUS
<1>0. \A S : <<>> \in Seq(S)
  BY EmptySeq
<1>1. ParserOK
  BY <1>0 DEF Init, ParserOK
<1>2. TablesOK
  <2>1. NullSymbol \in SymEntry
    BY DEF NullSymbol, SymEntry
  <2>2. symtab \in Seq(SymEntry)
    <3>1. symtab = <<NullSymbol>>
      BY DEF Init
    <3> QED
      BY <2>1, <3>1
  <2>3. text \in Seq(Word) /\ data \in Seq(0..255) /\ strtab \in Seq(0..255)
    <3>1. text = <<>> /\ data = <<>> /\ strtab = <<0>>
      BY DEF Init
    <3>2. <<0>> \in Seq(0..255)
      OBVIOUS
    <3> QED
      BY <1>0, <3>1, <3>2
  <2>4. sh_size \in [text : Nat, data : Nat, strtab : Nat, symtab : Nat]
    BY DEF Init, SizeofSym
  <2>5. section_to_idx \in [DOMAIN section_to_idx -> Nat]
    BY DEF Init
  <2> QED
    BY <2>2, <2>3, <2>4, <2>5 DEF TablesOK
<1>3. LabelsOK /\ RefsOK /\ OutputOK
  <2>1. /\ resolved_labels = <<>> /\ label_to_addr = <<>> /\ symbols = <<>>
        /\ unresolved_labels = {} /\ unresolved_instructions = <<>>
        /\ entry = 1 /\ file = "none"
    BY DEF Init
  <2>2. DOMAIN <<>> = {} /\ <<>> \in [{} -> Nat]
    OBVIOUS
  <2>3. LabelsOK
    BY <2>1, <2>2 DEF LabelsOK
  <2>4. RefsOK
    BY <1>0, <2>1, <2>2 DEF RefsOK
  <2>5. OutputOK
    BY <2>1 DEF OutputOK
  <2> QED
    BY <2>3, <2>4, <2>5
<1> QED
  BY <1>1, <1>2, <1>3 DEF TypeOK

(* A directive, alone or after a label. *)
LEMMA DirectiveParser ==
    ASSUME TypeOK, Directive, stmtLabel' = stmtLabel,
           currentSection' \in {"", ".text", ".data"}, temp_value' \in Seq(0..255)
    PROVE  ParserOK'
<1> DEFINE to == IF pc = "label" THEN "labelled" ELSE "statement"
<1>1. Consume({"statement", "label"}, to)
  BY DEF Directive
<1>2. pc \in {"statement", "label"} /\ pc' = to /\ items' = items + 1
  <2> HIDE DEF to
  <2> QED
    BY <1>1 DEF Consume
<1>3. items' \in Nat
  <2> HIDE DEF to
  <2> QED
    BY <1>1, ConsumeType
<1> QED
  BY <1>2, <1>3 DEF TypeOK, ParserOK

(* Every step keeps the types. *)
LEMMA NextTypeOK == TypeOK /\ [Next]_vars => TypeOK'
<1> SUFFICES ASSUME TypeOK, [Next]_vars PROVE TypeOK'
  OBVIOUS
<1>1. ASSUME NEW l \in Names, Label(l) PROVE TypeOK'
  <2>1. pc' = "label" /\ items' \in Nat
    BY <1>1, ConsumeType DEF Label
  <2>2. ParserOK'
    BY <1>1, <2>1 DEF Label, TypeOK, ParserOK
  <2>3. TablesOK' /\ LabelsOK' /\ RefsOK' /\ OutputOK'
    BY <1>1 DEF Label, tables, labels, refs, output, TypeOK, TablesOK, LabelsOK, RefsOK, OutputOK
  <2> QED
    BY <2>2, <2>3 DEF TypeOK
<1>2. ASSUME NEW l \in Names, Globl(l) PROVE TypeOK'
  <2>1. TablesOK' /\ LabelsOK'
    <3>1. CASE label_exists(l)
      BY <1>2, <3>1 DEF Globl, update_label_visibility, tables, labels, TypeOK, TablesOK, LabelsOK
    <3>2. CASE ~label_exists(l)
      BY <1>2, <3>2, InitLabelType DEF Globl, update_label_visibility, TypeOK
    <3> QED
      BY <3>1, <3>2
  <2>2. ParserOK'
    BY <1>2, DirectiveParser DEF Globl, parser, TypeOK, ParserOK
  <2>3. RefsOK' /\ OutputOK'
    BY <1>2 DEF Globl, refs, output, TypeOK, RefsOK, OutputOK
  <2> QED
    BY <2>1, <2>2, <2>3 DEF TypeOK
<1>3. ASSUME NEW s \in {".text", ".data"}, SectionDirective(s) PROVE TypeOK'
  <2>1. ParserOK'
    BY <1>3, DirectiveParser DEF SectionDirective, TypeOK, ParserOK
  <2>2. TablesOK' /\ LabelsOK' /\ RefsOK' /\ OutputOK'
    BY <1>3 DEF SectionDirective, tables, labels, refs, output,
                TypeOK, TablesOK, LabelsOK, RefsOK, OutputOK
  <2> QED
    BY <2>1, <2>2 DEF TypeOK
<1>4. ASSUME NEW v \in Values, Ascii(v) PROVE TypeOK'
  <2>1. v \in Seq(0..255)
    BY ValuesAssumption
  <2>2. ParserOK'
    BY <1>4, <2>1, DirectiveParser DEF Ascii
  <2>3. TablesOK' /\ LabelsOK' /\ RefsOK' /\ OutputOK'
    BY <1>4 DEF Ascii, tables, labels, refs, output,
                TypeOK, TablesOK, LabelsOK, RefsOK, OutputOK
  <2> QED
    BY <2>2, <2>3 DEF TypeOK
<1>5. CASE TextDirective
  <2>1. ParserOK'
    BY <1>5, DirectiveParser DEF TextDirective, parser, TypeOK, ParserOK
  <2>2. TablesOK' /\ LabelsOK' /\ RefsOK' /\ OutputOK'
    BY <1>5 DEF TextDirective, tables, labels, refs, output,
                TypeOK, TablesOK, LabelsOK, RefsOK, OutputOK
  <2> QED
    BY <2>1, <2>2 DEF TypeOK
<1>6. CASE LabelledDirective
  <2>1. TablesOK'
    <3>1. CASE temp_value # <<>>
      <4> DEFINE idx == IF currentSection \in DOMAIN section_to_idx
                        THEN section_to_idx[currentSection] ELSE 0
                 sizes == [sh_size EXCEPT !.data = Len(data')]
      <4>1. stmtLabel \in Names /\ temp_value \in Seq(0..255)
        BY <1>6 DEF LabelledDirective, TypeOK, ParserOK
      <4>2. /\ data' = data \o temp_value
            /\ StoreSymbol(Symbol(stmtLabel, ELF32_ST_BIND(STB_LOCAL), idx, Len(data), temp_value),
                           sizes)
            /\ section_to_idx' = Put(section_to_idx, currentSection, idx)
        BY <1>6, <3>1 DEF LabelledDirective, add_program_data, Data_push
      <4>3. data' \in Seq(0..255) /\ Len(data') \in Nat /\ Len(data) \in Nat
        <5>1. data \in Seq(0..255)
          BY DEF TypeOK, TablesOK
        <5>2. data' \in Seq(0..255)
          BY <4>1, <4>2, <5>1, ConcatProperties
        <5> QED
          BY <5>1, <5>2, LenProperties
      <4>4. idx \in Nat /\ ELF32_ST_BIND(STB_LOCAL) \in Nat
        BY DEF TypeOK, TablesOK, ELF32_ST_BIND, STB_LOCAL
      <4>5. sizes \in [text : Nat, data : Nat, strtab : Nat, symtab : Nat]
        BY <4>3 DEF TypeOK, TablesOK
      <4> HIDE DEF idx, sizes
      <4>6. /\ strtab' \in Seq(0..255) /\ symtab' \in Seq(SymEntry)
            /\ sh_size' \in [text : Nat, data : Nat, strtab : Nat, symtab : Nat]
        BY <4>1, <4>2, <4>3, <4>4, <4>5, StoreSymbolType DEF TypeOK
      <4>7. section_to_idx' \in [DOMAIN section_to_idx' -> Nat]
        BY <4>2, <4>4 DEF Put, TypeOK, TablesOK
      <4>8. text' = text
        BY <1>6 DEF LabelledDirective
      <4> QED
        BY <4>3, <4>6, <4>7, <4>8 DEF TypeOK, TablesOK
    <3>2. CASE temp_value = <<>>
      BY <1>6, <3>2 DEF LabelledDirective, tables, TypeOK, TablesOK
    <3> QED
      BY <3>1, <3>2
  <2>2. ParserOK'
    BY <1>6, EmptySeq DEF LabelledDirective, TypeOK, ParserOK
  <2>3. LabelsOK' /\ RefsOK' /\ OutputOK'
    BY <1>6 DEF LabelledDirective, labels, refs, output, TypeOK, LabelsOK, RefsOK, OutputOK
  <2> QED
    BY <2>1, <2>2, <2>3 DEF TypeOK
<1>7. CASE EndBlock
  <2>1. stmtLabel \in Names
    BY <1>7 DEF EndBlock, TypeOK, ParserOK
  <2>2. TablesOK' /\ LabelsOK'
    BY <1>7, <2>1, InitLabelType DEF EndBlock, TypeOK
  <2>3. ParserOK'
    BY <1>7 DEF EndBlock, TypeOK, ParserOK
  <2>4. RefsOK' /\ OutputOK'
    BY <1>7 DEF EndBlock, refs, output, TypeOK, RefsOK, OutputOK
  <2> QED
    BY <2>2, <2>3, <2>4 DEF TypeOK
<1>8. ASSUME NEW i \in Insns, InstructionStep(i) PROVE TypeOK'
  BY <1>8, InstructionTypeOK
<1>9. CASE SyntaxError \/ EndOfFile
  <2>1. (pc' \in Final \/ pc' = "resolve") /\ items' \in Nat /\ NoEmit
    BY <1>9 DEF SyntaxError, EndOfFile, NoEmit, Final, TypeOK, ParserOK
  <2> QED
    BY <2>1, QuietType
<1>10. CASE ResolveEntry
  BY <1>10, ResolveTypeOK
<1>11. CASE WriteElf
  <2>1. ParserOK'
    BY <1>11 DEF WriteElf, parser, TypeOK, ParserOK, Final
  <2>2. TablesOK' /\ LabelsOK' /\ RefsOK' /\ OutputOK'
    BY <1>11 DEF WriteElf, tables, labels, refs, TypeOK, TablesOK, LabelsOK, RefsOK, OutputOK
  <2> QED
    BY <2>1, <2>2 DEF TypeOK
<1>12. CASE UNCHANGED vars
  BY <1>12 DEF vars, parser, tables, labels, refs, output,
               TypeOK, ParserOK, TablesOK, LabelsOK, RefsOK, OutputOK
<1> QED
  BY <1>1, <1>2, <1>3, <1>4, <1>5, <1>6, <1>7, <1>8, <1>9, <1>10, <1>11, <1>12
  DEF Next, ParseStep, Terminated

(* Every variable keeps its type, whatever the input and its length; the   *)
(* parser never ends a block without a label, and no symbol is resolved.   *)
THEOREM TypeCorrect == Spec => []TypeOK
  BY InitTypeOK, NextTypeOK, PTL DEF Spec
=============================================================================
