----------------------------- MODULE TextProofs -----------------------------
(***************************************************************************)
(* .text and the references into it: where instructions land, what the     *)
(* second pass rewrites, and what a patched branch says.                   *)
(***************************************************************************)
EXTENDS LabelProofs

(* An instruction that records no reference adds a word to .text or leaves *)
(* it alone.                                                               *)
LEMMA InstructionText ==
    ASSUME TypeOK, NEW i \in Insns, InstructionStep(i)
    PROVE  \/ UNCHANGED <<labels, unresolved_instructions, text>>
           \/ /\ UNCHANGED <<labels, unresolved_instructions>>
              /\ \E w \in Word : text' = Append(text, w)
           \/ BranchUnresolved(i) \/ JumpUnresolved(i)
<1>1. CASE ImmediateOutOfRange(i) \/ JumpOutOfRange(i) \/ HiModifier(i) \/ LoadAddress(i)
  BY <1>1 DEF ImmediateOutOfRange, JumpOutOfRange, HiModifier, LoadAddress, Exit, NoEmit, labels, refs
<1>2. CASE DeclareSymbol(i)
  BY <1>2 DEF DeclareSymbol, labels
<1>3. CASE \/ Arithmetic(i) \/ Immediate(i) \/ UseSymbol(i) \/ LoadStore(i) \/ System(i)
           \/ Mv(i) \/ Ret(i) \/ BranchResolved(i) \/ JumpResolved(i)
  <2>1. \A o : /\ RWord(i) \in Word /\ IWord(i, o) \in Word /\ LSWord(i) \in Word
               /\ SysWord(i) \in Word /\ MvWord(i) \in Word /\ RetWord \in Word
               /\ BWord(i, o) \in Word /\ JWord(o) \in Word
    BY EmittedAreWords DEF RWord, IWord, LSWord, SysWord, MvWord, RetWord, BWord, JWord
  <2>2. \E w \in Word : Emit(w)
    BY <1>3, <2>1 DEF Arithmetic, Immediate, UseSymbol, LoadStore, System, Mv, Ret,
                      BranchResolved, JumpResolved
  <2> QED
    BY <2>2 DEF Emit, add_to_text, labels, refs
<1> QED
  BY <1>1, <1>2, <1>3 DEF InstructionStep

(* Every way .text, the recorded references and the bound labels change.   *)
LEMMA TextSteps ==
    ASSUME TypeOK, [Next]_vars
    PROVE  \/ UNCHANGED <<resolved_labels, unresolved_instructions, text>>
           \/ /\ UNCHANGED <<resolved_labels, unresolved_instructions>>
              /\ \E w \in Word : text' = Append(text, w)
           \/ \E l \in Names : BindLabel(l) /\ UNCHANGED <<unresolved_instructions, text>>
           \/ \E i \in Insns : BranchUnresolved(i) \/ JumpUnresolved(i)
           \/ ResolveEntry
<1> DEFINE Quiet == UNCHANGED <<resolved_labels, unresolved_instructions, text>>
           Binds(l) == BindLabel(l) /\ UNCHANGED <<unresolved_instructions, text>>
<1>1. ASSUME NEW l \in Names, NEW g, NEW s, init_label(l, g, s), UNCHANGED <<text, refs>>
      PROVE  Quiet \/ Binds(l)
  BY <1>1 DEF init_label, NewLabel, labels, refs
<1>2. ASSUME NEW l \in Names, Globl(l) PROVE Quiet \/ Binds(l)
  <2>1. CASE label_exists(l)
    BY <1>2, <2>1 DEF Globl, update_label_visibility, labels, refs
  <2>2. CASE ~label_exists(l)
    BY <1>1, <1>2, <2>2 DEF Globl, update_label_visibility
  <2> QED
    BY <2>1, <2>2
<1>3. ASSUME EndBlock PROVE Quiet \/ \E l \in Names : Binds(l)
  <2>1. stmtLabel \in Names
    BY <1>3 DEF EndBlock, TypeOK, ParserOK
  <2> QED
    BY <1>1, <1>3, <2>1 DEF EndBlock
<1>4. ASSUME \/ \E l \in Names : Label(l)
             \/ \E s \in {".text", ".data"} : SectionDirective(s)
             \/ \E v \in Values : Ascii(v)
             \/ TextDirective \/ LabelledDirective \/ SyntaxError \/ EndOfFile \/ WriteElf
             \/ UNCHANGED vars
      PROVE  Quiet
  BY <1>4 DEF Label, SectionDirective, Ascii, TextDirective, LabelledDirective, SyntaxError,
              EndOfFile, WriteElf, vars, labels, refs
<1>5. labels' = labels => UNCHANGED resolved_labels
  BY DEF labels
<1> QED
  BY <1>2, <1>3, <1>4, <1>5, InstructionText DEF Next, ParseStep, Terminated

-----------------------------------------------------------------------------
(***************************************************************************)
(* The second pass.                                                        *)
(***************************************************************************)

(* deserialize and the decoder cut the same opcode from a word. *)
LEMMA OpcodeField ==
    ASSUME NEW w \in Word
    PROVE  Low(w, 7) = Slice(w, 6, 0)
<1>1. w \in SUBSET Int
  BY DEF Word
<1>2. \A b : b \in Low(w, 7) <=> b \in Slice(w, 6, 0)
  BY <1>1, LowBits, SliceBits
<1> QED
  BY <1>2

(* Whatever address a reference gets, patching a word keeps its opcode. *)
LEMMA PatchKeepsOpcode ==
    ASSUME NEW e, e.insn_type \in {"B_TYPE", "J_TYPE"}, NEW addr, NEW insn \in Word
    PROVE  Low(Patched(e, addr, insn), 7) = Low(insn, 7)
<1> DEFINE offset == effective_offset(e, addr)
           b == btype32_deserialize(insn)
           j == jtype32_deserialize(insn)
<1>1. offset \in Word /\ Low(insn, 7) \in Word
  BY U32Word, FieldsAreWords DEF effective_offset
<1>0. Low(Low(insn, 7), 7) = Low(insn, 7)
  BY DEF Low
<1>2. /\ b.opcode = Low(insn, 7) /\ j.opcode = Low(insn, 7)
      /\ b.funct3 \in Word /\ b.rs1 \in Word /\ b.rs2 \in Word
      /\ b.opcode \in Word /\ j.rd \in Word
  BY FieldsAreWords DEF btype32_deserialize, jtype32_deserialize
<1> HIDE DEF b, j, offset
<1>3. CASE e.insn_type = "B_TYPE"
  <2> DEFINE w == Patched(e, addr, insn)
  <2>1. w = emit_b_type_instruction(offset, b.rs1, b.rs2, b.funct3, b.opcode)
    BY <1>3 DEF Patched, offset, b
  <2>2. w \in Word
    BY <2>1, EmittedAreWords
  <2> HIDE DEF w
  <2>3. Slice(w, 6, 0) = Low(b.opcode, 7)
    BY <1>1, <1>2, <2>1, BranchDecodes
  <2> QED
    BY <1>0, <1>2, <2>2, <2>3, OpcodeField DEF w
<1>4. CASE e.insn_type = "J_TYPE"
  <2> DEFINE w == Patched(e, addr, insn)
  <2>1. w = emit_j_type_instruction(offset, j.rd, j.opcode)
    BY <1>4 DEF Patched, offset, j
  <2>2. w \in Word
    BY <2>1, EmittedAreWords
  <2> HIDE DEF w
  <2>3. Slice(w, 6, 0) = Low(j.opcode, 7)
    BY <1>1, <1>2, <2>1, JumpDecodes
  <2> QED
    BY <1>0, <1>2, <2>2, <2>3, OpcodeField DEF w
<1> QED
  BY <1>3, <1>4

(* One round of the loop: the entry it takes, and the one word it writes. *)
LEMMA PatchSteps ==
    ASSUME TypeOK, ResolveEntry
    PROVE  LET e == unresolved_instructions[entry]
               n == e.insn_number + 1
           IN  /\ pc = "resolve" /\ entry \in 1..Len(unresolved_instructions)
               /\ e \in Reference /\ Len(text') = Len(text)
               /\ \A m \in 1..Len(text) : m # n => text'[m] = text[m]
               /\ n \in 1..Len(text) =>
                     /\ text'[n] = Patched(e, label_to_addr'[e.hash], text[n])
                     /\ Low(text'[n], 7) = Low(text[n], 7)
<1> DEFINE e == unresolved_instructions[entry]
           n == e.insn_number + 1
           addr == IF e.hash \in DOMAIN label_to_addr THEN label_to_addr[e.hash] ELSE 0
<1>1. entry \in 1..Len(unresolved_instructions)
  BY LenProperties DEF ResolveEntry, TypeOK, OutputOK, RefsOK
<1>2. e \in Reference
  BY <1>1, ElementOfSeq DEF TypeOK, RefsOK
<1>3. e.insn_number \in Nat /\ e.insn_type \in {"B_TYPE", "J_TYPE"}
  BY <1>2 DEF Reference
<1>4. /\ label_to_addr' = Put(label_to_addr, e.hash, addr)
      /\ text' = update_entry(text, e.insn_number, Patched(e, addr, get_entry(text, e.insn_number)))
  BY DEF ResolveEntry, Resolve
<1>5. text \in Seq(Word) /\ Len(text) \in Nat /\ DOMAIN text = 1..Len(text)
  BY LenProperties DEF TypeOK, TablesOK
<1>6. text' \in Seq(Word)
  <2>1. TypeOK'
    BY ResolveTypeOK
  <2> QED
    BY <2>1 DEF TypeOK, TablesOK
<1>7. label_to_addr'[e.hash] = addr
  BY <1>4 DEF Put
<1> HIDE DEF e, addr
<1>8. CASE n \in 1..Len(text)
  <2> DEFINE w == Patched(e, addr, text[n])
  <2>1. text' = [text EXCEPT ![n] = w]
    BY <1>3, <1>4, <1>5, <1>8 DEF update_entry, get_entry
  <2>2. text[n] \in Word
    BY <1>5, <1>8, ElementOfSeq
  <2>3. Low(w, 7) = Low(text[n], 7)
    BY <1>3, <2>2, PatchKeepsOpcode
  <2> HIDE DEF w
  <2>4. /\ DOMAIN text' = DOMAIN text /\ text'[n] = w
        /\ \A m \in 1..Len(text) : m # n => text'[m] = text[m]
    BY <1>5, <1>8, <2>1
  <2>5. Len(text') = Len(text)
    BY <1>5, <1>6, <2>4, LenProperties
  <2>6. w = Patched(e, label_to_addr'[e.hash], text[n])
    BY <1>7 DEF w
  <2>7. pc = "resolve"
    BY DEF ResolveEntry
  <2> QED
    BY <1>1, <1>2, <2>3, <2>4, <2>5, <2>6, <2>7 DEF e
<1>9. CASE ~(n \in 1..Len(text))
  <2>1. text' = text
    BY <1>3, <1>4, <1>5, <1>9 DEF update_entry
  <2>2. pc = "resolve"
    BY DEF ResolveEntry
  <2> QED
    BY <1>1, <1>2, <1>9, <2>1, <2>2 DEF e
<1> QED
  BY <1>8, <1>9

-----------------------------------------------------------------------------
(* elf.cc line 212: whatever comes after a label is bound, the address it  *)
(* was given stays that of an instruction in .text, or 0.                  *)
THEOREM AddressesStayInText == Spec => []AddressesInText
<1>1. Init => AddressesInText
  <2>1. DOMAIN <<>> = {}
    OBVIOUS
  <2> QED
    BY <2>1 DEF Init, AddressesInText
<1>2. ASSUME TypeOK, AddressesInText, [Next]_vars PROVE AddressesInText'
  <2>1. text \in Seq(Word) /\ Len(text) \in Nat
        /\ \A l \in DOMAIN resolved_labels : resolved_labels[l] \in Nat
    BY <1>2, LenProperties DEF TypeOK, TablesOK, LabelsOK
  <2>2. CASE UNCHANGED <<resolved_labels, text>>
    BY <1>2, <2>2 DEF AddressesInText
  <2>3. ASSUME UNCHANGED resolved_labels, NEW w \in Word, text' = Append(text, w)
        PROVE  AddressesInText'
    <3>1. Len(text') = Len(text) + 1
      BY <2>1, <2>3, AppendProperties
    <3> QED
      BY <1>2, <2>1, <2>3, <3>1 DEF AddressesInText
  <2>4. ASSUME NEW m \in Names, BindLabel(m), UNCHANGED text PROVE AddressesInText'
    <3>1. /\ DOMAIN resolved_labels' = DOMAIN resolved_labels \cup {m}
          /\ resolved_labels'[m] = last_index(text)
          /\ \A l \in DOMAIN resolved_labels \ {m} : resolved_labels'[l] = resolved_labels[l]
      BY <2>4 DEF BindLabel, Put
    <3>2. last_index(text) < Len(text) \/ last_index(text) = 0
      BY <2>1 DEF last_index
    <3> QED
      BY <1>2, <2>4, <3>1, <3>2 DEF AddressesInText
  <2>5. ASSUME NEW i \in Insns, BranchUnresolved(i) \/ JumpUnresolved(i) PROVE AddressesInText'
    <3>1. BWord(i, Hash[i.sym]) \in Word
      BY EmittedAreWords DEF BWord
    <3>2. UNCHANGED resolved_labels
      BY <2>5 DEF BranchUnresolved, JumpUnresolved, Unresolved
    <3> QED
      BY <2>2, <2>3, <2>5, <3>1, <3>2 DEF BranchUnresolved, JumpUnresolved, add_to_text
  <2>6. CASE ResolveEntry
    <3>1. Len(text') = Len(text) /\ UNCHANGED resolved_labels
      BY <1>2, <2>6, PatchSteps, LookupKeepsAddresses
    <3> QED
      BY <1>2, <3>1 DEF AddressesInText
  <2> QED
    BY <1>2, <2>2, <2>3, <2>4, <2>5, <2>6, TextSteps
<1> QED
  BY <1>1, <1>2, TypeCorrect, PTL DEF Spec

(* elf.cc lines 336-374: an emitted word changes only in the second pass,  *)
(* only where the entry it has reached points, and keeps its opcode.       *)
THEOREM PatchesStayConfined == Spec => PatchesConfined
<1> DEFINE Confined(n) ==
             /\ n <= Len(text')
             /\ text'[n] # text[n] =>
                   /\ pc = "resolve" /\ n = unresolved_instructions[entry].insn_number + 1
                   /\ Low(text'[n], 7) = Low(text[n], 7)
<1>1. ASSUME TypeOK, [Next]_vars PROVE \A n \in 1..Len(text) : Confined(n)
  <2>1. text \in Seq(Word) /\ Len(text) \in Nat
    BY <1>1, LenProperties DEF TypeOK, TablesOK
  <2>2. CASE UNCHANGED text
    BY <2>1, <2>2
  <2>3. ASSUME NEW w \in Word, text' = Append(text, w) PROVE \A n \in 1..Len(text) : Confined(n)
    BY <2>1, <2>3, AppendProperties
  <2>4. ASSUME NEW i \in Insns, BranchUnresolved(i) \/ JumpUnresolved(i)
        PROVE  \A n \in 1..Len(text) : Confined(n)
    <3>1. BWord(i, Hash[i.sym]) \in Word
      BY EmittedAreWords DEF BWord
    <3> QED
      BY <2>2, <2>3, <2>4, <3>1 DEF BranchUnresolved, JumpUnresolved, add_to_text
  <2>5. CASE ResolveEntry
    <3>1. /\ pc = "resolve" /\ Len(text') = Len(text)
          /\ \A n \in 1..Len(text) :
                n # unresolved_instructions[entry].insn_number + 1 => text'[n] = text[n]
          /\ \A n \in 1..Len(text) :
                n = unresolved_instructions[entry].insn_number + 1 =>
                   Low(text'[n], 7) = Low(text[n], 7)
      BY <1>1, <2>5, PatchSteps
    <3> QED
      BY <2>1, <3>1
  <2> HIDE DEF Confined
  <2> QED
    BY <1>1, <2>2, <2>3, <2>4, <2>5, TextSteps
<1> QED
  BY <1>1, TypeCorrect, PTL DEF Spec, PatchesConfined

-----------------------------------------------------------------------------
(***************************************************************************)
(* Recorded references.                                                    *)
(***************************************************************************)

(* beq: its opcode and its minor opcode. *)
IsBeq(w) == Low(w, 7) = U32(BEQ_32) /\ Slice(w, 14, 12) = U32(0)

(* The opcode of a beq fits its seven bits. *)
LEMMA BeqFits == Low(U32(99), 7) = U32(99) /\ Low(U32(0), 3) = U32(0)
<1> DEFINE P(k) == k \notin U32(99) /\ k \notin U32(0)
<1>1. \A b \in 12..31 : P(b)
  BY SignBits
<1>2. P(7) /\ P(8) /\ P(9) /\ P(10) /\ P(11)
  BY DEF U32
<1>3. 3 \notin U32(0) /\ 4 \notin U32(0) /\ 5 \notin U32(0) /\ 6 \notin U32(0)
  BY DEF U32
<1>4. U32(99) \in Word /\ U32(0) \in Word
  BY U32Word
<1> HIDE DEF P
<1>5. \A b \in 7..31 : P(b)
  <2>1. \A b \in 7..31 : b \in 12..31 \/ b \in {7, 8, 9, 10, 11}
    OBVIOUS
  <2> QED
    BY <1>1, <1>2, <2>1
<1>6. \A b \in 3..31 : b \in 7..31 \/ b \in {3, 4, 5, 6}
  OBVIOUS
<1>7. U32(99) \subseteq 0..6 /\ U32(0) \subseteq 0..2
  BY <1>3, <1>4, <1>5, <1>6 DEF P, Word
<1> QED
  BY <1>7 DEF Low

(* Whatever its immediate, the word of a branch is a beq. *)
LEMMA BranchWordIsBeq ==
    ASSUME NEW i \in Insns, i.rule = "B", NEW o \in Word
    PROVE  BWord(i, o) \in Word /\ IsBeq(BWord(i, o))
<1> DEFINE w == BWord(i, o)
           c == opcode_branch[i.mn]
<1>1. i.mn = "BEQ"
  BY InsnsAssumption DEF opcode_branch
<1>2. c.op = U32(99) /\ c.funct3 = U32(0)
  BY <1>1 DEF opcode_branch, Opc, BEQ_32
<1>3. w = emit_b_type_instruction(o, U32(i.op1), U32(i.op2), c.funct3, c.op)
  BY DEF BWord
<1>4. w \in Word /\ U32(i.op1) \in Word /\ U32(i.op2) \in Word /\ U32(0) \in Word /\ U32(99) \in Word
  BY <1>3, EmittedAreWords, U32Word
<1> HIDE DEF w, c
<1>5. Slice(w, 6, 0) = Low(U32(99), 7) /\ Slice(w, 14, 12) = Low(U32(0), 3)
  BY <1>2, <1>3, <1>4, BranchDecodes
<1> QED
  BY <1>4, <1>5, OpcodeField, BeqFits DEF w, IsBeq, BEQ_32

(* What a branch or a jump to an unbound label records, and where.         *)
LEMMA RecordSteps ==
    ASSUME TypeOK, NEW i \in Insns, BranchUnresolved(i) \/ JumpUnresolved(i)
    PROVE  /\ pc \in {"label", "body"}
           /\ UNCHANGED <<resolved_labels, label_to_addr>>
           /\ i.sym \in Names /\ ~label_exists(i.sym)
           /\ \E e \in Reference :
                 /\ unresolved_instructions' = Append(unresolved_instructions, e)
                 /\ e.hash = Hash[i.sym]
                 /\ e.insn_number \in {0, Len(text)} /\ e.pc_insn_number = e.insn_number - 1
                 /\ \/ e.insn_type = "J_TYPE" /\ text' = text
                    \/ /\ e.insn_type = "B_TYPE"
                       /\ \E w \in Word : IsBeq(w) /\ text' = Append(text, w)
<1> DEFINE n == get_next_insn_number(currentSection)
           e(t) == [insn_number |-> n, pc_insn_number |-> n - 1, insn_type |-> t,
                    hash |-> Hash[i.sym]]
<1>1. i.sym \in Names /\ ~label_exists(i.sym) /\ pc \in {"label", "body"}
  BY InsnsAssumption DEF BranchUnresolved, JumpUnresolved, Instruction, Consume
<1>2. n \in Nat /\ n \in {0, Len(text)}
  BY LenProperties DEF get_next_insn_number, next_index, TypeOK, TablesOK
<1> HIDE DEF n
<1>3. \A t \in {"B_TYPE", "J_TYPE"} :
         /\ e(t) \in Reference /\ e(t).hash = Hash[i.sym] /\ e(t).insn_type = t
         /\ e(t).insn_number = n /\ e(t).pc_insn_number = n - 1
  BY <1>1, <1>2, HashAssumption DEF Reference
<1>4. ASSUME NEW t \in {"B_TYPE", "J_TYPE"}, Unresolved(t, i.sym)
      PROVE  /\ unresolved_instructions' = Append(unresolved_instructions, e(t))
             /\ UNCHANGED <<resolved_labels, label_to_addr>>
  BY <1>4 DEF Unresolved, n
<1> HIDE DEF e
<1>5. CASE BranchUnresolved(i)
  <2> DEFINE w == BWord(i, Hash[i.sym])
  <2>1. Unresolved("B_TYPE", i.sym) /\ text' = Append(text, w)
    BY <1>5 DEF BranchUnresolved, add_to_text
  <2>2. w \in Word /\ IsBeq(w)
    BY <1>1, <1>5, BranchWordIsBeq, HashAssumption DEF BranchUnresolved, Instruction
  <2> HIDE DEF w
  <2> QED
    BY <1>1, <1>2, <1>3, <1>4, <2>1, <2>2
<1>6. CASE JumpUnresolved(i)
  <2>1. Unresolved("J_TYPE", i.sym) /\ text' = text
    BY <1>6 DEF JumpUnresolved
  <2> QED
    BY <1>1, <1>2, <1>3, <1>4, <2>1
<1> QED
  BY <1>5, <1>6

(* elf.cc lines 292-305, get_next_insn_number and riscvass.y lines         *)
(* 244-265: a recorded branch is found where the reference says, and is    *)
(* still a beq when the object is written, whatever else is patched.       *)
THEOREM BranchesStayPlaced == Spec => []BranchesWellPlaced
<1> DEFINE u == unresolved_instructions
           Placed(k) == /\ u[k].insn_number <= Len(text)
                        /\ u[k].insn_type = "B_TYPE" => u[k].insn_number < Len(text)
                        /\ u[k].insn_type = "B_TYPE" /\ u[k].insn_number > 0 =>
                              Low(text[u[k].insn_number + 1], 7) = U32(BEQ_32)
<1>1. Init => BranchesWellPlaced
  <2>1. 1..Len(<<>>) = {}
    OBVIOUS
  <2> QED
    BY <2>1 DEF Init, BranchesWellPlaced
<1>2. ASSUME TypeOK, BranchesWellPlaced, [Next]_vars PROVE BranchesWellPlaced'
  <2>1. /\ text \in Seq(Word) /\ Len(text) \in Nat /\ u \in Seq(Reference) /\ Len(u) \in Nat
        /\ \A k \in 1..Len(u) : u[k] \in Reference /\ u[k].insn_number \in Nat
    <3>1. text \in Seq(Word) /\ u \in Seq(Reference)
      BY <1>2 DEF TypeOK, TablesOK, RefsOK
    <3>2. \A e \in Reference : e.insn_number \in Nat
      BY DEF Reference
    <3> QED
      BY <3>1, <3>2, LenProperties, ElementOfSeq
  <2>2. \A k \in 1..Len(u) : Placed(k)
    BY <1>2 DEF BranchesWellPlaced
  <2>3. (\A k \in 1..Len(u) : Placed(k))' => BranchesWellPlaced'
    BY DEF BranchesWellPlaced
  <2>4. CASE UNCHANGED <<u, text>>
    BY <2>2, <2>3, <2>4
  <2>5. ASSUME NEW w \in Word, text' = Append(text, w), NEW k \in 1..Len(u), u'[k] = u[k]
        PROVE  Placed(k)'
    <3>1. Len(text') = Len(text) + 1 /\ \A n \in 1..Len(text) : text'[n] = text[n]
      BY <2>1, <2>5, AppendProperties
    <3> QED
      BY <2>1, <2>2, <2>5, <3>1
  <2>6. ASSUME NEW i \in Insns, BranchUnresolved(i) \/ JumpUnresolved(i) PROVE BranchesWellPlaced'
    <3>1. PICK e \in Reference :
            /\ u' = Append(u, e) /\ e.insn_number \in {0, Len(text)}
            /\ \/ e.insn_type = "J_TYPE" /\ text' = text
               \/ /\ e.insn_type = "B_TYPE"
                  /\ \E w \in Word : IsBeq(w) /\ text' = Append(text, w)
      BY <1>2, <2>6, RecordSteps
    <3>2. /\ Len(u') = Len(u) + 1 /\ u'[Len(u) + 1] = e
          /\ \A k \in 1..Len(u) : u'[k] = u[k]
      BY <2>1, <3>1, AppendProperties
    <3>3. \A k \in 1..Len(u) : Placed(k)'
      <4>1. CASE text' = text
        BY <2>2, <3>2, <4>1
      <4> QED
        BY <2>5, <3>1, <3>2, <4>1
    <3>4. ASSUME NEW k, k = Len(u) + 1 PROVE Placed(k)'
      <4>0. u'[k] = e
        BY <3>2, <3>4
      <4>1. CASE e.insn_type = "J_TYPE" /\ text' = text
        BY <2>1, <3>1, <4>0, <4>1
      <4>2. ASSUME e.insn_type = "B_TYPE", NEW w \in Word, IsBeq(w), text' = Append(text, w)
            PROVE  Placed(k)'
        <5>1. Len(text') = Len(text) + 1 /\ text'[Len(text) + 1] = w
          BY <2>1, <4>2, AppendProperties
        <5> QED
          BY <2>1, <3>1, <4>0, <4>2, <5>1 DEF IsBeq
      <4> QED
        BY <3>1, <4>1, <4>2
    <3>5. \A k \in 1..Len(u') : k \in 1..Len(u) \/ k = Len(u) + 1
      BY <2>1, <3>2
    <3> HIDE DEF Placed
    <3> QED
      BY <2>3, <3>3, <3>4, <3>5
  <2>7. CASE ResolveEntry
    <3>1. UNCHANGED u
      BY <1>2, <2>7, LookupKeepsAddresses
    <3>2. /\ Len(text') = Len(text)
          /\ \A n \in 1..Len(text) : Low(text'[n], 7) = Low(text[n], 7)
      BY <1>2, <2>7, PatchSteps
    <3>3. ASSUME NEW k \in 1..Len(u) PROVE Placed(k)'
      <4>1. u'[k] = u[k] /\ u[k].insn_number \in Nat /\ Placed(k)
        BY <2>1, <2>2, <3>1
      <4> QED
        BY <2>1, <3>2, <4>1
    <3> HIDE DEF Placed
    <3> QED
      BY <2>3, <3>1, <3>3
  <2> HIDE DEF Placed
  <2>8. CASE UNCHANGED u /\ \E w \in Word : text' = Append(text, w)
    BY <2>3, <2>5, <2>8
  <2> QED
    BY <1>2, <2>4, <2>6, <2>7, <2>8, TextSteps
<1> QED
  BY <1>1, <1>2, TypeCorrect, PTL DEF Spec

-----------------------------------------------------------------------------
(***************************************************************************)
(* What a patched branch says.                                             *)
(***************************************************************************)

(* What a B-immediate keeps of the offset from a reference to addr. *)
Displacement(e, addr) == SignExtend(Low(U32(2 * (addr - e.insn_number + 1)), 13), 13)

(* The lowest bit of an offset, which B-immediates leave out, is 0. *)
LEMMA EvenOffset ==
    ASSUME NEW n \in Int
    PROVE  Even(Low(U32(2 * n), 13)) = Low(U32(2 * n), 13)
<1>1. 0 \notin U32(2 * n)
  BY DEF U32
<1> QED
  BY <1>1 DEF Even, Low

(* The field deserialize cuts out is the one a processor reads. *)
LEMMA Funct3Field ==
    ASSUME NEW w \in Word
    PROVE  Low(Shr(w, 12), 3) = Slice(w, 14, 12)
<1>1. w \in SUBSET Int
  BY DEF Word
<1>2. Shr(w, 12) \in SUBSET Int
  BY <1>1, ShrBits
<1>3. \A b : b \in Low(Shr(w, 12), 3) <=> b \in 0..2 /\ b + 12 \in w
  <2>1. \A b : b \in Low(Shr(w, 12), 3) <=> b \in Shr(w, 12) /\ b \in 0..2
    BY <1>2, LowBits
  <2>2. \A b : b \in Shr(w, 12) <=> b \in 0..31 /\ b + 12 \in w
    BY <1>1, ShrBits
  <2> QED
    BY <2>1, <2>2
<1>4. \A b : b \in Slice(w, 14, 12) <=> b \in 0..2 /\ b + 12 \in w
  BY <1>1, SliceBits
<1> QED
  BY <1>3, <1>4

(* A beq, patched, is a beq with the displacement of its label. *)
LEMMA BranchPatch ==
    ASSUME NEW e, e.insn_type = "B_TYPE", e.insn_number \in Nat,
           e.pc_insn_number = e.insn_number - 1,
           NEW addr \in Nat, NEW insn \in Word, IsBeq(insn)
    PROVE  /\ IsBeq(Patched(e, addr, insn))
           /\ ImmB(Patched(e, addr, insn)) = Displacement(e, addr)
<1> DEFINE offset == effective_offset(e, addr)
           b == btype32_deserialize(insn)
           w == Patched(e, addr, insn)
           d == addr - e.insn_number + 1
<1>1. offset = U32(2 * d) /\ d \in Int /\ offset \in Word
  <2>1. ((addr - e.pc_insn_number) * SizeofInsn) \div 2 = 2 * d
    BY DEF SizeofInsn
  <2> QED
    BY <2>1, U32Word DEF effective_offset
<1>2. b.opcode = U32(99) /\ b.funct3 = U32(0)
  BY Funct3Field DEF IsBeq, btype32_deserialize, BEQ_32
<1>3. b.rs1 \in Word /\ b.rs2 \in Word /\ U32(99) \in Word /\ U32(0) \in Word
  BY FieldsAreWords, U32Word DEF btype32_deserialize
<1>4. w = emit_b_type_instruction(offset, b.rs1, b.rs2, b.funct3, b.opcode)
  BY DEF Patched
<1>5. w \in Word
  BY <1>4, EmittedAreWords
<1> HIDE DEF b, w, offset, d
<1>6. /\ Slice(w, 6, 0) = Low(U32(99), 7) /\ Slice(w, 14, 12) = Low(U32(0), 3)
      /\ ImmB(w) = SignExtend(Even(Low(offset, 13)), 13)
  BY <1>1, <1>2, <1>3, <1>4, BranchDecodes
<1>7. IsBeq(w)
  BY <1>5, <1>6, OpcodeField, BeqFits DEF IsBeq, BEQ_32
<1>8. ImmB(w) = SignExtend(Low(U32(2 * d), 13), 13)
  BY <1>1, <1>6, EvenOffset
<1> QED
  BY <1>7, <1>8 DEF w, d, Displacement

(* The branch of entry k, which no other entry points at, is a beq; once   *)
(* the second pass is past it, it has its displacement.                    *)
Sole(k) ==
    \A j \in 1..Len(unresolved_instructions) \ {k} :
        unresolved_instructions[j].insn_number # unresolved_instructions[k].insn_number
PatchedUpTo(k) ==
    LET e == unresolved_instructions[k]
        w == text[e.insn_number + 1]
    IN  /\ e.pc_insn_number = e.insn_number - 1
        /\ e.insn_type = "B_TYPE" /\ e.insn_number > 0 /\ Sole(k) =>
              /\ IsBeq(w)
              /\ k < entry => ImmB(w) = Displacement(e, label_to_addr[e.hash])
PassPatches == \A k \in 1..Len(unresolved_instructions) : PatchedUpTo(k)

(* Words stay where they are until the second pass comes to them. *)
LEMMA PassPatchesStays == Spec => []PassPatches
<1> DEFINE u == unresolved_instructions
<1>1. Init => PassPatches
  <2>1. 1..Len(<<>>) = {}
    OBVIOUS
  <2> QED
    BY <2>1 DEF Init, PassPatches
<1>2. ASSUME TypeOK, BranchesWellPlaced, SecondPass, PassPatches, [Next]_vars
      PROVE  PassPatches'
  <2>1. /\ text \in Seq(Word) /\ Len(text) \in Nat /\ u \in Seq(Reference) /\ Len(u) \in Nat
        /\ entry \in Nat \ {0}
        /\ \A k \in 1..Len(u) : u[k] \in Reference /\ u[k].insn_number \in Nat
    <3>1. text \in Seq(Word) /\ u \in Seq(Reference) /\ entry \in Nat \ {0}
      BY <1>2 DEF TypeOK, TablesOK, RefsOK, OutputOK
    <3>2. \A e \in Reference : e.insn_number \in Nat
      BY DEF Reference
    <3> QED
      BY <3>1, <3>2, LenProperties, ElementOfSeq
  <2>2. \A k \in 1..Len(u) : PatchedUpTo(k)
    BY <1>2 DEF PassPatches
  <2>3. \A k \in 1..Len(u) : u[k].insn_type = "B_TYPE" => u[k].insn_number + 1 \in 1..Len(text)
    BY <1>2, <2>1 DEF BranchesWellPlaced
  (* An entry already there: it is as sole as it was, and its word the same. *)
  <2>4. ASSUME NEW k \in 1..Len(u), Len(u) <= Len(u'), Len(u') \in Nat,
               \A j \in 1..Len(u) : u'[j] = u[j],
               entry' = entry, entry = 1 \/ UNCHANGED label_to_addr,
               \A n \in 1..Len(text) : text'[n] = text[n]
        PROVE  PatchedUpTo(k)'
    <3>1. Sole(k)' => Sole(k)
      BY <2>1, <2>4 DEF Sole
    <3> QED
      BY <2>1, <2>2, <2>3, <2>4, <3>1 DEF PatchedUpTo
  <2>5. CASE UNCHANGED <<u, text, entry, label_to_addr>>
    BY <2>1, <2>4, <2>5 DEF PassPatches
  <2>6. CASE ResolveEntry
    <3> DEFINE e == u[entry]
    <3>1. /\ entry \in 1..Len(u) /\ entry' = entry + 1 /\ UNCHANGED u
          /\ \A h \in DOMAIN label_to_addr :
                h \in DOMAIN label_to_addr' /\ label_to_addr'[h] = label_to_addr[h]
      BY <1>2, <2>1, <2>6, LookupKeepsAddresses DEF ResolveEntry
    <3>2. ASSUME NEW k \in 1..Len(u) PROVE PatchedUpTo(k)'
      <4>1. Sole(k)' => Sole(k)
        BY <3>1 DEF Sole
      <4>2. CASE k # entry
        <5>1. Sole(k) => u[k].insn_number # e.insn_number
          BY <3>1, <4>2 DEF Sole
        <5>2. \A n \in 1..Len(text) : n # e.insn_number + 1 => text'[n] = text[n]
          BY <1>2, <2>6, PatchSteps
        <5>3. u[k].insn_type = "B_TYPE" /\ Sole(k) =>
                 text'[u[k].insn_number + 1] = text[u[k].insn_number + 1]
          <6>1. u[k].insn_number \in Nat /\ e.insn_number \in Nat
            BY <2>1, <3>1
          <6>2. u[k].insn_type = "B_TYPE" => u[k].insn_number + 1 \in 1..Len(text)
            BY <2>3
          <6> HIDE DEF e, u
          <6> QED
            BY <5>1, <5>2, <6>1, <6>2
        <5>4. k < entry' => /\ k < entry
                            /\ label_to_addr'[u[k].hash] = label_to_addr[u[k].hash]
          <6>1. k < entry' => k \in 1..(entry - 1)
            BY <2>1, <3>1, <4>2
          <6>2. k < entry' => u[k].hash \in DOMAIN label_to_addr
            BY <1>2, <6>1 DEF SecondPass
          <6> QED
            BY <2>1, <3>1, <6>1, <6>2
        <5> HIDE DEF e
        <5> QED
          BY <2>2, <3>1, <3>2, <4>1, <5>3, <5>4 DEF PatchedUpTo
      <4>3. CASE k = entry
        <5> DEFINE n == e.insn_number + 1
                   addr == label_to_addr'[e.hash]
        <5>1. e.pc_insn_number = e.insn_number - 1
          BY <2>2, <3>1 DEF PatchedUpTo
        <5>2. SUFFICES ASSUME e.insn_type = "B_TYPE", e.insn_number > 0, Sole(k)'
                       PROVE  IsBeq(text'[n]) /\ ImmB(text'[n]) = Displacement(e, addr)
          BY <3>1, <4>3, <5>1 DEF PatchedUpTo
        <5>3. n \in 1..Len(text) /\ IsBeq(text[n])
          BY <2>2, <2>3, <3>1, <4>1, <4>3, <5>2 DEF PatchedUpTo
        <5>4. text'[n] = Patched(e, addr, text[n])
          BY <1>2, <2>6, <5>3, PatchSteps
        <5>5. addr \in Nat
          <6>1. TypeOK'
            BY <1>2, NextTypeOK
          <6>2. e.hash \in DOMAIN label_to_addr'
            BY <2>6 DEF ResolveEntry, Resolve, Put
          <6> QED
            BY <6>1, <6>2 DEF TypeOK, LabelsOK
        <5>6. text[n] \in Word /\ e.insn_number \in Nat
          BY <2>1, <3>1, <5>3, ElementOfSeq
        <5> HIDE DEF e, n, addr
        <5>7. /\ IsBeq(Patched(e, addr, text[n]))
              /\ ImmB(Patched(e, addr, text[n])) = Displacement(e, addr)
          BY <5>1, <5>2, <5>3, <5>5, <5>6, BranchPatch
        <5> QED
          BY <5>4, <5>7
      <4> QED
        BY <4>2, <4>3
    <3> QED
      BY <3>1, <3>2 DEF PassPatches
  <2>7. CASE pc \in Parsing /\ UNCHANGED <<entry, file>>
    <3>1. entry = 1 /\ entry' = 1 /\ ~ResolveEntry
      BY <1>2, <2>1, <2>7 DEF SecondPass, Parsing, Final, ResolveEntry
    <3>2. CASE UNCHANGED <<u, text>>
      BY <2>1, <2>4, <3>1, <3>2 DEF PassPatches
    <3>3. ASSUME UNCHANGED u, NEW w \in Word, text' = Append(text, w) PROVE PassPatches'
      <4>1. \A n \in 1..Len(text) : text'[n] = text[n]
        BY <2>1, <3>3, AppendProperties
      <4> QED
        BY <2>1, <2>4, <3>1, <3>3, <4>1 DEF PassPatches
    <3>4. ASSUME NEW i \in Insns, BranchUnresolved(i) \/ JumpUnresolved(i) PROVE PassPatches'
      <4>1. PICK e \in Reference :
              /\ u' = Append(u, e) /\ e.insn_number \in {0, Len(text)}
              /\ e.pc_insn_number = e.insn_number - 1
              /\ \/ e.insn_type = "J_TYPE" /\ text' = text
                 \/ /\ e.insn_type = "B_TYPE"
                    /\ \E w \in Word : IsBeq(w) /\ text' = Append(text, w)
        BY <1>2, <3>4, RecordSteps
      <4>2. /\ Len(u') = Len(u) + 1 /\ u'[Len(u) + 1] = e
            /\ \A k \in 1..Len(u) : u'[k] = u[k]
        BY <2>1, <4>1, AppendProperties
      <4>3. \A n \in 1..Len(text) : text'[n] = text[n]
        BY <2>1, <4>1, AppendProperties
      <4>4. \A k \in 1..Len(u) : PatchedUpTo(k)'
        BY <2>1, <2>4, <3>1, <4>2, <4>3
      <4>5. ASSUME NEW k, k = Len(u) + 1 PROVE PatchedUpTo(k)'
        <5>1. u'[k] = e /\ ~(k < entry')
          BY <2>1, <3>1, <4>2, <4>5
        <5>2. e.insn_type = "B_TYPE" /\ e.insn_number > 0 => IsBeq(text'[e.insn_number + 1])
          <6>1. ASSUME e.insn_type = "B_TYPE", NEW w \in Word, text' = Append(text, w)
                PROVE  text'[Len(text) + 1] = w
            BY <2>1, <6>1, AppendProperties
          <6> QED
            BY <2>1, <4>1, <6>1
        <5> QED
          BY <4>1, <5>1, <5>2 DEF PatchedUpTo
      <4>6. \A k \in 1..Len(u') : k \in 1..Len(u) \/ k = Len(u) + 1
        BY <2>1, <4>2
      <4> QED
        BY <4>4, <4>5, <4>6 DEF PassPatches
    <3> QED
      BY <1>2, <3>1, <3>2, <3>3, <3>4, TextSteps
  <2>8. WriteElf \/ UNCHANGED vars => UNCHANGED <<u, text, entry, label_to_addr>>
    BY DEF WriteElf, vars, labels, refs, output
  <2> QED
    BY <1>2, <2>5, <2>6, <2>7, <2>8, PassSteps
<1> QED
  BY <1>1, <1>2, TypeCorrect, BranchesStayPlaced, PassInOrder, PTL DEF Spec

(* elf.cc lines 316-374: in the object that is written, a branch recorded  *)
(* once goes by twice its distance to its label, cut to 13 bits, whatever  *)
(* other labels, branches and jumps the source has.                        *)
THEOREM BranchesArePatched == Spec => []BranchesPatched
<1> DEFINE u == unresolved_instructions
<1>1. ASSUME TypeOK, AddressByHash, BranchesWellPlaced, SecondPass, PassPatches
      PROVE  BranchesPatched
  <2> SUFFICES ASSUME file = "complete", NEW k \in 1..Len(u), NEW l \in Names,
                      u[k].insn_type = "B_TYPE", u[k].insn_number > 0,
                      Hash[l] = u[k].hash, NonColliding(l), Sole(k)
               PROVE  LET addr == IF label_exists(l) THEN resolved_labels[l] ELSE 0
                          offset == 2 * (addr - u[k].insn_number + 1)
                          w == text[u[k].insn_number + 1]
                      IN  /\ IsMnemonic(w, "BEQ")
                          /\ ImmB(w) = SignExtend(Low(U32(offset), 13), 13)
                          /\ -4096 <= offset /\ offset < 4096 => ImmB(w) = U32(offset)
    BY DEF BranchesPatched, Sole
  <2> DEFINE e == u[k]
             w == text[e.insn_number + 1]
             addr == IF label_exists(l) THEN resolved_labels[l] ELSE 0
             offset == 2 * (addr - e.insn_number + 1)
  <2>1. e \in Reference /\ e.insn_number \in Nat /\ k < entry
        /\ text \in Seq(Word) /\ Len(text) \in Nat /\ entry \in Nat
    <3>1. e \in Reference /\ text \in Seq(Word) /\ u \in Seq(Reference) /\ entry \in Nat
      BY <1>1, ElementOfSeq DEF TypeOK, RefsOK, TablesOK, OutputOK
    <3>2. e.insn_number \in Nat
      BY <3>1 DEF Reference
    <3>3. Len(u) \in Nat /\ Len(text) \in Nat /\ entry > Len(u)
      BY <1>1, <3>1, LenProperties DEF SecondPass
    <3> QED
      BY <3>1, <3>2, <3>3
  <2>2. IsBeq(w) /\ ImmB(w) = Displacement(e, label_to_addr[e.hash])
    BY <1>1, <2>1 DEF PassPatches, PatchedUpTo
  <2>3. w \in Word
    BY <1>1, <2>1, ElementOfSeq DEF BranchesWellPlaced
  <2>4. label_to_addr[e.hash] = addr
    <3>1. e.hash \in DOMAIN label_to_addr
      BY <1>1, <2>1 DEF SecondPass
    <3>2. ASSUME NEW m \in DOMAIN resolved_labels, Hash[m] = e.hash PROVE m = l
      BY <1>1, <3>2 DEF NonColliding, TypeOK, LabelsOK
    <3>3. CASE label_exists(l)
      BY <1>1, <3>2, <3>3 DEF AddressByHash, label_exists
    <3>4. CASE ~label_exists(l)
      BY <1>1, <3>1, <3>2, <3>4 DEF SecondPass, label_exists
    <3> QED
      BY <3>3, <3>4
  <2>5. addr \in Nat
    BY <1>1 DEF label_exists, TypeOK, LabelsOK
  <2> HIDE DEF e, w, addr
  <2>6. Slice(w, 6, 0) = U32(99) /\ Slice(w, 14, 12) = U32(0)
    BY <2>2, <2>3, OpcodeField DEF IsBeq, BEQ_32
  <2>7. Mnemonics["BEQ"].opcode = U32(99) /\ Mnemonics["BEQ"].funct3 = U32(0)
    BY DEF Mnemonics, Code
  <2>8. IsMnemonic(w, "BEQ")
    BY <2>6, <2>7 DEF IsMnemonic, Fields
  <2>9. ImmB(w) = SignExtend(Low(U32(offset), 13), 13)
    BY <2>2, <2>4 DEF Displacement
  <2>10. -4096 <= offset /\ offset < 4096 => ImmB(w) = U32(offset)
    <3>1. offset \in Int
      BY <2>1, <2>5
    <3> HIDE DEF offset
    <3> QED
      BY <2>9, <3>1, SignExtended
  <2> QED
    BY <2>8, <2>9, <2>10 DEF e, w, addr
<1> QED
  BY <1>1, TypeCorrect, AddressByHashHolds, BranchesStayPlaced, PassInOrder, PassPatchesStays, PTL
=============================================================================
