----------------------------- MODULE LabelProofs ----------------------------
(***************************************************************************)
(* Labels and references, for every hash function: collisions included.    *)
(***************************************************************************)
EXTENDS AssemblerProofs

(* Every way the label maps and the recorded references change: a new      *)
(* label is bound, a reference to an unbound one is recorded, or the       *)
(* second pass looks one up.                                               *)
LEMMA LabelSteps ==
    ASSUME TypeOK, [Next]_vars
    PROVE  \/ UNCHANGED <<labels, unresolved_instructions>>
           \/ \E l \in Names : /\ ~label_exists(l) /\ BindLabel(l)
                               /\ UNCHANGED unresolved_instructions
           \/ \E l \in Names, t \in {"B_TYPE", "J_TYPE"} : ~label_exists(l) /\ Unresolved(t, l)
           \/ ResolveEntry
<1> DEFINE Quiet == UNCHANGED <<labels, unresolved_instructions>>
<1>1. ASSUME NEW l \in Names, NEW g, NEW s, init_label(l, g, s), UNCHANGED refs
      PROVE  Quiet \/ (~label_exists(l) /\ BindLabel(l) /\ UNCHANGED unresolved_instructions)
  <2>1. CASE label_exists(l)
    BY <1>1, <2>1 DEF init_label, labels, refs
  <2>2. CASE ~label_exists(l)
    BY <1>1, <2>2 DEF init_label, NewLabel, refs
  <2> QED
    BY <2>1, <2>2
<1>2. ASSUME NEW i \in Insns, InstructionStep(i)
      PROVE  Quiet \/ \E l \in Names, t \in {"B_TYPE", "J_TYPE"} : ~label_exists(l) /\ Unresolved(t, l)
  <2>1. ASSUME i.rule \in {"B", "J"} PROVE i.sym \in Names
    BY <2>1, InsnsAssumption
  <2>2. CASE BranchUnresolved(i)
    BY <2>1, <2>2 DEF BranchUnresolved, Instruction
  <2>3. CASE JumpUnresolved(i)
    BY <2>1, <2>3 DEF JumpUnresolved, Instruction
  <2>4. CASE ImmediateOutOfRange(i) \/ JumpOutOfRange(i) \/ HiModifier(i) \/ LoadAddress(i)
    BY <2>4 DEF ImmediateOutOfRange, JumpOutOfRange, HiModifier, LoadAddress, Exit, NoEmit, labels, refs
  <2>5. CASE DeclareSymbol(i)
    BY <2>5 DEF DeclareSymbol, labels
  <2>6. CASE \/ Arithmetic(i) \/ Immediate(i) \/ UseSymbol(i) \/ LoadStore(i) \/ System(i)
             \/ Mv(i) \/ Ret(i) \/ BranchResolved(i) \/ JumpResolved(i)
    <3>1. \E w : Emit(w)
      BY <2>6 DEF Arithmetic, Immediate, UseSymbol, LoadStore, System, Mv, Ret,
                  BranchResolved, JumpResolved
    <3> QED
      BY <3>1 DEF Emit, labels, refs
  <2> QED
    BY <1>2, <2>2, <2>3, <2>4, <2>5, <2>6 DEF InstructionStep
<1>3. ASSUME NEW l \in Names, Globl(l)
      PROVE  Quiet \/ (~label_exists(l) /\ BindLabel(l) /\ UNCHANGED unresolved_instructions)
  <2>1. CASE label_exists(l)
    BY <1>3, <2>1 DEF Globl, update_label_visibility, labels, refs
  <2>2. CASE ~label_exists(l)
    BY <1>1, <1>3, <2>2 DEF Globl, update_label_visibility
  <2> QED
    BY <2>1, <2>2
<1>4. ASSUME EndBlock
      PROVE  Quiet \/ \E l \in Names : /\ ~label_exists(l) /\ BindLabel(l)
                                       /\ UNCHANGED unresolved_instructions
  <2>1. stmtLabel \in Names
    BY <1>4 DEF EndBlock, TypeOK, ParserOK
  <2> QED
    BY <1>1, <1>4, <2>1 DEF EndBlock
<1>5. ASSUME NEW l \in Names, Label(l) PROVE Quiet
  BY <1>5 DEF Label, labels, refs
<1>6. ASSUME \E s \in {".text", ".data"} : SectionDirective(s) PROVE Quiet
  BY <1>6 DEF SectionDirective, labels, refs
<1>7. ASSUME \E v \in Values : Ascii(v) PROVE Quiet
  BY <1>7 DEF Ascii, labels, refs
<1>8. ASSUME TextDirective \/ LabelledDirective \/ SyntaxError \/ EndOfFile \/ WriteElf PROVE Quiet
  BY <1>8 DEF TextDirective, LabelledDirective, SyntaxError, EndOfFile, WriteElf, labels, refs
<1>9. ASSUME UNCHANGED vars PROVE Quiet
  BY <1>9 DEF vars, labels, refs
<1> QED
  BY <1>2, <1>3, <1>4, <1>5, <1>6, <1>7, <1>8, <1>9 DEF Next, ParseStep, Terminated

(* The second pass adds no label and moves none, whatever it looks up.     *)
LEMMA LookupKeepsAddresses ==
    ASSUME TypeOK, ResolveEntry
    PROVE  /\ UNCHANGED <<resolved_labels, unresolved_labels, unresolved_instructions>>
           /\ \A h \in DOMAIN label_to_addr :
                 h \in DOMAIN label_to_addr' /\ label_to_addr'[h] = label_to_addr[h]
<1>1. Resolve(unresolved_instructions[entry])
  BY DEF ResolveEntry
<1> DEFINE e == unresolved_instructions[entry]
           addr == IF e.hash \in DOMAIN label_to_addr THEN label_to_addr[e.hash] ELSE 0
<1>2. label_to_addr' = Put(label_to_addr, e.hash, addr)
  BY <1>1 DEF Resolve
<1>3. UNCHANGED <<resolved_labels, unresolved_labels, unresolved_instructions>>
  BY DEF ResolveEntry, refs
<1> QED
  BY <1>2, <1>3 DEF Put

-----------------------------------------------------------------------------
(* elf.cc lines 198, 232: no step gives a bound label another address.     *)
THEOREM BindingsNeverChange == Spec => BindingsStable
<1>1. ASSUME TypeOK, [Next]_vars
      PROVE  \A l \in DOMAIN resolved_labels :
                l \in DOMAIN resolved_labels' /\ resolved_labels'[l] = resolved_labels[l]
  <2>1. CASE UNCHANGED labels
    BY <2>1 DEF labels
  <2>2. ASSUME NEW m \in Names, ~label_exists(m), BindLabel(m)
        PROVE  \A l \in DOMAIN resolved_labels :
                  l \in DOMAIN resolved_labels' /\ resolved_labels'[l] = resolved_labels[l]
    BY <2>2 DEF BindLabel, Put, label_exists
  <2>3. CASE UNCHANGED resolved_labels
    BY <2>3
  <2> QED
    BY <1>1, <2>1, <2>2, <2>3, LabelSteps DEF Unresolved, ResolveEntry
<1> QED
  BY <1>1, TypeCorrect, PTL DEF Spec, BindingsStable

(* elf.h lines 174-180: the two maps of label addresses agree up to        *)
(* collisions, and a hash never leads to the address of a label with       *)
(* another one.                                                            *)
THEOREM AddressByHashHolds == Spec => []AddressByHash
<1>1. Init => AddressByHash
  <2>1. DOMAIN <<>> = {}
    OBVIOUS
  <2>2. Init => DOMAIN resolved_labels = {}
    BY <2>1 DEF Init
  <2> QED
    BY <2>2 DEF AddressByHash
<1>2. ASSUME TypeOK, AddressByHash, [Next]_vars PROVE AddressByHash'
  <2>1. CASE UNCHANGED labels
    BY <1>2, <2>1 DEF AddressByHash, labels
  <2>2. ASSUME NEW m \in Names, ~label_exists(m), BindLabel(m) PROVE AddressByHash'
    <3>1. /\ DOMAIN resolved_labels' = DOMAIN resolved_labels \cup {m}
          /\ DOMAIN label_to_addr' = DOMAIN label_to_addr \cup {Hash[m]}
          /\ resolved_labels'[m] = last_index(text)
          /\ label_to_addr'[Hash[m]] = last_index(text)
          /\ \A l \in DOMAIN resolved_labels : resolved_labels'[l] = resolved_labels[l]
          /\ \A h \in DOMAIN label_to_addr \ {Hash[m]} : label_to_addr'[h] = label_to_addr[h]
      BY <2>2 DEF BindLabel, Put, label_exists
    <3> SUFFICES ASSUME NEW l \in DOMAIN resolved_labels'
                 PROVE  /\ Hash[l] \in DOMAIN label_to_addr'
                        /\ \E k \in DOMAIN resolved_labels' :
                              /\ Hash[k] = Hash[l]
                              /\ label_to_addr'[Hash[l]] = resolved_labels'[k]
      BY DEF AddressByHash
    <3>2. CASE Hash[l] = Hash[m]
      BY <3>1, <3>2
    <3>3. CASE Hash[l] # Hash[m]
      <4>1. l \in DOMAIN resolved_labels
        BY <3>1, <3>3
      <4>2. PICK k \in DOMAIN resolved_labels :
                Hash[k] = Hash[l] /\ label_to_addr[Hash[l]] = resolved_labels[k]
        BY <1>2, <4>1 DEF AddressByHash
      <4>3. Hash[l] \in DOMAIN label_to_addr
        BY <1>2, <4>1 DEF AddressByHash
      <4> QED
        BY <3>1, <3>3, <4>2, <4>3
    <3> QED
      BY <3>2, <3>3
  <2>3. CASE UNCHANGED <<resolved_labels, label_to_addr>>
    BY <1>2, <2>3 DEF AddressByHash
  <2>4. CASE ResolveEntry
    BY <1>2, <2>4, LookupKeepsAddresses DEF AddressByHash
  <2> QED
    BY <1>2, <2>1, <2>2, <2>3, <2>4, LabelSteps DEF Unresolved
<1> QED
  BY <1>1, <1>2, TypeCorrect, PTL DEF Spec

(* elf.cc lines 212, 297: a label is pending or bound, never both, and     *)
(* every reference left for the second pass is to one that is either.      *)
THEOREM ReferencesStayTracked == Spec => []ReferencesTracked
<1>1. Init => ReferencesTracked
  <2>1. DOMAIN <<>> = {} /\ 1..Len(<<>>) = {}
    OBVIOUS
  <2>2. Init => /\ DOMAIN resolved_labels = {} /\ unresolved_labels = {}
                /\ 1..Len(unresolved_instructions) = {}
    BY <2>1 DEF Init
  <2> QED
    BY <2>2 DEF ReferencesTracked
<1>2. ASSUME TypeOK, ReferencesTracked, [Next]_vars PROVE ReferencesTracked'
  <2>1. CASE UNCHANGED <<labels, unresolved_instructions>>
    BY <1>2, <2>1 DEF ReferencesTracked, labels
  <2>2. ASSUME NEW m \in Names, ~label_exists(m), BindLabel(m), UNCHANGED unresolved_instructions
        PROVE  ReferencesTracked'
    <3>1. /\ DOMAIN resolved_labels' = DOMAIN resolved_labels \cup {m}
          /\ unresolved_labels' = unresolved_labels \ {m}
      BY <2>2 DEF BindLabel, Put
    <3> QED
      BY <1>2, <2>2, <3>1 DEF ReferencesTracked
  <2>3. ASSUME NEW m \in Names, NEW t \in {"B_TYPE", "J_TYPE"}, ~label_exists(m), Unresolved(t, m)
        PROVE  ReferencesTracked'
    <3> DEFINE u == unresolved_instructions
               n == get_next_insn_number(currentSection)
               e == [insn_number |-> n, pc_insn_number |-> n - 1,
                     insn_type |-> t, hash |-> Hash[m]]
    <3>1. /\ u' = Append(u, e)
          /\ unresolved_labels' = unresolved_labels \cup {m}
          /\ resolved_labels' = resolved_labels
      BY <2>3 DEF Unresolved
    <3>2. u \in Seq(Reference) /\ e.hash = Hash[m]
      BY <1>2 DEF TypeOK, RefsOK
    <3> HIDE DEF e
    <3>3. /\ Len(u') = Len(u) + 1 /\ Len(u) \in Nat
          /\ \A k \in 1..Len(u) : u'[k] = u[k]
          /\ u'[Len(u) + 1] = e
      BY <3>1, <3>2, AppendProperties, LenProperties
    <3>4. ASSUME NEW k \in 1..Len(u')
          PROVE  \E l \in (DOMAIN resolved_labels \cup unresolved_labels)' : Hash[l] = u'[k].hash
      <4>1. CASE k \in 1..Len(u)
        BY <1>2, <3>1, <3>3, <4>1 DEF ReferencesTracked
      <4>2. CASE k = Len(u) + 1
        BY <3>1, <3>2, <3>3, <4>2
      <4>3. k \in 1..Len(u) \/ k = Len(u) + 1
        BY <3>3
      <4> QED
        BY <4>1, <4>2, <4>3
    <3>5. (DOMAIN resolved_labels \cap unresolved_labels)' = {}
      BY <1>2, <2>3, <3>1 DEF ReferencesTracked, label_exists
    <3> QED
      BY <3>4, <3>5 DEF ReferencesTracked
  <2>4. CASE ResolveEntry
    BY <1>2, <2>4, LookupKeepsAddresses DEF ReferencesTracked
  <2> QED
    BY <1>2, <2>1, <2>2, <2>3, <2>4, LabelSteps
<1> QED
  BY <1>1, <1>2, TypeCorrect, PTL DEF Spec

-----------------------------------------------------------------------------
(***************************************************************************)
(* The second pass.                                                        *)
(***************************************************************************)

Parsing == {"statement", "label", "labelled", "body"}

(* A step of yyparse leaves the second pass alone or is a round of it. *)
LEMMA ParseSteps ==
    ASSUME TypeOK, ParseStep
    PROVE  (pc \in Parsing /\ UNCHANGED <<entry, file>>) \/ ResolveEntry
<1> DEFINE Parses == pc \in Parsing /\ UNCHANGED <<entry, file>>
<1>1. ASSUME NEW i \in Insns, InstructionStep(i) PROVE Parses
  <2>1. CASE ImmediateOutOfRange(i) \/ JumpOutOfRange(i)
    BY <2>1 DEF ImmediateOutOfRange, JumpOutOfRange, Exit, NoEmit, output, Parsing
  <2>2. CASE HiModifier(i) \/ LoadAddress(i)
    BY <2>2 DEF HiModifier, LoadAddress, Instruction, Consume, NoEmit, output, Parsing
  <2>3. CASE DeclareSymbol(i) \/ BranchUnresolved(i) \/ JumpUnresolved(i)
    BY <2>3 DEF DeclareSymbol, BranchUnresolved, JumpUnresolved, Instruction, Consume,
                output, Parsing
  <2>4. CASE \/ Arithmetic(i) \/ Immediate(i) \/ UseSymbol(i) \/ LoadStore(i) \/ System(i)
             \/ Mv(i) \/ Ret(i) \/ BranchResolved(i) \/ JumpResolved(i)
    <3>1. (\E w : Emit(w)) /\ \E r : Instruction(i, r)
      BY <2>4 DEF Arithmetic, Immediate, UseSymbol, LoadStore, System, Mv, Ret,
                  BranchResolved, JumpResolved
    <3> QED
      BY <3>1 DEF Emit, Instruction, Consume, output, Parsing
  <2> QED
    BY <1>1, <2>1, <2>2, <2>3, <2>4 DEF InstructionStep
<1>2. ASSUME \/ \E l \in Names : Label(l) \/ Globl(l)
             \/ \E s \in {".text", ".data"} : SectionDirective(s)
             \/ \E v \in Values : Ascii(v)
             \/ TextDirective
      PROVE  Parses
  BY <1>2 DEF Label, Globl, SectionDirective, Ascii, TextDirective, Directive, Consume,
              output, Parsing
<1>3. ASSUME LabelledDirective \/ EndBlock \/ SyntaxError \/ EndOfFile PROVE Parses
  BY <1>3 DEF LabelledDirective, EndBlock, SyntaxError, EndOfFile, output, Parsing
<1> QED
  BY <1>1, <1>2, <1>3 DEF ParseStep

(* A step of the assembler is one of yyparse, the writing of the object,   *)
(* or nothing.                                                             *)
LEMMA PassSteps ==
    ASSUME TypeOK, [Next]_vars
    PROVE  \/ pc \in Parsing /\ UNCHANGED <<entry, file>>
           \/ ResolveEntry
           \/ WriteElf /\ UNCHANGED <<labels, unresolved_instructions>>
           \/ UNCHANGED vars
<1>1. WriteElf => UNCHANGED <<labels, unresolved_instructions>>
  BY DEF WriteElf, refs
<1> QED
  BY <1>1, ParseSteps DEF Next, Terminated

(* The pass starts when the parse is over and answers the references in    *)
(* order; the object is written after the last of them.  What the map by   *)
(* hash holds for a hash no bound label has is 0.                          *)
SecondPass ==
    /\ entry > 1 => pc \in {"resolve"} \cup Final
    /\ entry <= Len(unresolved_instructions) + 1
    /\ file # "none" => pc \in Final /\ entry > Len(unresolved_instructions)
    /\ \A k \in 1..(entry - 1) : unresolved_instructions[k].hash \in DOMAIN label_to_addr
    /\ \A h \in DOMAIN label_to_addr :
          label_to_addr[h] = 0 \/ \E l \in DOMAIN resolved_labels : Hash[l] = h

(* elf.cc lines 316-374, riscvass.y lines 100-101: no object without the   *)
(* second pass, and no round of it before the labels are final.            *)
LEMMA PassInOrder == Spec => []SecondPass
<1> DEFINE u == unresolved_instructions
<1>1. Init => SecondPass
  <2>1. DOMAIN <<>> = {} /\ Len(<<>>) = 0 /\ 1..(1 - 1) = {}
    OBVIOUS
  <2>2. Init => /\ entry = 1 /\ file = "none" /\ Len(u) = 0 /\ 1..(entry - 1) = {}
                /\ DOMAIN label_to_addr = {}
    BY <2>1 DEF Init
  <2> QED
    BY <2>2 DEF SecondPass
<1>2. ASSUME TypeOK, SecondPass, [Next]_vars PROVE SecondPass'
  <2>1. entry \in Nat \ {0} /\ u \in Seq(Reference) /\ Len(u) \in Nat
    BY <1>2, LenProperties DEF TypeOK, OutputOK, RefsOK
  <2>2. CASE UNCHANGED vars
    BY <1>2, <2>2 DEF SecondPass, vars, labels, refs, output
  <2>3. CASE WriteElf /\ UNCHANGED <<labels, u>>
    BY <1>2, <2>3 DEF WriteElf, SecondPass, labels, Final
  <2>4. CASE ResolveEntry
    <3> DEFINE e == u[entry]
               addr == IF e.hash \in DOMAIN label_to_addr THEN label_to_addr[e.hash] ELSE 0
    <3>1. /\ pc = "resolve" /\ entry <= Len(u) /\ entry' = entry + 1
          /\ UNCHANGED <<pc, file, resolved_labels, u>>
          /\ label_to_addr' = Put(label_to_addr, e.hash, addr)
      BY <2>4 DEF ResolveEntry, Resolve, refs
    <3>2. DOMAIN label_to_addr' = DOMAIN label_to_addr \cup {e.hash}
      BY <3>1 DEF Put
    <3>3. \A k \in 1..(entry' - 1) : u'[k].hash \in DOMAIN label_to_addr'
      BY <1>2, <2>1, <3>1, <3>2 DEF SecondPass
    <3>4. \A h \in DOMAIN label_to_addr' :
             label_to_addr'[h] = 0 \/ \E l \in DOMAIN resolved_labels' : Hash[l] = h
      BY <1>2, <3>1 DEF SecondPass, Put
    <3>5. file = "none"
      BY <1>2, <2>1, <3>1 DEF SecondPass
    <3> QED
      BY <2>1, <3>1, <3>3, <3>4, <3>5 DEF SecondPass
  <2>5. CASE pc \in Parsing /\ UNCHANGED <<entry, file>>
    <3>1. entry = 1 /\ file = "none"
      BY <1>2, <2>1, <2>5 DEF SecondPass, Parsing, Final
    <3>2. entry' = 1 /\ file' = "none" /\ 1..(entry' - 1) = {}
      BY <2>5, <3>1
    <3>3. ASSUME NEW h \in DOMAIN label_to_addr'
          PROVE  label_to_addr'[h] = 0 \/ \E l \in DOMAIN resolved_labels' : Hash[l] = h
      <4>1. CASE UNCHANGED <<resolved_labels, label_to_addr>>
        BY <1>2, <3>3, <4>1 DEF SecondPass
      <4>2. ASSUME NEW m \in Names, BindLabel(m)
            PROVE  label_to_addr'[h] = 0 \/ \E l \in DOMAIN resolved_labels' : Hash[l] = h
        BY <1>2, <3>3, <4>2 DEF SecondPass, BindLabel, Put
      <4>3. ~ResolveEntry
        BY <2>5 DEF ResolveEntry, Parsing
      <4> QED
        BY <1>2, <4>1, <4>2, <4>3, LabelSteps DEF Unresolved, labels
    <3>4. Len(u') \in Nat
      <4>1. TypeOK'
        BY <1>2, NextTypeOK
      <4> QED
        BY <4>1, LenProperties DEF TypeOK, RefsOK
    <3> QED
      BY <3>2, <3>3, <3>4 DEF SecondPass
  <2> QED
    BY <1>2, <2>2, <2>3, <2>4, <2>5, PassSteps
<1> QED
  BY <1>1, <1>2, TypeCorrect, PTL DEF Spec

-----------------------------------------------------------------------------
(***************************************************************************)
(* Resolution by hash implements resolution by name.                       *)
(***************************************************************************)

(* The name a reference is to, as the refinement reads it off its hash. *)
NameOf(h) == CHOOSE l \in Names : Hash[l] = h
NamesOf(u) == [k \in DOMAIN u |-> NameOf(u[k].hash)]
AnswersOf(u, m, n) == [k \in 1..(n - 1) |-> m[u[k].hash]]

(* A sequence built from n + 1 values is the one built from n of them and  *)
(* the last one appended.                                                  *)
LEMMA TabulateAppend ==
    ASSUME NEW S, NEW n \in Nat, NEW f \in [1..n -> S], NEW v \in S,
           NEW g, DOMAIN g = 1..(n + 1), g = [k \in 1..(n + 1) |-> g[k]],
           \A k \in 1..n : g[k] = f[k], g[n + 1] = v
    PROVE  g = Append(f, v)
<1>1. f \in Seq(S) /\ Len(f) = n
  <2>1. f \in Seq(S)
    BY SeqDef
  <2> QED
    BY <2>1, LenProperties
<1>2. g \in Seq(S) /\ Len(g) = n + 1
  <2>1. \A k \in 1..(n + 1) : k \in 1..n \/ k = n + 1
    OBVIOUS
  <2>2. \A k \in 1..(n + 1) : g[k] \in S
    BY <2>1
  <2>3. g \in [1..(n + 1) -> S]
    BY <2>2
  <2>4. g \in Seq(S)
    BY <2>3, SeqDef
  <2> QED
    BY <2>4, LenProperties
<1> DEFINE a == Append(f, v)
<1>3. a \in Seq(S) /\ Len(a) = n + 1 /\ a[n + 1] = v /\ \A k \in 1..n : a[k] = f[k]
  BY <1>1, AppendProperties
<1> HIDE DEF a
<1>4. \A k \in 1..Len(g) : g[k] = a[k]
  <2>1. \A k \in 1..(n + 1) : k \in 1..n \/ k = n + 1
    OBVIOUS
  <2> QED
    BY <1>2, <1>3, <2>1
<1>5. g = a
  BY <1>2, <1>3, <1>4, SeqEqual
<1> QED
  BY <1>5 DEF a

(* While the parse runs, there are no answers. *)
LEMMA NoAnswers ==
    ASSUME NEW u, NEW m
    PROVE  AnswersOf(u, m, 1) = <<>>
<1> DEFINE a == AnswersOf(u, m, 1)
<1>1. a = [k \in 1..0 |-> m[u[k].hash]] /\ 1..0 = {} /\ 0 \in Nat
  BY DEF AnswersOf
<1>2. a \in [1..0 -> Nat]
  BY <1>1
<1>3. a \in Seq(Nat)
  BY <1>1, <1>2, SeqDef
<1>4. DOMAIN a = 1..Len(a) /\ Len(a) \in Nat
  BY <1>3, LenProperties
<1>5. Len(a) = 0
  BY <1>1, <1>4
<1> HIDE DEF a
<1>6. a = <<>>
  BY <1>3, <1>5, EmptySeq
<1> QED
  BY <1>6 DEF a

(* elf.cc lines 262-305 and 316-374: when no two of the names used have    *)
(* the same hash, recording a reference by its hash and looking the hash   *)
(* up after the parse gives every reference the address of its own label,  *)
(* bound before or after it, or 0 -- for any number of labels, references  *)
(* and repeated definitions.                                               *)
THEOREM ResolutionByName ==
    ASSUME \A l \in Names : NonColliding(l)
    PROVE  Spec => ResolvesByName
<1> DEFINE u == unresolved_instructions
           waiting == NamesOf(u)
           answers == AnswersOf(u, label_to_addr, entry)
<1>0. \A l \in Names : NameOf(Hash[l]) = l
  BY DEF NonColliding, NameOf
<1>1. Init => Resolution!Init
  <2> SUFFICES ASSUME Init PROVE Resolution!Init
    OBVIOUS
  <2>1. resolved_labels = <<>> /\ u = <<>> /\ entry = 1
    BY DEF Init
  <2>2. answers = <<>>
    BY <2>1, NoAnswers
  <2>3. waiting = <<>>
    BY <2>1 DEF NamesOf
  <2> QED
    BY <2>1, <2>2, <2>3 DEF Resolution!Init, NamesOf, NameOf, AnswersOf
<1>2. ASSUME TypeOK, TypeOK', AddressByHash, ReferencesTracked, SecondPass, [Next]_vars
      PROVE  [Resolution!Next]_(Resolution!vars)
  <2>1. entry \in Nat \ {0} /\ u \in Seq(Reference) /\ Len(u) \in Nat /\ DOMAIN u = 1..Len(u)
    BY <1>2, LenProperties DEF TypeOK, OutputOK, RefsOK
  <2>2. CASE UNCHANGED <<labels, u, entry>>
    BY <2>2 DEF Resolution!vars, labels
  <2>3. CASE ResolveEntry
    <3> DEFINE e == u[entry]
               l == NameOf(e.hash)
               addr == IF e.hash \in DOMAIN label_to_addr THEN label_to_addr[e.hash] ELSE 0
    <3>1. /\ entry \in 1..Len(u) /\ entry' = entry + 1
          /\ UNCHANGED <<resolved_labels, u>>
          /\ label_to_addr' = Put(label_to_addr, e.hash, addr)
      BY <2>1, <2>3 DEF ResolveEntry, Resolve, refs
    <3>2. l \in Names /\ Hash[l] = e.hash
      BY <1>2, <3>1 DEF ReferencesTracked, NameOf, TypeOK, LabelsOK
    <3>3. addr = IF l \in DOMAIN resolved_labels THEN resolved_labels[l] ELSE 0
      <4> HIDE DEF l, e
      <4>1. ASSUME NEW m \in DOMAIN resolved_labels, Hash[m] = e.hash PROVE m = l
        BY <1>2, <3>2, <4>1 DEF NonColliding, TypeOK, LabelsOK
      <4>2. CASE l \in DOMAIN resolved_labels
        BY <1>2, <3>2, <4>1, <4>2 DEF AddressByHash
      <4>3. CASE l \notin DOMAIN resolved_labels
        BY <1>2, <4>1, <4>3 DEF SecondPass
      <4> QED
        BY <4>2, <4>3
    <3>4. answers \in [1..(entry - 1) -> Nat] /\ addr \in Nat
      BY <1>2 DEF AnswersOf, SecondPass, TypeOK, LabelsOK
    <3>5. answers' = Append(answers, addr)
      <4>1. \A k \in 1..(entry - 1) : answers'[k] = answers[k]
        BY <1>2, <2>1, <2>3, <3>1, LookupKeepsAddresses DEF AnswersOf, SecondPass
      <4>2. /\ DOMAIN answers' = 1..((entry - 1) + 1)
            /\ answers' = [k \in 1..((entry - 1) + 1) |-> answers'[k]]
        BY <2>1, <3>1 DEF AnswersOf
      <4>3. label_to_addr'[e.hash] = addr
        BY <3>1 DEF Put
      <4>4. answers'[(entry - 1) + 1] = addr
        BY <2>1, <3>1, <4>3 DEF AnswersOf
      <4>5. entry - 1 \in Nat
        BY <2>1
      <4> HIDE DEF answers, addr
      <4> QED
        BY <3>4, <4>1, <4>2, <4>4, <4>5, TabulateAppend
    <3>6. Len(answers) = entry - 1 /\ Len(waiting) = Len(u) /\ waiting[entry] = l
      <4>1. entry - 1 \in Nat /\ (entry - 1) + 1 = entry
        BY <2>1
      <4>2. answers \in Seq(Nat)
        BY <3>4, <4>1, SeqDef
      <4>3. DOMAIN answers = 1..(entry - 1) /\ DOMAIN answers = 1..Len(answers) /\ Len(answers) \in Nat
        BY <3>4, <4>2, LenProperties
      <4>4. waiting \in [1..Len(u) -> {NameOf(u[k].hash) : k \in 1..Len(u)}]
        BY <2>1 DEF NamesOf
      <4>5. waiting \in Seq({NameOf(u[k].hash) : k \in 1..Len(u)})
        BY <2>1, <4>4, SeqDef
      <4>6. DOMAIN waiting = 1..Len(u) /\ DOMAIN waiting = 1..Len(waiting) /\ Len(waiting) \in Nat
        BY <4>4, <4>5, LenProperties
      <4>7. waiting[entry] = l
        BY <2>1, <3>1 DEF NamesOf
      <4> HIDE DEF waiting, answers
      <4> QED
        BY <2>1, <4>1, <4>3, <4>6, <4>7
    <3>7. UNCHANGED waiting
      BY <3>1
    <3>8. /\ Len(answers) < Len(waiting)
          /\ LET m == waiting[Len(answers) + 1]
             IN  answers' = Append(answers, IF m \in DOMAIN resolved_labels
                                            THEN resolved_labels[m] ELSE 0)
          /\ UNCHANGED <<resolved_labels, waiting>>
      <4> HIDE DEF waiting, answers, addr, l
      <4> QED
        BY <2>1, <3>1, <3>3, <3>5, <3>6, <3>7
    <3>9. Resolution!Answer
      BY <3>8 DEF Resolution!Answer, NamesOf, NameOf, AnswersOf
    <3> QED
      BY <3>9 DEF Resolution!Next
  <2>4. CASE pc \in Parsing /\ UNCHANGED <<entry, file>>
    <3>1. entry = 1 /\ entry' = 1
      BY <1>2, <2>1, <2>4 DEF SecondPass, Parsing, Final
    <3>2. answers = <<>> /\ answers' = <<>>
      BY <3>1, NoAnswers
    <3>3. ASSUME NEW l \in Names, ~label_exists(l), BindLabel(l), UNCHANGED u
          PROVE  Resolution!Bind(l)
      <4>1. /\ DOMAIN resolved_labels' = DOMAIN resolved_labels \cup {l}
            /\ resolved_labels'[l] = last_index(text)
            /\ \A m \in DOMAIN resolved_labels : resolved_labels'[m] = resolved_labels[m]
        BY <3>3 DEF BindLabel, Put, label_exists
      <4>2. last_index(text) \in Nat
        BY <1>2, LenProperties DEF last_index, TypeOK, TablesOK
      <4>3. UNCHANGED waiting
        BY <3>3
      <4> QED
        BY <3>2, <3>3, <4>1, <4>2, <4>3
        DEF Resolution!Bind, label_exists, NamesOf, NameOf, AnswersOf
    <3>4. ASSUME NEW l \in Names, NEW t \in {"B_TYPE", "J_TYPE"}, ~label_exists(l), Unresolved(t, l)
          PROVE  Resolution!Refer(l)
      <4> DEFINE n == get_next_insn_number(currentSection)
                 e == [insn_number |-> n, pc_insn_number |-> n - 1,
                       insn_type |-> t, hash |-> Hash[l]]
                 S == {NameOf(u[k].hash) : k \in 1..Len(u)} \cup {l}
      <4>1. u' = Append(u, e) /\ UNCHANGED resolved_labels
        BY <3>4 DEF Unresolved
      <4>2. e.hash = Hash[l]
        OBVIOUS
      <4> HIDE DEF e
      <4>3. /\ Len(u') = Len(u) + 1 /\ DOMAIN u' = 1..(Len(u) + 1)
            /\ u'[Len(u) + 1] = e /\ \A k \in 1..Len(u) : u'[k] = u[k]
        <5>1. u' \in Seq(Reference)
          BY <1>2 DEF TypeOK, RefsOK
        <5>2. u \in Seq(Reference \cup {e}) /\ e \in Reference \cup {e}
          BY <2>1, SeqMonotonic
        <5> QED
          BY <4>1, <5>1, <5>2, AppendProperties, LenProperties
      <4>4. waiting \in [1..Len(u) -> S] /\ l \in S
        BY <2>1 DEF NamesOf
      <4>5. /\ DOMAIN waiting' = 1..(Len(u) + 1)
            /\ waiting' = [k \in 1..(Len(u) + 1) |-> waiting'[k]]
        BY <4>3 DEF NamesOf
      <4>6. \A k \in 1..Len(u) : waiting'[k] = waiting[k]
        BY <2>1, <4>3 DEF NamesOf
      <4>7. waiting'[Len(u) + 1] = l
        BY <1>0, <2>1, <4>2, <4>3 DEF NamesOf
      <4>8. waiting' = Append(waiting, l)
        <5> HIDE DEF waiting, S
        <5> QED
          BY <2>1, <4>4, <4>5, <4>6, <4>7, TabulateAppend
      <4> QED
        BY <3>2, <3>4, <4>1, <4>8
        DEF Resolution!Refer, label_exists, NamesOf, NameOf, AnswersOf
    <3>5. ~ResolveEntry
      BY <2>4 DEF ResolveEntry, Parsing
    <3> QED
      BY <1>2, <2>2, <2>4, <3>3, <3>4, <3>5, LabelSteps DEF Resolution!Next
  <2>5. WriteElf \/ UNCHANGED vars => UNCHANGED entry
    BY DEF WriteElf, vars, output
  <2>6. UNCHANGED vars => UNCHANGED <<labels, u>>
    BY DEF vars, refs
  <2> QED
    BY <1>2, <2>2, <2>3, <2>4, <2>5, <2>6, PassSteps
<1> QED
  BY <1>1, <1>2, TypeCorrect, AddressByHashHolds, ReferencesStayTracked, PassInOrder, PTL
  DEF Spec, ResolvesByName, Resolution!Spec
=============================================================================
