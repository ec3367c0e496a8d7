---------------------------- MODULE CodegenCheck ----------------------------
(***************************************************************************)
(* One instruction through the lexer and the encoding rules of riscvass.y: *)
(* a source line is lexed, the rule's action emits its word or exits, and  *)
(* a processor decodes the word (module Isa).                              *)
(***************************************************************************)
EXTENDS Codegen, Lexer, Isa

(* The lines that are tried: a grammar rule, a mnemonic, the registers as  *)
(* written, a literal and, for a branch, what resolve_label set offset to: *)
(* the number of a bound label or the hash of another, any 32 bits.        *)
CONSTANT Lines

(* A token that is no register of the REG rules reduces to no instruction. *)
ASSUME LinesAssumption ==
    \A l \in Lines : {l.op1, l.op2, l.op3} \subseteq Registers /\ l.offset \in Int

VARIABLES line,     \* the source line
          insn,     \* the parsed instruction
          word,     \* the word its action emitted
          outcome   \* "source", "parsed", then "emitted" or "exit" (exit_with_message)

vars == <<line, insn, word, outcome>>

NoInsn == [rule |-> "", mn |-> "", op1 |-> 0, op2 |-> 0, op3 |-> 0, imm |-> 0]

Init == line \in Lines /\ insn = NoInsn /\ word = {} /\ outcome = "source"

(* The values of the tokens of a line. *)
Parsed(l) == [rule |-> l.rule, mn |-> l.mn, op1 |-> register(l.op1), op2 |-> register(l.op2),
              op3 |-> register(l.op3),
              imm |-> IF l.rule = "B" THEN l.offset ELSE ival(l.lit)]

Lex == /\ outcome = "source"
       /\ insn' = Parsed(line)
       /\ outcome' = "parsed"
       /\ UNCHANGED <<line, word>>

Emit(w) == word' = w /\ outcome' = "emitted" /\ UNCHANGED <<line, insn>>

Rule(r) == outcome = "parsed" /\ insn.rule = r

RType == Rule("R") /\ Emit(RWord(insn))

IType == /\ Rule("I")
         /\ is_within_range_12b(insn.imm)
         /\ Emit(IWord(insn, Low(U32(insn.imm), 12)))

IOutOfRange == /\ Rule("I")
               /\ ~is_within_range_12b(insn.imm)
               /\ outcome' = "exit"
               /\ UNCHANGED <<line, insn, word>>

LoadStore == Rule("LS") /\ Emit(LSWord(insn))

(* The end of the rule, where offset is set: riscvass.y lines 258-263. *)
Branch == Rule("B") /\ Emit(BWord(insn, U32(insn.imm)))

System == Rule("SYS") /\ Emit(SysWord(insn))

Mv == Rule("MV") /\ Emit(MvWord(insn))

Ret == Rule("RET") /\ Emit(RetWord)

Done == outcome \in {"emitted", "exit"} /\ UNCHANGED vars

Next == \/ Lex
        \/ RType \/ IType \/ IOutOfRange \/ LoadStore \/ Branch \/ System \/ Mv \/ Ret \/ Done

Spec == Init /\ [][Next]_vars

-----------------------------------------------------------------------------
(* What the line says: the number the ABI gives a register, and the value  *)
(* of a literal, as a number when it fits an int.                          *)
Number(r) == AbiNumber(r.name, r.n)
Small(lit) == lit.mag \subseteq 0..30
Value(lit) == IF lit.neg THEN -ToInt(lit.mag) ELSE ToInt(lit.mag)
Fits12(lit) == lit.mag \subseteq 0..10 \/ (lit.neg /\ lit.mag = {11})

(* The registers the processor reads are those of the source line. *)
Regs(rd, rs1) == Fields(word).rd = U32(Number(rd)) /\ Fields(word).rs1 = U32(Number(rs1))

Emitted(r, mns) == outcome = "emitted" /\ line.rule = r /\ line.mn \in mns

(* Arithmetic: the word decodes to the mnemonic, registers and literal of  *)
(* the source line (riscvass.l lines 81-103, rules of riscvass.y lines     *)
(* 169-223 and mv).  sub, ori and andi are the subject of FollowsManual    *)
(* below, literals too large for an int that of OversizedRefused.  sltiu   *)
(* is left out of both: the grammar has it among the R-format opcodes, and *)
(* the manual has no instruction of that name with three registers.        *)
ArithmeticFaithful ==
    /\ Emitted("R", {"ADD"}) =>
          /\ IsMnemonic(word, line.mn) /\ Fields(word).funct7 = {}
          /\ Regs(line.op1, line.op2)  /\ Fields(word).rs2 = U32(Number(line.op3))
    /\ Emitted("I", {"ADDI", "SLTI", "XORI"}) =>
          /\ IsMnemonic(word, line.mn)
          /\ Regs(line.op1, line.op2)
          /\ Small(line.lit) => ImmI(word) = U32(Value(line.lit))
    /\ Emitted("MV", {"MV"}) =>
          /\ IsMnemonic(word, "ADDI")
          /\ Regs(line.op1, line.op2) /\ ImmI(word) = {}

(* Memory: a load or a store decodes to its registers and, when the        *)
(* displacement fits 12 bits, to its displacement; a larger one keeps its  *)
(* low 12 bits, since riscvass.y lines 224-243 check no range.             *)
MemoryFaithful ==
    Small(line.lit) =>
      LET disp == U32(Value(line.lit))
          low == SignExtend(Low(disp, 12), 12)
      IN  /\ Emitted("LS", {"LB", "LH", "LW", "LBU", "LHU"}) =>
                IsMnemonic(word, line.mn) /\ Regs(line.op1, line.op2) /\ ImmI(word) = low
          /\ Emitted("LS", {"SB", "SH", "SW"}) =>
                /\ IsMnemonic(word, line.mn) /\ ImmS(word) = low
                /\ Fields(word).rs2 = U32(Number(line.op1))
                /\ Fields(word).rs1 = U32(Number(line.op2))
          /\ Fits12(line.lit) => low = disp

(* The range check refuses a literal that fits an int exactly when 12 bits *)
(* cannot hold it: none is silently truncated, by the lexer or after it,   *)
(* and none that fits is refused (tests/invalid_range.s).                  *)
RangeCheckExact ==
    line.rule = "I" /\ Small(line.lit) /\ outcome \in {"emitted", "exit"} =>
        (outcome = "exit" <=> ~Fits12(line.lit))

(* Control: a beq compares the two registers of the source line (in either *)
(* order, for equality), and what the processor takes for its displacement *)
(* is the offset that emit_b_type_instruction was given, through the four  *)
(* pieces of encoding.cc lines 54-79: less bit 0, which B-immediates leave *)
(* out, and cut to 13 signed bits, which loses nothing from -4096 to 4095. *)
(* Whether that offset is the distance to the label is another matter, see *)
(* BackwardBranchReachesLabel and BranchReachesLabel of module             *)
(* AssemblerProperties: it is not.  ecall is exactly ecall.                *)
ControlFaithful ==
    /\ Emitted("B", {"BEQ"}) =>
          /\ IsMnemonic(word, "BEQ")
          /\ {Fields(word).rs1, Fields(word).rs2} = {U32(Number(line.op1)), U32(Number(line.op2))}
          /\ ImmB(word) = SignExtend(Low(U32(line.offset), 13) \ {0}, 13)
          /\ -4096 <= line.offset /\ line.offset < 4096 => ImmB(word) = U32(line.offset) \ {0}
    /\ Emitted("SYS", {"ECALL"}) => word = Mnemonics["ECALL"].opcode

(* encoding.h lines 1-6, "implements the instructions based on the         *)
(* following: The RISC-V Instruction Set Manual": sub, ori and andi decode *)
(* as themselves, and ret as a jump to the address in ra.                  *)
FollowsManual ==
    /\ Emitted("R", {"SUB"}) => Fields(word).funct7 = Mnemonics["SUB"].funct7
    /\ Emitted("I", {"ORI", "ANDI"}) => IsMnemonic(word, line.mn)
    /\ Emitted("RET", {"RET"}) =>
          /\ IsMnemonic(word, "JALR") /\ ImmI(word) = {}
          /\ Fields(word).rd = {} /\ Fields(word).rs1 = U32(1)

(* tests/invalid_range.s line 2, "should error out": a literal that not    *)
(* even 32 bits can hold is refused like any other out of range.           *)
OversizedRefused ==
    Emitted("I", {"ADDI"}) => line.lit.mag \subseteq 0..31
=============================================================================
