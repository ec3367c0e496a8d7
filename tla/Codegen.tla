------------------------------- MODULE Codegen ------------------------------
(***************************************************************************)
(* From a parsed instruction to its word: the opcode tables and the        *)
(* encoding half of the instruction rules of riscvass.y.                   *)
(*                                                                         *)
(* A parsed instruction is a record: the grammar rule that reduced it, its *)
(* mnemonic, its register operands in source order (op1, op2, op3), its    *)
(* literal and its symbol.  A field the rule does not use holds a default. *)
(***************************************************************************)
EXTENDS Encoding

Rules == {"R", "I", "ISYM", "IHI", "LS", "B", "SYS", "LA", "J", "MV", "RET"}

(***************************************************************************)
(* Opcode numbers (opcodes.h).                                             *)
(***************************************************************************)
JAL_32  == 111  \* 0x6f
JALR_32 == 103  \* 0x67
BEQ_32  == 99   \* 0x63
LOAD_32 == 3    \* LB_32 = LH_32 = LW_32 = LBU_32 = LHU_32 = 0x03
STORE_32 == 35  \* SB_32 = SH_32 = SW_32 = 0x23
IMM_32  == 19   \* ADDI_32 = SLTI_32 = XORI_32 = ORI_32 = ANDI_32 = 0x13
REG_32  == 51   \* ADD_32 = SUB_32 = SLTIU_32 = 0x33
ECALL_32 == 115 \* 0x73

(***************************************************************************)
(* The opcode_t a mnemonic stands for: rules opcode, opcode_load_store,    *)
(* opcode_immediate and opcode_branch.  Fields not initialised are 0.      *)
(***************************************************************************)
Opc(op, funct3, funct7) ==
    [op |-> U32(op), funct3 |-> U32(funct3), funct7 |-> U32(funct7), imm12 |-> {}]

opcode == [SLTIU |-> Opc(REG_32, 3, 0),   ECALL |-> Opc(ECALL_32, 0, 0),
           ADD   |-> Opc(REG_32, 0, 0),   SUB   |-> Opc(REG_32, 0, 32)]

opcode_load_store ==
    [LB  |-> Opc(LOAD_32, 0, 0),  LH  |-> Opc(LOAD_32, 1, 0),
     LW  |-> Opc(LOAD_32, 2, 0),  LBU |-> Opc(LOAD_32, 4, 0),
     LHU |-> Opc(LOAD_32, 5, 0),  SB  |-> Opc(STORE_32, 0, 0),
     SH  |-> Opc(STORE_32, 1, 0), SW  |-> Opc(STORE_32, 2, 0)]

opcode_immediate ==
    [ADDI |-> Opc(IMM_32, 0, 0), SLTI |-> Opc(IMM_32, 2, 0),
     ORI  |-> Opc(IMM_32, 5, 0), XORI |-> Opc(IMM_32, 4, 0),
     ANDI |-> Opc(IMM_32, 6, 0)]

opcode_branch == [BEQ |-> Opc(BEQ_32, 0, 0)]

is_load(op) == op = U32(LOAD_32)

(***************************************************************************)
(* Range checks (utils.h).                                                 *)
(***************************************************************************)
MAX_12_BIT_SIGNED == 2047
MIN_12_BIT_SIGNED == -2048

is_within_range_12b_loose(imm) == imm >= MIN_12_BIT_SIGNED /\ imm <= MAX_12_BIT_SIGNED + 1
is_within_range_12b(imm) == imm >= MIN_12_BIT_SIGNED /\ imm <= MAX_12_BIT_SIGNED

(* j: the signed range of a bits-wide offset; the code has bits = 21. *)
is_within_range(imm, bits) == imm >= -(2^(bits - 1)) /\ imm <= 2^(bits - 1) - 1

(***************************************************************************)
(* The word each rule emits.                                               *)
(***************************************************************************)

RWord_swapped(i) == LET o == opcode[i.mn] IN
    emit_r_type_instruction({}, U32(i.op3), U32(i.op2), o.funct3, U32(i.op1), o.op)
(* opcode register COMMA register COMMA register.  funct7 is passed as 0   *)
(* whatever the table holds.                                               *)
RWord(i) == LET o == opcode[i.mn] IN
    emit_r_type_instruction({}, U32(i.op2), U32(i.op3), o.funct3, U32(i.op1), o.op)

(* opcode_immediate ..., after the range check of an IMM_INT, and with the *)
(* offset of a symbol that exists.                                         *)
IWord(i, offset) == LET o == opcode_immediate[i.mn] IN
    emit_i_type_instruction(U32(i.op1), U32(i.op2), offset, o.funct3, o.op)

(* opcode_load_store register COMMA IMM ( register ): no range check. *)
LSWord_swapped(i) == LET o == opcode_load_store[i.mn] IN
    IF is_load(o.op)
    THEN emit_i_type_instruction(U32(i.op1), U32(i.op2), U32(i.imm), o.funct3, o.op)
    ELSE emit_s_type_instruction(U32(i.op2), U32(i.op1), U32(i.imm), o.funct3, o.op)

LSWord(i) == LET o == opcode_load_store[i.mn] IN
    IF is_load(o.op)
    THEN emit_i_type_instruction(U32(i.op1), U32(i.op2), U32(i.imm), o.funct3, o.op)
    ELSE emit_s_type_instruction(U32(i.op1), U32(i.op2), U32(i.imm), o.funct3, o.op)

(* opcode_branch register COMMA register COMMA SYMBOL. *)
BWord(i, offset) == LET o == opcode_branch[i.mn] IN
    emit_b_type_instruction(offset, U32(i.op1), U32(i.op2), o.funct3, o.op)

(* opcode alone: ecall, and any other mnemonic of that rule. *)
SysWord(i) == LET o == opcode[i.mn] IN
    emit_i_type_instruction({}, {}, o.imm12, o.funct3, o.op)

(* j, once its label is known; mv; ret. *)
JWord(offset) == emit_j_type_instruction(offset, {}, U32(JAL_32))
MvWord(i) == emit_i_type_instruction(U32(i.op1), U32(i.op2), {}, {}, U32(IMM_32))
RetWord == emit_i_type_instruction({}, {}, U32(1), {}, U32(JALR_32))
=============================================================================
