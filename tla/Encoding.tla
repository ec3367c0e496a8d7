------------------------------ MODULE Encoding ------------------------------
(***************************************************************************)
(* The instruction formats of encoding.h and the emit_* functions of       *)
(* encoding.cc.  Every argument is a word; a bit-field keeps the low bits  *)
(* of what is assigned to it.                                              *)
(***************************************************************************)
EXTENDS Words

(***************************************************************************)
(* The conversions  operator uint32_t() : where each bit-field lands.      *)
(***************************************************************************)
rtype32(i) == Shl(i.funct7, 25) \cup Shl(i.rs2, 20) \cup Shl(i.rs1, 15)
                \cup Shl(i.funct3, 12) \cup Shl(i.rd, 7) \cup i.opcode

itype32(i) == Shl(i.imm, 20) \cup Shl(i.rs1, 15) \cup Shl(i.funct3, 12)
                \cup Shl(i.rd, 7) \cup i.opcode

stype32(i) == Shl(i.imm_hi, 25) \cup Shl(i.rs2, 20) \cup Shl(i.rs1, 15)
                \cup Shl(i.funct3, 12) \cup Shl(i.imm_lo, 7) \cup i.opcode

btype32(i) == Shl(i.imm12, 31) \cup Shl(i.imm10_5, 25) \cup Shl(i.rs2, 20)
                \cup Shl(i.rs1, 15) \cup Shl(i.funct3, 12) \cup Shl(i.imm4_1, 8)
                \cup Shl(i.imm11, 7) \cup i.opcode

jtype32(i) == Shl(i.imm20, 31) \cup Shl(i.imm1_10, 21) \cup Shl(i.imm11, 20)
                \cup Shl(i.imm12_19, 12) \cup Shl(i.rd, 7) \cup i.opcode

(***************************************************************************)
(* The deserialize functions the patcher uses (only the fields it reads).  *)
(***************************************************************************)
btype32_deserialize(val) ==
    [opcode |-> Low(val, 7),           funct3 |-> Low(Shr(val, 12), 3),
     rs1    |-> Low(Shr(val, 15), 5),  rs2    |-> Low(Shr(val, 20), 5)]

utype32_deserialize(val) ==
    [opcode |-> Low(val, 7), rd |-> Low(Shr(val, 7), 5)]

jtype32_deserialize(val) ==
    [opcode |-> Low(val, 7), rd |-> Low(Shr(val, 7), 5)]

(***************************************************************************)
(* emit_*: build the struct, convert it to a word.                         *)
(***************************************************************************)
emit_u_type_instruction(imm, rd, opcode) ==
    Shl(Low(imm, 20), 12) \cup Shl(Low(rd, 5), 7) \cup Low(opcode, 7)

emit_i_type_instruction(rd, rs1, imm, funct3, opcode) ==
    itype32([rd |-> Low(rd, 5), rs1 |-> Low(rs1, 5), imm |-> Low(imm, 12),
             funct3 |-> Low(funct3, 3), opcode |-> Low(opcode, 7)])

emit_r_type_instruction(funct7, rs1, rs2, funct3, rd, opcode) ==
    rtype32([rd |-> Low(rd, 5), rs1 |-> Low(rs1, 5), rs2 |-> Low(rs2, 5),
             funct7 |-> Low(funct7, 7), funct3 |-> Low(funct3, 3),
             opcode |-> Low(opcode, 7)])

emit_b_type_instruction_shifted(imm, rs2, rs1, funct3, opcode) ==
    btype32([opcode  |-> Low(opcode, 7),        funct3 |-> Low(funct3, 3),
             rs2     |-> Low(rs2, 5),           rs1    |-> Low(rs1, 5),
             imm4_1  |-> Low(Shr(imm, 1), 4),   imm11  |-> Low(Shr(imm, 10), 1),
             imm12   |-> Low(Shr(imm, 11), 1),  imm10_5 |-> Low(Shr(imm, 5), 6)])
(* The definition names its parameters (imm, rs2, rs1); the declaration in *)
(* encoding.h says (imm, rs1, rs2).  The definition's order is what runs.  *)
emit_b_type_instruction(imm, rs2, rs1, funct3, opcode) ==
    btype32([opcode  |-> Low(opcode, 7),        funct3 |-> Low(funct3, 3),
             rs2     |-> Low(rs2, 5),           rs1    |-> Low(rs1, 5),
             imm4_1  |-> Low(Shr(imm, 1), 4),   imm11  |-> Low(Shr(imm, 11), 1),
             imm12   |-> Low(Shr(imm, 12), 1),  imm10_5 |-> Low(Shr(imm, 5), 6)])

emit_j_type_instruction(imm, rd, opcode) ==
    jtype32([opcode   |-> Low(opcode, 7),          rd    |-> Low(rd, 5),
             imm1_10  |-> Low(Shr(imm, 1), 10),    imm11 |-> Low(Shr(imm, 11), 1),
             imm12_19 |-> Low(Shr(imm, 12), 8),    imm20 |-> Low(Shr(imm, 20), 1)])

emit_s_type_instruction(rs2, rs1, imm, funct3, opcode) ==
    stype32([opcode |-> Low(opcode, 7), rs1 |-> Low(rs1, 5), rs2 |-> Low(rs2, 5),
             imm_lo |-> Low(imm, 5), imm_hi |-> Low(Shr(imm, 5), 7),
             funct3 |-> Low(funct3, 3)])
=============================================================================
