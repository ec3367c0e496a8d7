--------------------------------- MODULE Isa --------------------------------
(***************************************************************************)
(* The RV32I instruction formats as a processor reads them: the manual     *)
(* encoding.h names as its source.  Nothing here is taken from the         *)
(* encoder, so that decoding what the encoder emits is an independent test.*)
(***************************************************************************)
EXTENDS Words

Fields(w) == [opcode |-> Slice(w, 6, 0),   rd  |-> Slice(w, 11, 7),
              funct3 |-> Slice(w, 14, 12), rs1 |-> Slice(w, 19, 15),
              rs2    |-> Slice(w, 24, 20), funct7 |-> Slice(w, 31, 25)]

(* The immediate of each format, sign-extended. *)
ImmI(w) == SignExtend(Slice(w, 31, 20), 12)
ImmS(w) == SignExtend(Shl(Slice(w, 31, 25), 5) \cup Slice(w, 11, 7), 12)
ImmB(w) == SignExtend(Shl(Slice(w, 31, 31), 12) \cup Shl(Slice(w, 7, 7), 11)
             \cup Shl(Slice(w, 30, 25), 5) \cup Shl(Slice(w, 11, 8), 1), 13)
ImmJ(w) == SignExtend(Shl(Slice(w, 31, 31), 20) \cup Shl(Slice(w, 19, 12), 12)
             \cup Shl(Slice(w, 20, 20), 11) \cup Shl(Slice(w, 30, 21), 1), 21)

(* Major opcode, funct3 and (register format only) funct7 of a mnemonic. *)
Code(op, funct3, funct7) == [opcode |-> U32(op), funct3 |-> U32(funct3), funct7 |-> U32(funct7)]

Mnemonics ==
    [ADD  |-> Code(51, 0, 0),  SUB  |-> Code(51, 0, 32),
     ADDI |-> Code(19, 0, 0),  SLTI |-> Code(19, 2, 0),  XORI |-> Code(19, 4, 0),
     ORI  |-> Code(19, 6, 0),  ANDI |-> Code(19, 7, 0),
     LB   |-> Code(3, 0, 0),   LH   |-> Code(3, 1, 0),   LW   |-> Code(3, 2, 0),
     LBU  |-> Code(3, 4, 0),   LHU  |-> Code(3, 5, 0),
     SB   |-> Code(35, 0, 0),  SH   |-> Code(35, 1, 0),  SW   |-> Code(35, 2, 0),
     BEQ  |-> Code(99, 0, 0),  JALR |-> Code(103, 0, 0), ECALL |-> Code(115, 0, 0)]

(* The word has the opcode and minor opcode of mnemonic mn. *)
IsMnemonic(w, mn) == /\ Fields(w).opcode = Mnemonics[mn].opcode
                     /\ Fields(w).funct3 = Mnemonics[mn].funct3

(* The integer registers in the order of the ABI, x0 first. *)
AbiNames ==
    <<<<"zero", 0>>, <<"ra", 0>>, <<"sp", 0>>, <<"gp", 0>>, <<"tp", 0>>,
      <<"t", 0>>, <<"t", 1>>, <<"t", 2>>, <<"s", 0>>, <<"s", 1>>,
      <<"a", 0>>, <<"a", 1>>, <<"a", 2>>, <<"a", 3>>, <<"a", 4>>, <<"a", 5>>, <<"a", 6>>, <<"a", 7>>,
      <<"s", 2>>, <<"s", 3>>, <<"s", 4>>, <<"s", 5>>, <<"s", 6>>, <<"s", 7>>,
      <<"s", 8>>, <<"s", 9>>, <<"s", 10>>, <<"s", 11>>,
      <<"t", 3>>, <<"t", 4>>, <<"t", 5>>, <<"t", 6>>>>
AbiNumber(name, n) == IF name = "x" THEN n
                      ELSE (CHOOSE k \in 1..32 : AbiNames[k] = <<name, n>>) - 1
=============================================================================
