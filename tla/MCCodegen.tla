----------------------------- MODULE MCCodegen ------------------------------
(* Operand values at the edges of their fields, for every rule.            *)
EXTENDS CodegenCheck

Reg(name, n) == [name |-> name, n |-> n]
x0 == Reg("x", 0)

(* Every register by its ABI name and by its number. *)
AllRegs == {Reg(AbiNames[k][1], AbiNames[k][2]) : k \in 1..32} \cup {Reg("x", n) : n \in 0..31}
MCRegs == {Reg("zero", 0), Reg("ra", 0), Reg("a", 0), Reg("s", 5), Reg("x", 31)}

Literal(n) == [neg |-> n < 0, mag |-> U32(IF n < 0 THEN -n ELSE n)]
Unsigned(bits) == [neg |-> FALSE, mag |-> bits]

MCInts == {-4096, -2049, -2048, -2047, -1365, -1, 0, 1, 31, 32, 1365, 2046, 2047,
           2048, 4095, 4096, 65535, 100000, 327679, 2147483647}
(* 2^32 - 1, 2^32 + 1, 2^32 + 2^11, 2^64 and -2^64 - 1. *)
Large == {Unsigned(0..31), Unsigned({0, 32}), Unsigned({11, 32}), Unsigned({64}),
          [neg |-> TRUE, mag |-> {0, 64}]}
MCLiterals == {Literal(n) : n \in MCInts} \cup Large

(* What emit_b_type_instruction may be given: numbers of labels, hashes. *)
MCOffsets == {0, 1, 2, 30, 2047, 2048, 4095, 4096, 8193,
              -2, -2048, -4096, -4098, -468965076}

Line(r, m, a, b, c, lit, t) ==
    [rule |-> r, mn |-> m, op1 |-> a, op2 |-> b, op3 |-> c, lit |-> lit, offset |-> t]

MCLines ==
    {Line("R", m, a, b, c, Literal(0), 0) : m \in DOMAIN opcode \ {"ECALL"}, a, b, c \in MCRegs}
      \cup {Line("MV", "MV", a, a, x0, Literal(0), 0) : a \in AllRegs}
      \cup {Line("I", m, a, b, x0, n, 0) : m \in DOMAIN opcode_immediate,
                                          a, b \in MCRegs, n \in MCLiterals}
      \cup {Line("LS", m, a, b, x0, n, 0) : m \in DOMAIN opcode_load_store,
                                           a, b \in MCRegs, n \in MCLiterals}
      \cup {Line("B", "BEQ", a, b, x0, Literal(0), t) : a, b \in MCRegs,
                                                       t \in MCOffsets}
      \cup {Line("SYS", m, x0, x0, x0, Literal(0), 0) : m \in DOMAIN opcode}
      \cup {Line("MV", "MV", a, b, x0, Literal(0), 0) : a, b \in MCRegs}
      \cup {Line("RET", "RET", x0, x0, x0, Literal(0), 0)}
=============================================================================
