---------------------------- MODULE MCAssembler -----------------------------
(* Small programs: names, hashes and instruction sets for the runs.        *)
EXTENDS AssemblerProperties, Hasher

MCChars == [a |-> <<97>>, b |-> <<98>>, zinke |-> <<122, 105, 110, 107, 101>>,
            altarage |-> <<97, 108, 116, 97, 114, 97, 103, 101>>]

MCHash == [l \in DOMAIN MCChars |-> hasher(MCChars[l])]

(* A published value of FNV-1a, and two names that collide. *)
ASSUME /\ MCHash["a"] = U32(-468965076)    \* 0xE40C292C
       /\ MCHash["zinke"] = MCHash["altarage"]

(* The parts of these functions the names of a run need. *)
Two   == {"a", "b"}
Three == {"a", "zinke", "altarage"}
TwoChars == [l \in Two |-> MCChars[l]]
ThreeChars == [l \in Three |-> MCChars[l]]
TwoHash == [l \in Two |-> MCHash[l]]
ThreeHash == [l \in Three |-> MCHash[l]]

Insn(r, m, a, b, n, s) ==
    [rule |-> r, mn |-> m, op1 |-> a, op2 |-> b, op3 |-> a, imm |-> n, sym |-> s]

MvInsn     == Insn("MV", "MV", 10, 5, 0, "a")
Beq(l)     == Insn("B", "BEQ", 6, 7, 0, l)
Jmp(l)     == Insn("J", "J", 0, 0, 0, l)
AddiSym(l) == Insn("ISYM", "ADDI", 1, 2, 0, l)

(* Branches, jumps and one instruction that is neither. *)
LabelInsns == {MvInsn, Jmp("a")} \cup {Beq(l) : l \in Names}
FlowInsns == {MvInsn, Jmp("a"), Beq("b")}

JumpInsns == {MvInsn, Jmp("a")}

(* One instruction per rule, and a literal that is out of range. *)
AllInsns == {MvInsn, Beq("a"), Jmp("b"), AddiSym("b"),
             Insn("R", "ADD", 1, 2, 0, "a"), Insn("I", "ADDI", 1, 2, -1, "a"),
             Insn("I", "ADDI", 2, 3, 100000, "a"), Insn("IHI", "ADDI", 1, 1, 0, "b"),
             Insn("LS", "SW", 5, 2, -4, "a"), Insn("SYS", "ECALL", 0, 0, 0, "a"),
             Insn("LA", "LA", 11, 0, 0, "b"), Insn("RET", "RET", 0, 0, 0, "a")}

(* A block only has to exist. *)
FillInsns == {MvInsn}

(* Two strings, one of which starts with the other. *)
MCValues == {<<34, 34>>, <<34, 34, 7>>}
NoValues == {}

(* The files without .globl: a label is bound where its block ends only. *)
NoGloblSpec == Init /\ [][Next /\ ~\E l \in Names : Globl(l)]_vars
=============================================================================
