--------------------------- MODULE EncodingProofs ---------------------------
(***************************************************************************)
(* The instruction formats, for every operand: what a processor decodes    *)
(* (module Isa) from what the emit_* functions of encoding.cc build.       *)
(***************************************************************************)
EXTENDS Codegen, Isa, TLAPS

(***************************************************************************)
(* The operators on words, bit by bit.                                     *)
(***************************************************************************)

(* A mask keeps the low bits. *)
LEMMA LowBits ==
    ASSUME NEW x \in SUBSET Int, NEW n \in Nat
    PROVE  /\ Low(x, n) \in SUBSET Int
           /\ \A b : b \in Low(x, n) <=> b \in x /\ b \in 0..(n - 1)
  BY DEF Low

(* x << k moves bit b - k to b, unless it falls off. *)
LEMMA ShlBits ==
    ASSUME NEW x \in SUBSET Int, NEW k \in Nat
    PROVE  \A b : b \in Shl(x, k) <=> b \in 0..31 /\ b - k \in x
<1>1. ASSUME NEW b \in 0..31, b - k \in x PROVE b \in Shl(x, k)
  <2>1. b = (b - k) + k
    OBVIOUS
  <2> QED
    BY <1>1, <2>1 DEF Shl
<1>2. ASSUME NEW b \in Shl(x, k) PROVE b \in 0..31 /\ b - k \in x
  <2>1. PICK c \in x : b = c + k /\ b \in 0..31
    BY <1>2 DEF Shl
  <2>2. c \in Int /\ b - k = c
    BY <2>1
  <2> QED
    BY <2>1, <2>2
<1> QED
  BY <1>1, <1>2

(* x >> k moves bit b + k to b. *)
LEMMA ShrBits ==
    ASSUME NEW x \in SUBSET Int, NEW k \in Nat
    PROVE  /\ Shr(x, k) \in SUBSET Int
           /\ \A b : b \in Shr(x, k) <=> b \in 0..31 /\ b + k \in x
<1>1. ASSUME NEW b \in 0..31, b + k \in x PROVE b \in Shr(x, k)
  <2>1. b = (b + k) - k
    OBVIOUS
  <2> QED
    BY <1>1, <2>1 DEF Shr
<1>2. ASSUME NEW b \in Shr(x, k) PROVE b \in 0..31 /\ b + k \in x
  <2>1. PICK c \in x : b = c - k /\ b \in 0..31
    BY <1>2 DEF Shr
  <2>2. c \in Int /\ b + k = c
    BY <2>1
  <2> QED
    BY <2>1, <2>2
<1> QED
  BY <1>1, <1>2 DEF Shr

(* Bits hi..lo of a word. *)
LEMMA SliceBits ==
    ASSUME NEW x \in SUBSET Int, NEW hi \in Nat, NEW lo \in Nat
    PROVE  /\ Slice(x, hi, lo) \in SUBSET Int
           /\ \A b : b \in Slice(x, hi, lo) <=> b \in 0..(hi - lo) /\ b + lo \in x
<1>1. ASSUME NEW b \in 0..(hi - lo), b + lo \in x PROVE b \in Slice(x, hi, lo)
  <2>1. b = (b + lo) - lo
    OBVIOUS
  <2> QED
    BY <1>1, <2>1 DEF Slice
<1>2. ASSUME NEW b \in Slice(x, hi, lo) PROVE b \in 0..(hi - lo) /\ b + lo \in x
  <2>1. PICK c \in x : b = c - lo /\ b \in 0..(hi - lo)
    BY <1>2 DEF Slice
  <2>2. c \in Int /\ b + lo = c
    BY <2>1
  <2> QED
    BY <2>1, <2>2
<1> QED
  BY <1>1, <1>2 DEF Slice

(* A shift stays within 32 bits. *)
LEMMA ShiftsAreWords ==
    ASSUME NEW x, NEW k
    PROVE  Shl(x, k) \in Word
  BY DEF Shl, Word

(* A field cut from a register is one too. *)
LEMMA FieldsAreWords ==
    ASSUME NEW x, NEW n \in 0..32
    PROVE  Low(x, n) \in Word
<1>1. 0..(n - 1) \subseteq 0..31
  OBVIOUS
<1> QED
  BY <1>1 DEF Low, Word

(* Whatever the operands, each emit_* function returns a 32-bit word. *)
LEMMA EmittedAreWords ==
    /\ \A a, b, c, d, e : emit_i_type_instruction(a, b, c, d, e) \in Word
    /\ \A a, b, c, d, e, f : emit_r_type_instruction(a, b, c, d, e, f) \in Word
    /\ \A a, b, c, d, e : emit_b_type_instruction(a, b, c, d, e) \in Word
    /\ \A a, b, c : emit_j_type_instruction(a, b, c) \in Word
    /\ \A a, b, c, d, e : emit_s_type_instruction(a, b, c, d, e) \in Word
<1>1. \A x, y \in Word : x \cup y \in Word
  BY DEF Word
<1>2. \A x : Low(x, 7) \in Word
  BY FieldsAreWords
<1>3. \A i : i.opcode \in Word => itype32(i) \in Word
  BY ShiftsAreWords DEF itype32, Word
<1>4. \A i : i.opcode \in Word => rtype32(i) \in Word
  BY ShiftsAreWords DEF rtype32, Word
<1>5. \A i : i.opcode \in Word => btype32(i) \in Word
  BY ShiftsAreWords DEF btype32, Word
<1>6. \A i : i.opcode \in Word => jtype32(i) \in Word
  BY ShiftsAreWords DEF jtype32, Word
<1>7. \A i : i.opcode \in Word => stype32(i) \in Word
  BY ShiftsAreWords DEF stype32, Word
<1>8. \A a, b, c, d, e : emit_i_type_instruction(a, b, c, d, e) \in Word
  BY <1>2, <1>3 DEF emit_i_type_instruction
<1>9. \A a, b, c, d, e, f : emit_r_type_instruction(a, b, c, d, e, f) \in Word
  BY <1>2, <1>4 DEF emit_r_type_instruction
<1>10. \A a, b, c, d, e : emit_b_type_instruction(a, b, c, d, e) \in Word
  BY <1>2, <1>5 DEF emit_b_type_instruction
<1>11. \A a, b, c : emit_j_type_instruction(a, b, c) \in Word
  BY <1>2, <1>6 DEF emit_j_type_instruction
<1>12. \A a, b, c, d, e : emit_s_type_instruction(a, b, c, d, e) \in Word
  BY <1>2, <1>7 DEF emit_s_type_instruction
<1> QED
  BY <1>8, <1>9, <1>10, <1>11, <1>12

(* A number of a 13-bit field: the upper bits are all its sign. *)
LEMMA SignBits ==
    ASSUME NEW n \in Int, -4096 <= n, n < 4096, NEW b \in 12..31
    PROVE  b \in U32(n) <=> n < 0
<1> DEFINE P(k) == k \in U32(n) <=> n < 0
<1>1. /\ P(12) /\ P(13) /\ P(14) /\ P(15) /\ P(16) /\ P(17) /\ P(18) /\ P(19) /\ P(20) /\ P(21)
      /\ P(22) /\ P(23) /\ P(24) /\ P(25) /\ P(26) /\ P(27) /\ P(28) /\ P(29) /\ P(30) /\ P(31)
  BY DEF U32
<1>2. b \in {12, 13, 14, 15, 16, 17, 18, 19, 20, 21, 22, 23, 24, 25, 26, 27, 28, 29, 30, 31}
  OBVIOUS
<1>3. P(b)
  <2> HIDE DEF P
  <2> QED
    BY <1>1, <1>2
<1> QED
  BY <1>3

(* A number in two's complement is a word. *)
LEMMA U32Word == \A n : U32(n) \in Word
  BY DEF U32, Word

(* Thirteen bits hold it: what is cut off is what sign extension puts back. *)
LEMMA SignExtended ==
    ASSUME NEW n \in Int, -4096 <= n, n < 4096
    PROVE  SignExtend(Low(U32(n), 13), 13) = U32(n)
<1> DEFINE x == SignExtend(Low(U32(n), 13), 13)
<1>1. 12 \in Low(U32(n), 13) <=> n < 0
  BY SignBits DEF Low
<1>2. ASSUME NEW b \in 0..31 PROVE b \in x <=> b \in U32(n)
  <2>1. CASE b \in 0..12
    BY <2>1 DEF SignExtend, Low
  <2>2. CASE b \in 13..31
    <3>1. b \in x <=> n < 0
      BY <1>1, <2>2 DEF SignExtend, Low
    <3> QED
      BY <2>2, <3>1, SignBits
  <2> QED
    BY <2>1, <2>2
<1>3. x \subseteq 0..31 /\ U32(n) \subseteq 0..31
  BY U32Word DEF SignExtend, Low, Word
<1> QED
  BY <1>2, <1>3

-----------------------------------------------------------------------------
(***************************************************************************)
(* The words the emit_* functions build, bit by bit: the bit-field structs *)
(* of encoding.h and their conversions to uint32_t.                        *)
(***************************************************************************)

(* Register format. *)
LEMMA RBits ==
    ASSUME NEW funct7 \in SUBSET Int, NEW rs1 \in SUBSET Int, NEW rs2 \in SUBSET Int,
           NEW funct3 \in SUBSET Int, NEW rd \in SUBSET Int, NEW op \in SUBSET Int
    PROVE  \A b : b \in emit_r_type_instruction(funct7, rs1, rs2, funct3, rd, op) <=>
              \/ b \in 0..6 /\ b \in op
              \/ b \in 7..11 /\ b - 7 \in rd
              \/ b \in 12..14 /\ b - 12 \in funct3
              \/ b \in 15..19 /\ b - 15 \in rs1
              \/ b \in 20..24 /\ b - 20 \in rs2
              \/ b \in 25..31 /\ b - 25 \in funct7
  BY LowBits, ShlBits DEF emit_r_type_instruction, rtype32

(* Immediate format. *)
LEMMA IBits ==
    ASSUME NEW rd \in SUBSET Int, NEW rs1 \in SUBSET Int, NEW imm \in SUBSET Int,
           NEW funct3 \in SUBSET Int, NEW op \in SUBSET Int
    PROVE  \A b : b \in emit_i_type_instruction(rd, rs1, imm, funct3, op) <=>
              \/ b \in 0..6 /\ b \in op
              \/ b \in 7..11 /\ b - 7 \in rd
              \/ b \in 12..14 /\ b - 12 \in funct3
              \/ b \in 15..19 /\ b - 15 \in rs1
              \/ b \in 20..31 /\ b - 20 \in imm
  BY LowBits, ShlBits DEF emit_i_type_instruction, itype32

(* Store format. *)
LEMMA SBits ==
    ASSUME NEW rs2 \in SUBSET Int, NEW rs1 \in SUBSET Int, NEW imm \in SUBSET Int,
           NEW funct3 \in SUBSET Int, NEW op \in SUBSET Int
    PROVE  \A b : b \in emit_s_type_instruction(rs2, rs1, imm, funct3, op) <=>
              \/ b \in 0..6 /\ b \in op
              \/ b \in 7..11 /\ b - 7 \in imm
              \/ b \in 12..14 /\ b - 12 \in funct3
              \/ b \in 15..19 /\ b - 15 \in rs1
              \/ b \in 20..24 /\ b - 20 \in rs2
              \/ b \in 25..31 /\ b - 20 \in imm
  BY LowBits, ShlBits, ShrBits DEF emit_s_type_instruction, stype32

(* Branch format. *)
LEMMA BBits ==
    ASSUME NEW imm \in SUBSET Int, NEW rs2 \in SUBSET Int, NEW rs1 \in SUBSET Int,
           NEW funct3 \in SUBSET Int, NEW op \in SUBSET Int
    PROVE  \A b : b \in emit_b_type_instruction(imm, rs2, rs1, funct3, op) <=>
              \/ b \in 0..6 /\ b \in op
              \/ b \in {7} /\ 11 \in imm
              \/ b \in 8..11 /\ b - 7 \in imm
              \/ b \in 12..14 /\ b - 12 \in funct3
              \/ b \in 15..19 /\ b - 15 \in rs1
              \/ b \in 20..24 /\ b - 20 \in rs2
              \/ b \in 25..30 /\ b - 20 \in imm
              \/ b \in {31} /\ 12 \in imm
  BY LowBits, ShlBits, ShrBits DEF emit_b_type_instruction, btype32

(* Jump format. *)
LEMMA JBits ==
    ASSUME NEW imm \in SUBSET Int, NEW rd \in SUBSET Int, NEW op \in SUBSET Int
    PROVE  \A b : b \in emit_j_type_instruction(imm, rd, op) <=>
              \/ b \in 0..6 /\ b \in op
              \/ b \in 7..11 /\ b - 7 \in rd
              \/ b \in 12..19 /\ b \in imm
              \/ b \in {20} /\ 11 \in imm
              \/ b \in 21..30 /\ b - 20 \in imm
              \/ b \in {31} /\ 20 \in imm
  BY LowBits, ShlBits, ShrBits DEF emit_j_type_instruction, jtype32

-----------------------------------------------------------------------------
(***************************************************************************)
(* Decoding.  No field overlaps another and no bit is lost: a processor    *)
(* finds each operand, cut to its field, where the format has it.          *)
(***************************************************************************)

(* An offset without bit 0, which the branch and jump formats leave out. *)
Even(x) == x \ {0}

(* emit_r_type_instruction and the register format of the manual. *)
LEMMA RegisterDecodes ==
    ASSUME NEW funct7 \in Word, NEW rs1 \in Word, NEW rs2 \in Word,
           NEW funct3 \in Word, NEW rd \in Word, NEW op \in Word,
           NEW w, w = emit_r_type_instruction(funct7, rs1, rs2, funct3, rd, op)
    PROVE  /\ Slice(w, 6, 0) = Low(op, 7) /\ Slice(w, 11, 7) = Low(rd, 5)
           /\ Slice(w, 14, 12) = Low(funct3, 3) /\ Slice(w, 19, 15) = Low(rs1, 5)
           /\ Slice(w, 24, 20) = Low(rs2, 5) /\ Slice(w, 31, 25) = Low(funct7, 7)
<1>1. /\ w \in SUBSET Int /\ funct7 \in SUBSET Int /\ rs1 \in SUBSET Int
      /\ rs2 \in SUBSET Int /\ funct3 \in SUBSET Int /\ rd \in SUBSET Int
      /\ op \in SUBSET Int
  BY EmittedAreWords DEF Word
<1>2. ASSUME NEW b \in 0..31
      PROVE  /\ b \in Slice(w, 6, 0) <=> b \in Low(op, 7)
             /\ b \in Slice(w, 11, 7) <=> b \in Low(rd, 5)
             /\ b \in Slice(w, 14, 12) <=> b \in Low(funct3, 3)
             /\ b \in Slice(w, 19, 15) <=> b \in Low(rs1, 5)
             /\ b \in Slice(w, 24, 20) <=> b \in Low(rs2, 5)
             /\ b \in Slice(w, 31, 25) <=> b \in Low(funct7, 7)
  <2>1. b \in Slice(w, 6, 0) <=> b \in Low(op, 7)
    BY <1>1, RBits, SliceBits, LowBits
  <2>2. b \in Slice(w, 11, 7) <=> b \in Low(rd, 5)
    BY <1>1, RBits, SliceBits, LowBits
  <2>3. b \in Slice(w, 14, 12) <=> b \in Low(funct3, 3)
    BY <1>1, RBits, SliceBits, LowBits
  <2>4. b \in Slice(w, 19, 15) <=> b \in Low(rs1, 5)
    BY <1>1, RBits, SliceBits, LowBits
  <2>5. b \in Slice(w, 24, 20) <=> b \in Low(rs2, 5)
    BY <1>1, RBits, SliceBits, LowBits
  <2>6. b \in Slice(w, 31, 25) <=> b \in Low(funct7, 7)
    BY <1>1, RBits, SliceBits, LowBits
  <2> QED
    BY <2>1, <2>2, <2>3, <2>4, <2>5, <2>6
<1>3. /\ Slice(w, 6, 0) \subseteq 0..31 /\ Low(op, 7) \subseteq 0..31
      /\ Slice(w, 11, 7) \subseteq 0..31 /\ Low(rd, 5) \subseteq 0..31
      /\ Slice(w, 14, 12) \subseteq 0..31 /\ Low(funct3, 3) \subseteq 0..31
      /\ Slice(w, 19, 15) \subseteq 0..31 /\ Low(rs1, 5) \subseteq 0..31
      /\ Slice(w, 24, 20) \subseteq 0..31 /\ Low(rs2, 5) \subseteq 0..31
      /\ Slice(w, 31, 25) \subseteq 0..31 /\ Low(funct7, 7) \subseteq 0..31
  BY <1>1, SliceBits, LowBits
<1>4. /\ Slice(w, 6, 0) = Low(op, 7)
      /\ Slice(w, 11, 7) = Low(rd, 5)
      /\ Slice(w, 14, 12) = Low(funct3, 3)
      /\ Slice(w, 19, 15) = Low(rs1, 5)
      /\ Slice(w, 24, 20) = Low(rs2, 5)
      /\ Slice(w, 31, 25) = Low(funct7, 7)
  BY <1>2, <1>3
<1> QED
  BY <1>4

(* emit_i_type_instruction and the immediate format of the manual. *)
LEMMA ImmediateDecodes ==
    ASSUME NEW rd \in Word, NEW rs1 \in Word, NEW imm \in Word,
           NEW funct3 \in Word, NEW op \in Word,
           NEW w, w = emit_i_type_instruction(rd, rs1, imm, funct3, op)
    PROVE  /\ Slice(w, 6, 0) = Low(op, 7) /\ Slice(w, 11, 7) = Low(rd, 5)
           /\ Slice(w, 14, 12) = Low(funct3, 3) /\ Slice(w, 19, 15) = Low(rs1, 5)
           /\ ImmI(w) = SignExtend(Low(imm, 12), 12)
<1>1. /\ w \in SUBSET Int /\ rd \in SUBSET Int /\ rs1 \in SUBSET Int
      /\ imm \in SUBSET Int /\ funct3 \in SUBSET Int /\ op \in SUBSET Int
  BY EmittedAreWords DEF Word
<1>2. ASSUME NEW b \in 0..31
      PROVE  /\ b \in Slice(w, 6, 0) <=> b \in Low(op, 7)
             /\ b \in Slice(w, 11, 7) <=> b \in Low(rd, 5)
             /\ b \in Slice(w, 14, 12) <=> b \in Low(funct3, 3)
             /\ b \in Slice(w, 19, 15) <=> b \in Low(rs1, 5)
             /\ b \in Slice(w, 31, 20) <=> b \in Low(imm, 12)
  <2>1. b \in Slice(w, 6, 0) <=> b \in Low(op, 7)
    BY <1>1, IBits, SliceBits, LowBits
  <2>2. b \in Slice(w, 11, 7) <=> b \in Low(rd, 5)
    BY <1>1, IBits, SliceBits, LowBits
  <2>3. b \in Slice(w, 14, 12) <=> b \in Low(funct3, 3)
    BY <1>1, IBits, SliceBits, LowBits
  <2>4. b \in Slice(w, 19, 15) <=> b \in Low(rs1, 5)
    BY <1>1, IBits, SliceBits, LowBits
  <2>5. b \in Slice(w, 31, 20) <=> b \in Low(imm, 12)
    BY <1>1, IBits, SliceBits, LowBits
  <2> QED
    BY <2>1, <2>2, <2>3, <2>4, <2>5
<1>3. /\ Slice(w, 6, 0) \subseteq 0..31 /\ Low(op, 7) \subseteq 0..31
      /\ Slice(w, 11, 7) \subseteq 0..31 /\ Low(rd, 5) \subseteq 0..31
      /\ Slice(w, 14, 12) \subseteq 0..31 /\ Low(funct3, 3) \subseteq 0..31
      /\ Slice(w, 19, 15) \subseteq 0..31 /\ Low(rs1, 5) \subseteq 0..31
      /\ Slice(w, 31, 20) \subseteq 0..31 /\ Low(imm, 12) \subseteq 0..31
  BY <1>1, SliceBits, LowBits
<1>4. /\ Slice(w, 6, 0) = Low(op, 7)
      /\ Slice(w, 11, 7) = Low(rd, 5)
      /\ Slice(w, 14, 12) = Low(funct3, 3)
      /\ Slice(w, 19, 15) = Low(rs1, 5)
      /\ Slice(w, 31, 20) = Low(imm, 12)
  BY <1>2, <1>3
<1> QED
  BY <1>4 DEF ImmI

(* emit_s_type_instruction and the store format of the manual. *)
LEMMA StoreDecodes ==
    ASSUME NEW rs2 \in Word, NEW rs1 \in Word, NEW imm \in Word,
           NEW funct3 \in Word, NEW op \in Word,
           NEW w, w = emit_s_type_instruction(rs2, rs1, imm, funct3, op)
    PROVE  /\ Slice(w, 6, 0) = Low(op, 7) /\ Slice(w, 14, 12) = Low(funct3, 3)
           /\ Slice(w, 19, 15) = Low(rs1, 5) /\ Slice(w, 24, 20) = Low(rs2, 5)
           /\ ImmS(w) = SignExtend(Low(imm, 12), 12)
<1> DEFINE d == Shl(Slice(w, 31, 25), 5) \cup Slice(w, 11, 7)
<1>1. /\ w \in SUBSET Int /\ rs2 \in SUBSET Int /\ rs1 \in SUBSET Int
      /\ imm \in SUBSET Int /\ funct3 \in SUBSET Int /\ op \in SUBSET Int
  BY EmittedAreWords DEF Word
<1>2. ASSUME NEW b \in 0..31
      PROVE  /\ b \in Slice(w, 6, 0) <=> b \in Low(op, 7)
             /\ b \in Slice(w, 14, 12) <=> b \in Low(funct3, 3)
             /\ b \in Slice(w, 19, 15) <=> b \in Low(rs1, 5)
             /\ b \in Slice(w, 24, 20) <=> b \in Low(rs2, 5)
             /\ b \in d <=> b \in Low(imm, 12)
  <2>1. b \in Slice(w, 6, 0) <=> b \in Low(op, 7)
    BY <1>1, SBits, SliceBits, LowBits
  <2>2. b \in Slice(w, 14, 12) <=> b \in Low(funct3, 3)
    BY <1>1, SBits, SliceBits, LowBits
  <2>3. b \in Slice(w, 19, 15) <=> b \in Low(rs1, 5)
    BY <1>1, SBits, SliceBits, LowBits
  <2>4. b \in Slice(w, 24, 20) <=> b \in Low(rs2, 5)
    BY <1>1, SBits, SliceBits, LowBits
  <2>5. b \in d <=> b \in Low(imm, 12)
    BY <1>1, SBits, SliceBits, LowBits, ShlBits
  <2> QED
    BY <2>1, <2>2, <2>3, <2>4, <2>5
<1>3. /\ Slice(w, 6, 0) \subseteq 0..31 /\ Low(op, 7) \subseteq 0..31
      /\ Slice(w, 14, 12) \subseteq 0..31 /\ Low(funct3, 3) \subseteq 0..31
      /\ Slice(w, 19, 15) \subseteq 0..31 /\ Low(rs1, 5) \subseteq 0..31
      /\ Slice(w, 24, 20) \subseteq 0..31 /\ Low(rs2, 5) \subseteq 0..31
      /\ d \subseteq 0..31 /\ Low(imm, 12) \subseteq 0..31
  BY <1>1, SliceBits, LowBits, ShlBits
<1>4. /\ Slice(w, 6, 0) = Low(op, 7)
      /\ Slice(w, 14, 12) = Low(funct3, 3)
      /\ Slice(w, 19, 15) = Low(rs1, 5)
      /\ Slice(w, 24, 20) = Low(rs2, 5)
      /\ d = Low(imm, 12)
  BY <1>2, <1>3
<1> QED
  BY <1>4 DEF ImmS

(* emit_b_type_instruction and the branch format of the manual. *)
LEMMA BranchDecodes ==
    ASSUME NEW imm \in Word, NEW rs2 \in Word, NEW rs1 \in Word,
           NEW funct3 \in Word, NEW op \in Word,
           NEW w, w = emit_b_type_instruction(imm, rs2, rs1, funct3, op)
    PROVE  /\ Slice(w, 6, 0) = Low(op, 7) /\ Slice(w, 14, 12) = Low(funct3, 3)
           /\ Slice(w, 19, 15) = Low(rs1, 5) /\ Slice(w, 24, 20) = Low(rs2, 5)
           /\ ImmB(w) = SignExtend(Even(Low(imm, 13)), 13)
<1> DEFINE d == Shl(Slice(w, 31, 31), 12) \cup Shl(Slice(w, 7, 7), 11)
                 \cup Shl(Slice(w, 30, 25), 5) \cup Shl(Slice(w, 11, 8), 1)
<1>1. /\ w \in SUBSET Int /\ imm \in SUBSET Int /\ rs2 \in SUBSET Int
      /\ rs1 \in SUBSET Int /\ funct3 \in SUBSET Int /\ op \in SUBSET Int
  BY EmittedAreWords DEF Word
<1>2. ASSUME NEW b \in 0..31
      PROVE  /\ b \in Slice(w, 6, 0) <=> b \in Low(op, 7)
             /\ b \in Slice(w, 14, 12) <=> b \in Low(funct3, 3)
             /\ b \in Slice(w, 19, 15) <=> b \in Low(rs1, 5)
             /\ b \in Slice(w, 24, 20) <=> b \in Low(rs2, 5)
             /\ b \in d <=> b \in Even(Low(imm, 13))
  <2>1. b \in Slice(w, 6, 0) <=> b \in Low(op, 7)
    BY <1>1, BBits, SliceBits, LowBits
  <2>2. b \in Slice(w, 14, 12) <=> b \in Low(funct3, 3)
    BY <1>1, BBits, SliceBits, LowBits
  <2>3. b \in Slice(w, 19, 15) <=> b \in Low(rs1, 5)
    BY <1>1, BBits, SliceBits, LowBits
  <2>4. b \in Slice(w, 24, 20) <=> b \in Low(rs2, 5)
    BY <1>1, BBits, SliceBits, LowBits
  <2>5. b \in d <=> b \in Even(Low(imm, 13))
    BY <1>1, BBits, SliceBits, LowBits, ShlBits DEF Even
  <2> QED
    BY <2>1, <2>2, <2>3, <2>4, <2>5
<1>3. /\ Slice(w, 6, 0) \subseteq 0..31 /\ Low(op, 7) \subseteq 0..31
      /\ Slice(w, 14, 12) \subseteq 0..31 /\ Low(funct3, 3) \subseteq 0..31
      /\ Slice(w, 19, 15) \subseteq 0..31 /\ Low(rs1, 5) \subseteq 0..31
      /\ Slice(w, 24, 20) \subseteq 0..31 /\ Low(rs2, 5) \subseteq 0..31
      /\ d \subseteq 0..31 /\ Even(Low(imm, 13)) \subseteq 0..31
  BY <1>1, SliceBits, LowBits, ShlBits DEF Even
<1>4. /\ Slice(w, 6, 0) = Low(op, 7)
      /\ Slice(w, 14, 12) = Low(funct3, 3)
      /\ Slice(w, 19, 15) = Low(rs1, 5)
      /\ Slice(w, 24, 20) = Low(rs2, 5)
      /\ d = Even(Low(imm, 13))
  BY <1>2, <1>3
<1> QED
  BY <1>4 DEF ImmB

(* emit_j_type_instruction and the jump format of the manual. *)
LEMMA JumpDecodes ==
    ASSUME NEW imm \in Word, NEW rd \in Word, NEW op \in Word,
           NEW w, w = emit_j_type_instruction(imm, rd, op)
    PROVE  /\ Slice(w, 6, 0) = Low(op, 7) /\ Slice(w, 11, 7) = Low(rd, 5)
           /\ ImmJ(w) = SignExtend(Even(Low(imm, 21)), 21)
<1> DEFINE d == Shl(Slice(w, 31, 31), 20) \cup Shl(Slice(w, 19, 12), 12)
                 \cup Shl(Slice(w, 20, 20), 11) \cup Shl(Slice(w, 30, 21), 1)
<1>1. /\ w \in SUBSET Int /\ imm \in SUBSET Int /\ rd \in SUBSET Int
      /\ op \in SUBSET Int
  BY EmittedAreWords DEF Word
<1>2. ASSUME NEW b \in 0..31
      PROVE  /\ b \in Slice(w, 6, 0) <=> b \in Low(op, 7)
             /\ b \in Slice(w, 11, 7) <=> b \in Low(rd, 5)
             /\ b \in d <=> b \in Even(Low(imm, 21))
  <2>1. b \in Slice(w, 6, 0) <=> b \in Low(op, 7)
    BY <1>1, JBits, SliceBits, LowBits
  <2>2. b \in Slice(w, 11, 7) <=> b \in Low(rd, 5)
    BY <1>1, JBits, SliceBits, LowBits
  <2>3. b \in d <=> b \in Even(Low(imm, 21))
    <3>1. /\ b \in Shl(Slice(w, 31, 31), 20) <=> b = 20 /\ b \in imm
          /\ b \in Shl(Slice(w, 19, 12), 12) <=> b \in 12..19 /\ b \in imm
          /\ b \in Shl(Slice(w, 20, 20), 11) <=> b = 11 /\ b \in imm
          /\ b \in Shl(Slice(w, 30, 21), 1) <=> b \in 1..10 /\ b \in imm
      BY <1>1, JBits, SliceBits, ShlBits
    <3> QED
      BY <1>1, <3>1, LowBits DEF Even
  <2> QED
    BY <2>1, <2>2, <2>3
<1>3. /\ Slice(w, 6, 0) \subseteq 0..31 /\ Low(op, 7) \subseteq 0..31
      /\ Slice(w, 11, 7) \subseteq 0..31 /\ Low(rd, 5) \subseteq 0..31
      /\ d \subseteq 0..31 /\ Even(Low(imm, 21)) \subseteq 0..31
  BY <1>1, SliceBits, LowBits, ShlBits DEF Even
<1>4. /\ Slice(w, 6, 0) = Low(op, 7)
      /\ Slice(w, 11, 7) = Low(rd, 5)
      /\ d = Even(Low(imm, 21))
  BY <1>2, <1>3
<1> QED
  BY <1>4 DEF ImmJ

(* encoding.cc and encoding.h against the manual, for every operand of the *)
(* emit_* functions: the bit-fields of the five formats and their          *)
(* conversions to uint32_t put each operand, cut to its width, exactly     *)
(* where a processor reads it, and nothing of one field shows in another.  *)
THEOREM FormatsDecode ==
    ASSUME NEW rd \in Word, NEW rs1 \in Word, NEW rs2 \in Word, NEW imm \in Word,
           NEW funct3 \in Word, NEW funct7 \in Word, NEW op \in Word
    PROVE  /\ LET w == emit_r_type_instruction(funct7, rs1, rs2, funct3, rd, op)
              IN  Fields(w) = [opcode |-> Low(op, 7), rd |-> Low(rd, 5), funct3 |-> Low(funct3, 3),
                               rs1 |-> Low(rs1, 5), rs2 |-> Low(rs2, 5), funct7 |-> Low(funct7, 7)]
           /\ LET w == emit_i_type_instruction(rd, rs1, imm, funct3, op)
              IN  /\ Fields(w).opcode = Low(op, 7) /\ Fields(w).rd = Low(rd, 5)
                  /\ Fields(w).funct3 = Low(funct3, 3) /\ Fields(w).rs1 = Low(rs1, 5)
                  /\ ImmI(w) = SignExtend(Low(imm, 12), 12)
           /\ LET w == emit_s_type_instruction(rs2, rs1, imm, funct3, op)
              IN  /\ Fields(w).opcode = Low(op, 7) /\ Fields(w).funct3 = Low(funct3, 3)
                  /\ Fields(w).rs1 = Low(rs1, 5) /\ Fields(w).rs2 = Low(rs2, 5)
                  /\ ImmS(w) = SignExtend(Low(imm, 12), 12)
           /\ LET w == emit_b_type_instruction(imm, rs2, rs1, funct3, op)
              IN  /\ Fields(w).opcode = Low(op, 7) /\ Fields(w).funct3 = Low(funct3, 3)
                  /\ Fields(w).rs1 = Low(rs1, 5) /\ Fields(w).rs2 = Low(rs2, 5)
                  /\ ImmB(w) = SignExtend(Even(Low(imm, 13)), 13)
           /\ LET w == emit_j_type_instruction(imm, rd, op)
              IN  /\ Fields(w).opcode = Low(op, 7) /\ Fields(w).rd = Low(rd, 5)
                  /\ ImmJ(w) = SignExtend(Even(Low(imm, 21)), 21)
<1>1. Fields(emit_r_type_instruction(funct7, rs1, rs2, funct3, rd, op)) =
         [opcode |-> Low(op, 7), rd |-> Low(rd, 5), funct3 |-> Low(funct3, 3),
          rs1 |-> Low(rs1, 5), rs2 |-> Low(rs2, 5), funct7 |-> Low(funct7, 7)]
  <2> DEFINE w == emit_r_type_instruction(funct7, rs1, rs2, funct3, rd, op)
  <2>0. w = emit_r_type_instruction(funct7, rs1, rs2, funct3, rd, op)
    OBVIOUS
  <2> HIDE DEF w
  <2>1. /\ Slice(w, 6, 0) = Low(op, 7) /\ Slice(w, 11, 7) = Low(rd, 5)
        /\ Slice(w, 14, 12) = Low(funct3, 3) /\ Slice(w, 19, 15) = Low(rs1, 5)
        /\ Slice(w, 24, 20) = Low(rs2, 5) /\ Slice(w, 31, 25) = Low(funct7, 7)
    BY <2>0, RegisterDecodes, SMTT(40)
  <2>2. Fields(w) = [opcode |-> Low(op, 7), rd |-> Low(rd, 5), funct3 |-> Low(funct3, 3),
                     rs1 |-> Low(rs1, 5), rs2 |-> Low(rs2, 5), funct7 |-> Low(funct7, 7)]
    BY <2>1 DEF Fields
  <2> QED
    BY <2>2 DEF w
<1> DEFINE i == emit_i_type_instruction(rd, rs1, imm, funct3, op)
           s == emit_s_type_instruction(rs2, rs1, imm, funct3, op)
           b == emit_b_type_instruction(imm, rs2, rs1, funct3, op)
           j == emit_j_type_instruction(imm, rd, op)
<1>2. /\ Fields(i).opcode = Low(op, 7) /\ Fields(i).rd = Low(rd, 5)
      /\ Fields(i).funct3 = Low(funct3, 3) /\ Fields(i).rs1 = Low(rs1, 5)
      /\ ImmI(i) = SignExtend(Low(imm, 12), 12)
  BY ImmediateDecodes DEF Fields
<1>3. /\ Fields(s).opcode = Low(op, 7) /\ Fields(s).funct3 = Low(funct3, 3)
      /\ Fields(s).rs1 = Low(rs1, 5) /\ Fields(s).rs2 = Low(rs2, 5)
      /\ ImmS(s) = SignExtend(Low(imm, 12), 12)
  BY StoreDecodes DEF Fields
<1>4. /\ Fields(b).opcode = Low(op, 7) /\ Fields(b).funct3 = Low(funct3, 3)
      /\ Fields(b).rs1 = Low(rs1, 5) /\ Fields(b).rs2 = Low(rs2, 5)
      /\ ImmB(b) = SignExtend(Even(Low(imm, 13)), 13)
  BY BranchDecodes DEF Fields
<1>5. /\ Fields(j).opcode = Low(op, 7) /\ Fields(j).rd = Low(rd, 5)
      /\ ImmJ(j) = SignExtend(Even(Low(imm, 21)), 21)
  BY JumpDecodes DEF Fields
<1> QED
  BY <1>1, <1>2, <1>3, <1>4, <1>5
=============================================================================
