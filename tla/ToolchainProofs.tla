-------------------------- MODULE ToolchainProofs ---------------------------
(***************************************************************************)
(* The two programs and the file system, for every command line, file      *)
(* system and loss of a failed write.                                      *)
(***************************************************************************)
EXTENDS ToolchainProperties, LabelProofs, TableProofs, WellFoundedInduction

(* main runs the assembler and does nothing else to its state: whatever is *)
(* shown of Assembler holds in the toolchain.                              *)
THEOREM ToolchainRunsAssembler == ToolSpec => Spec
<1>1. InitTools => Init
  BY DEF InitTools
<1>2. ASSUME [NextTools]_allVars PROVE [Next]_vars
  BY <1>2 DEF NextTools, Usage, CannotOpen, SetFilenames, Assemble, write_elf, Return, RunDis,
              Done, allVars, Next
<1> QED
  BY <1>1, <1>2, PTL DEF ToolSpec, Spec

-----------------------------------------------------------------------------
(***************************************************************************)
(* File names.                                                             *)
(***************************************************************************)

(* A set of positions that is not empty has a last one. *)
LEMMA LastPosition ==
    ASSUME NEW n \in Nat, NEW T \in SUBSET (1..n), T # {}
    PROVE  Max(T) \in T
<1> DEFINE R == OpToRel(<, Nat)
           M == {n - t : t \in T}
<1>1. M \subseteq Nat /\ M # {}
  <2>1. \A t \in T : n - t \in Nat
    OBVIOUS
  <2> QED
    BY <2>1, Zenon
<1>2. PICK x \in M : \A y \in M : <<y, x>> \notin R
  BY <1>1, NatLessThanWellFounded, WFMin
<1>3. \A y \in M : ~(y < x)
  BY <1>1, <1>2 DEF OpToRel
<1>4. PICK t \in T : x = n - t
  BY <1>2
<1>5. \A y \in T : t >= y
  BY <1>3, <1>4
<1> QED
  BY <1>4, <1>5 DEF Max

(* A path with .o at its end. *)
EndsInO(p) == Len(p) > 1 /\ SubSeq(p, Len(p) - 1, Len(p)) = <<".", "o">>

(* Two more names at the end of a path are its last two. *)
LEMMA AppendedSuffix ==
    ASSUME NEW S, NEW front \in Seq(S)
    PROVE  EndsInO(front \o <<".", "o">>)
<1> DEFINE C == S \cup {".", "o"}
           p == front \o <<".", "o">>
           n == Len(front)
           q == SubSeq(p, Len(p) - 1, Len(p))
<1>0. front \in Seq(C)
  BY SeqMonotonic
<1>1. <<".", "o">> \in Seq(C) /\ Len(<<".", "o">>) = 2 /\ n \in Nat
  BY LenProperties
<1>2. /\ p \in Seq(C) /\ Len(p) = n + 2
      /\ p[n + 1] = "." /\ p[n + 2] = "o"
  BY <1>0, <1>1, ConcatProperties
<1> HIDE DEF p, n
<1>3. /\ q \in Seq(C) /\ Len(q) = 2
      /\ q[1] = p[n + 1] /\ q[2] = p[n + 2]
  <2>1. \A i \in (n + 1)..(n + 2) : p[i] \in C
    BY <1>1, <1>2, ElementOfSeq
  <2>2. q = SubSeq(p, n + 1, n + 2)
    BY <1>1, <1>2
  <2> HIDE DEF q, C
  <2>3. n + 1 \in Int /\ n + 2 \in Int /\ n + 1 <= n + 2 /\ (n + 2) - (n + 1) + 1 = 2
        /\ (n + 1) + 1 - 1 = n + 1 /\ (n + 1) + 2 - 1 = n + 2
    BY <1>1
  <2>4. q \in Seq(C) /\ Len(q) = 2
    BY <2>1, <2>2, <2>3, SubSeqProperties
  <2>5. \A i \in 1..2 : q[i] = p[(n + 1) + i - 1]
    BY <2>1, <2>2, <2>3, SubSeqProperties
  <2> QED
    BY <2>3, <2>4, <2>5
<1> HIDE DEF q
<1>4. q = <<".", "o">>
  BY <1>1, <1>2, <1>3, SeqEqual
<1> QED
  BY <1>1, <1>2, <1>4 DEF p, q, EndsInO

(* utils.cc lines 4-16: a name that is made up ends in .o, wherever the    *)
(* path has dots.                                                          *)
LEMMA DestinationIsObject ==
    ASSUME NEW S, NEW path \in Seq(S)
    PROVE  EndsInO(generate_dest_filename(path))
<1> DEFINE T == {i \in 1..Len(path) : path[i] = "."}
           last_dot == SelectLastInSeq(path, LAMBDA c : c = ".")
<1>1. last_dot = IF T # {} THEN Max(T) ELSE 0
  BY DEF SelectLastInSeq
<1>2. Len(path) \in Nat
  BY LenProperties
<1>3. last_dot \in 0..Len(path)
  <2>1. CASE T = {}
    BY <1>1, <1>2, <2>1
  <2>2. CASE T # {}
    <3>1. T \in SUBSET (1..Len(path))
      OBVIOUS
    <3>2. Max(T) \in T
      BY <1>2, <2>2, <3>1, LastPosition
    <3> QED
      BY <1>1, <1>2, <2>2, <3>1, <3>2
  <2> QED
    BY <2>1, <2>2
<1> HIDE DEF T
<1>4. generate_dest_filename(path) = IF last_dot = 0 THEN path \o <<".", "o">>
                                     ELSE SubSeq(path, 1, last_dot - 1) \o <<".", "o">>
  BY DEF generate_dest_filename
<1> HIDE DEF last_dot
<1>5. SubSeq(path, 1, last_dot - 1) \in Seq(S)
  <2>1. \A i \in 1..(last_dot - 1) : path[i] \in S
    BY <1>2, <1>3, ElementOfSeq
  <2> QED
    BY <1>3, <2>1, SubSeqProperties
<1> QED
  BY <1>4, <1>5, AppendedSuffix

-----------------------------------------------------------------------------
(***************************************************************************)
(* The order of things in main: the output has its name before the parse   *)
(* starts, only write_elf touches the files, and nothing is parsed or      *)
(* written once the status is known.                                       *)
(***************************************************************************)
OutputNamed ==
    /\ argv \in CommandLines
    /\ out_filename # <<>> =>
          /\ Len(argv) >= 2 /\ SourceFile \in DOMAIN fs
          /\ out_filename = IF Len(argv) = 4 THEN argv[4] ELSE generate_dest_filename(SourceFile)
    /\ out_filename = <<>> => pc = "statement" /\ file = "none"
FilesKept ==
    /\ file = "none" => fs = Files
    /\ pc = "exit" => file = "none"
    /\ status # "running" => pc \in Final \/ out_filename = <<>>
    /\ FailureWritesNothing
ToolInv == OutputNamed /\ FilesKept

(* A call of write_elf stores something under the name of the output, or   *)
(* leaves the files alone.                                                 *)
LEMMA WriteSteps ==
    ASSUME write_elf
    PROVE  /\ WriteElf /\ UNCHANGED <<argv, out_filename, status>>
           /\ \/ file' = "none" /\ UNCHANGED fs
              \/ file' # "none" /\ \E bytes : fs' = Put(fs, out_filename, bytes)
  BY DEF write_elf, Stored, command

(* Every step of main, of yyparse and of the dump tool keeps that order.   *)
LEMMA ToolInvStays == ToolSpec => []ToolInv
<1>1. InitTools => ToolInv
  BY DEF InitTools, Init, ToolInv, OutputNamed, FilesKept, FailureWritesNothing
<1>2. ASSUME TypeOK, SecondPass, ToolInv, [NextTools]_allVars PROVE ToolInv'
  <2>1. CASE Usage \/ CannotOpen
    BY <1>2, <2>1 DEF Usage, CannotOpen, command, vars, output, SourceFile,
       ToolInv, OutputNamed, FilesKept, FailureWritesNothing
  <2>2. CASE SetFilenames
    BY <1>2, <2>2 DEF SetFilenames, vars, output, SourceFile,
       ToolInv, OutputNamed, FilesKept, FailureWritesNothing
  <2>3. CASE Assemble
    <3>1. /\ UNCHANGED <<argv, out_filename, status, fs>>
          /\ out_filename # <<>> /\ status = "running" /\ ParseStep
      BY <2>3 DEF Assemble, toolVars, command
    <3>2. UNCHANGED file /\ pc \in Parsing \cup {"resolve"}
      BY <1>2, <3>1, ParseSteps DEF ResolveEntry
    <3>3. file = "none"
      BY <1>2, <3>2 DEF SecondPass, Parsing, Final
    <3> QED
      BY <1>2, <3>1, <3>2, <3>3 DEF SourceFile, ToolInv, OutputNamed, FilesKept, FailureWritesNothing
  <2>4. CASE write_elf
    <3>1. pc = "resolve" /\ pc' \in {"done", "syntax_error"}
      BY <2>4, WriteSteps DEF WriteElf
    <3>2. out_filename # <<>> /\ status = "running"
      BY <1>2, <3>1 DEF ToolInv, OutputNamed, FilesKept, Final
    <3>3. SourceFile' \in DOMAIN fs'
      BY <1>2, <2>4, <3>2, WriteSteps DEF Put, SourceFile, ToolInv, OutputNamed
    <3>4. /\ UNCHANGED <<argv, out_filename, status, SourceFile>>
          /\ file' = "none" => file = "none" /\ UNCHANGED fs
      <4>1. file = "none"
        BY <1>2, <3>1 DEF SecondPass, Final
      <4> QED
        BY <2>4, <4>1, WriteSteps DEF SourceFile
    <3> QED
      BY <1>2, <3>1, <3>2, <3>3, <3>4 DEF ToolInv, OutputNamed, FilesKept, FailureWritesNothing, Final
  <2>5. CASE Return
    BY <1>2, <2>5 DEF Return, exit_status, command, vars, output, SourceFile,
       ToolInv, OutputNamed, FilesKept, FailureWritesNothing
  <2>6. CASE (\E args \in DisArgs : RunDis(args)) \/ Done \/ UNCHANGED allVars
    BY <1>2, <2>6 DEF RunDis, Done, allVars, toolVars, command, vars, output, SourceFile,
       ToolInv, OutputNamed, FilesKept, FailureWritesNothing
  <2> QED
    BY <1>2, <2>1, <2>2, <2>3, <2>4, <2>5, <2>6 DEF NextTools
<1> QED
  BY <1>1, <1>2, ToolchainRunsAssembler, TypeCorrect, PassInOrder, PTL DEF ToolSpec

(* riscvass.y lines 410-442: a call that says it failed -- no source, one  *)
(* it cannot open, or an instruction it refuses -- leaves every file as it *)
(* was.                                                                    *)
THEOREM FailuresWriteNothing == ToolSpec => []FailureWritesNothing
<1>1. ToolInv => FailureWritesNothing
  BY DEF ToolInv, FilesKept
<1> QED
  BY <1>1, ToolInvStays, PTL

(* utils.cc lines 4-16, riscvass.y lines 423-432: no file is removed, and  *)
(* none but the named output or one ending in .o is overwritten.           *)
THEOREM SourcesDoSurvive == ToolSpec => SourcesSurvive
<1> DEFINE Kept(p) == /\ p \in DOMAIN fs'
                      /\ fs'[p] # fs[p] =>
                            IF Len(argv) = 4 THEN p = argv[4] ELSE EndsInO(p)
<1>1. ASSUME ToolInv, [NextTools]_allVars PROVE \A p \in DOMAIN fs : Kept(p)
  <2>1. CASE UNCHANGED fs
    BY <2>1
  <2>2. ASSUME NEW bytes, fs' = Put(fs, out_filename, bytes), write_elf, NEW p \in DOMAIN fs
        PROVE  Kept(p)
    <3>1. p \in DOMAIN fs' /\ (fs'[p] # fs[p] => p = out_filename)
      BY <2>2 DEF Put
    <3>2. out_filename # <<>>
      BY <1>1, <2>2 DEF write_elf, WriteElf, ToolInv, OutputNamed
    <3>3. CASE Len(argv) = 4
      BY <1>1, <3>1, <3>2, <3>3 DEF ToolInv, OutputNamed
    <3>4. CASE Len(argv) # 4
      <4>1. out_filename = generate_dest_filename(argv[2]) /\ Len(argv) >= 2 /\ argv \in CommandLines
        BY <1>1, <3>2, <3>4 DEF ToolInv, OutputNamed, SourceFile
      <4>2. argv[2] \in Seq(STRING)
        <5>1. argv \in Seq(Seq(STRING) \ {<<>>})
          BY <4>1, CommandLinesAssumption
        <5>2. 2 \in 1..Len(argv)
          BY <4>1, <5>1, LenProperties
        <5>3. argv[2] \in Seq(STRING) \ {<<>>}
          BY <5>1, <5>2, ElementOfSeq
        <5> QED
          BY <5>3
      <4>3. EndsInO(out_filename)
        BY <4>1, <4>2, DestinationIsObject
      <4> QED
        BY <3>1, <3>4, <4>3
    <3> QED
      BY <3>3, <3>4
  <2>3. write_elf => UNCHANGED fs \/ \E bytes : fs' = Put(fs, out_filename, bytes)
    BY WriteSteps
  <2>4. ~write_elf => UNCHANGED fs
    BY <1>1 DEF NextTools, Usage, CannotOpen, SetFilenames, Assemble, Return, RunDis, Done,
                allVars, toolVars
  <2> HIDE DEF Kept
  <2> QED
    BY <2>1, <2>2, <2>3, <2>4
<1> QED
  BY <1>1, ToolInvStays, PTL DEF ToolSpec, SourcesSurvive, EndsInO

-----------------------------------------------------------------------------
(***************************************************************************)
(* The bytes of a field.                                                   *)
(***************************************************************************)

(* The digit of n at the power p of two, in place. *)
Digit(n, p) == IF (n \div p) % 2 = 1 THEN p ELSE 0

(* A byte is the sum of its digits. *)
LEMMA SumOfDigits ==
    ASSUME NEW n \in Nat
    PROVE  n % 256 = Digit(n, 1) + Digit(n, 2) + Digit(n, 4) + Digit(n, 8)
                       + Digit(n, 16) + Digit(n, 32) + Digit(n, 64) + Digit(n, 128)
<1> DEFINE q1 == n \div 2   q2 == n \div 4   q3 == n \div 8    q4 == n \div 16
           q5 == n \div 32  q6 == n \div 64  q7 == n \div 128  q8 == n \div 256
<1>1. /\ n = 2 * q1 + Digit(n, 1)        /\ 2 * q1 = 4 * q2 + Digit(n, 2)
      /\ 4 * q2 = 8 * q3 + Digit(n, 4)   /\ 8 * q3 = 16 * q4 + Digit(n, 8)
  BY DEF Digit
<1>2. /\ 16 * q4 = 32 * q5 + Digit(n, 16)   /\ 32 * q5 = 64 * q6 + Digit(n, 32)
      /\ 64 * q6 = 128 * q7 + Digit(n, 64)  /\ 128 * q7 = 256 * q8 + Digit(n, 128)
  BY DEF Digit
<1>3. /\ Digit(n, 1) \in Nat /\ Digit(n, 2) \in Nat /\ Digit(n, 4) \in Nat
      /\ Digit(n, 8) \in Nat /\ Digit(n, 16) \in Nat /\ Digit(n, 32) \in Nat
      /\ Digit(n, 64) \in Nat /\ Digit(n, 128) \in Nat
  BY DEF Digit
<1>4. n % 256 = n - 256 * q8
  OBVIOUS
<1>4a. q8 \in Nat
  OBVIOUS
<1>5. q1 \in Nat /\ q2 \in Nat /\ q3 \in Nat /\ q4 \in Nat /\ q5 \in Nat /\ q6 \in Nat /\ q7 \in Nat
  OBVIOUS
<1> HIDE DEF q1, q2, q3, q4, q5, q6, q7, q8
<1>6. n = 16 * q4 + (Digit(n, 1) + Digit(n, 2) + Digit(n, 4) + Digit(n, 8))
  BY <1>1, <1>3, <1>5
<1>7. 16 * q4 = 256 * q8 + (Digit(n, 16) + Digit(n, 32) + Digit(n, 64) + Digit(n, 128))
  BY <1>2, <1>3, <1>4a, <1>5
<1> QED
  BY <1>3, <1>4, <1>4a, <1>5, <1>6, <1>7

(* Digits above the low bytes. *)
LEMMA ShiftedDigit ==
    ASSUME NEW n \in Nat, NEW p \in {1, 2, 4, 8, 16, 32, 64, 128}
    PROVE  /\ (n \div 256) \div p = n \div (256 * p)
           /\ (n \div 65536) \div p = n \div (65536 * p)
           /\ (n \div 16777216) \div p = n \div (16777216 * p)
<1>1. (n \div 256) \div p = n \div (256 * p)
  OBVIOUS
<1>2. (n \div 65536) \div p = n \div (65536 * p)
  OBVIOUS
<1>3. (n \div 16777216) \div p = n \div (16777216 * p)
  OBVIOUS
<1> QED
  BY <1>1, <1>2, <1>3

(* utils.h line 59 on a number that has 31 bits. *)
LEMMA OctetsOfNumber ==
    ASSUME NEW n \in Nat, n <= MaxOffset
    PROVE  /\ Octet(U32(n), 0) = n % 256
           /\ Octet(U32(n), 1) = (n \div 256) % 256
           /\ Octet(U32(n), 2) = (n \div 65536) % 256
           /\ Octet(U32(n), 3) = n \div 16777216
<1> DEFINE In(b, p) == b \in U32(n) <=> (n \div p) % 2 = 1
<1>1. /\ In(0, 1) /\ In(1, 2) /\ In(2, 4) /\ In(3, 8)
      /\ In(4, 16) /\ In(5, 32) /\ In(6, 64) /\ In(7, 128)
  BY DEF U32
<1>2. /\ In(8, 256) /\ In(9, 512) /\ In(10, 1024) /\ In(11, 2048)
      /\ In(12, 4096) /\ In(13, 8192) /\ In(14, 16384) /\ In(15, 32768)
  BY DEF U32
<1>3. /\ In(16, 65536) /\ In(17, 131072) /\ In(18, 262144) /\ In(19, 524288)
      /\ In(20, 1048576) /\ In(21, 2097152) /\ In(22, 4194304) /\ In(23, 8388608)
  BY DEF U32
<1>4. /\ In(24, 16777216) /\ In(25, 33554432) /\ In(26, 67108864) /\ In(27, 134217728)
      /\ In(28, 268435456) /\ In(29, 536870912) /\ In(30, 1073741824) /\ In(31, 2147483648)
  BY SMT DEF U32, MaxOffset
<1>5. Octet(U32(n), 0) = n % 256
  <2>1. Octet(U32(n), 0) = Digit(n, 1) + Digit(n, 2) + Digit(n, 4) + Digit(n, 8)
                             + Digit(n, 16) + Digit(n, 32) + Digit(n, 64) + Digit(n, 128)
    <3> HIDE DEF In
    <3> QED
      BY <1>1 DEF Octet, Digit, In
  <2> QED
    BY <2>1, SumOfDigits
<1>6. Octet(U32(n), 1) = (n \div 256) % 256
  <2> DEFINE q == n \div 256
  <2>1. q \in Nat
    OBVIOUS
  <2>2. /\ n \div 256 = q \div 1  /\ n \div 512 = q \div 2
        /\ n \div 1024 = q \div 4  /\ n \div 2048 = q \div 8
        /\ n \div 4096 = q \div 16  /\ n \div 8192 = q \div 32
        /\ n \div 16384 = q \div 64  /\ n \div 32768 = q \div 128
    BY ShiftedDigit
  <2> HIDE DEF q
  <2>3. Octet(U32(n), 1) = Digit(q, 1) + Digit(q, 2) + Digit(q, 4) + Digit(q, 8)
                             + Digit(q, 16) + Digit(q, 32) + Digit(q, 64) + Digit(q, 128)
    BY <1>2, <2>2 DEF Octet, Digit
  <2> QED
    BY <2>1, <2>3, SumOfDigits DEF q
<1>7. Octet(U32(n), 2) = (n \div 65536) % 256
  <2> DEFINE q == n \div 65536
  <2>1. q \in Nat
    OBVIOUS
  <2>2. /\ n \div 65536 = q \div 1  /\ n \div 131072 = q \div 2
        /\ n \div 262144 = q \div 4  /\ n \div 524288 = q \div 8
        /\ n \div 1048576 = q \div 16  /\ n \div 2097152 = q \div 32
        /\ n \div 4194304 = q \div 64  /\ n \div 8388608 = q \div 128
    BY ShiftedDigit
  <2> HIDE DEF q
  <2>3. Octet(U32(n), 2) = Digit(q, 1) + Digit(q, 2) + Digit(q, 4) + Digit(q, 8)
                             + Digit(q, 16) + Digit(q, 32) + Digit(q, 64) + Digit(q, 128)
    BY <1>3, <2>2 DEF Octet, Digit
  <2> QED
    BY <2>1, <2>3, SumOfDigits DEF q
<1>8. Octet(U32(n), 3) = (n \div 16777216) % 256
  <2> DEFINE q == n \div 16777216
  <2>1. q \in Nat
    OBVIOUS
  <2>2. /\ n \div 16777216 = q \div 1  /\ n \div 33554432 = q \div 2
        /\ n \div 67108864 = q \div 4  /\ n \div 134217728 = q \div 8
        /\ n \div 268435456 = q \div 16  /\ n \div 536870912 = q \div 32
        /\ n \div 1073741824 = q \div 64  /\ n \div 2147483648 = q \div 128
    BY ShiftedDigit
  <2> HIDE DEF q
  <2>3. Octet(U32(n), 3) = Digit(q, 1) + Digit(q, 2) + Digit(q, 4) + Digit(q, 8)
                             + Digit(q, 16) + Digit(q, 32) + Digit(q, 64) + Digit(q, 128)
    BY <1>4, <2>2 DEF Octet, Digit
  <2> QED
    BY <2>1, <2>3, SumOfDigits DEF q
<1>9. (n \div 16777216) % 256 = n \div 16777216
  BY SMT DEF MaxOffset
<1> QED
  BY <1>5, <1>6, <1>7, <1>8, <1>9

(* A byte of a word has the bits of the word. *)
LEMMA OctetBits ==
    ASSUME NEW w, NEW i \in 0..3
    PROVE  /\ Octet(w, i) \in 0..255
           /\ \A b \in 0..7 : (Octet(w, i) \div 2^b) % 2 = 1 <=> 8 * i + b \in w
<1> DEFINE B(b) == IF 8 * i + b \in w THEN 1 ELSE 0
           b0 == B(0)  b1 == B(1)  b2 == B(2)  b3 == B(3)
           b4 == B(4)  b5 == B(5)  b6 == B(6)  b7 == B(7)
           c == Octet(w, i)
<1>1. /\ b0 \in 0..1 /\ b1 \in 0..1 /\ b2 \in 0..1 /\ b3 \in 0..1
      /\ b4 \in 0..1 /\ b5 \in 0..1 /\ b6 \in 0..1 /\ b7 \in 0..1
  OBVIOUS
<1>2. c = b0 + 2 * b1 + 4 * b2 + 8 * b3 + 16 * b4 + 32 * b5 + 64 * b6 + 128 * b7
  BY DEF Octet
<1>3. \A b \in 0..7 : B(b) = 1 <=> 8 * i + b \in w
  OBVIOUS
<1> HIDE DEF c, b0, b1, b2, b3, b4, b5, b6, b7
<1>4. c \in 0..255
  BY <1>1, <1>2
<1>5. /\ (c \div 1) % 2 = b0 /\ (c \div 2) % 2 = b1
      /\ (c \div 4) % 2 = b2 /\ (c \div 8) % 2 = b3
  BY <1>1, <1>2
<1>6. /\ c \div 16 = b4 + 2 * (b5 + 2 * (b6 + 2 * b7))
      /\ c \div 32 = b5 + 2 * (b6 + 2 * b7)
      /\ c \div 64 = b6 + 2 * b7
      /\ c \div 128 = b7
  BY <1>1, <1>2
<1>7. /\ (c \div 16) % 2 = b4 /\ (c \div 32) % 2 = b5
      /\ (c \div 64) % 2 = b6 /\ (c \div 128) % 2 = b7
  BY <1>1, <1>6
<1> HIDE DEF B
<1>8. ASSUME NEW b \in 0..7 PROVE (c \div 2^b) % 2 = B(b)
  <2>1. /\ 2^0 = 1 /\ 2^1 = 2 /\ 2^2 = 4 /\ 2^3 = 8
        /\ 2^4 = 16 /\ 2^5 = 32 /\ 2^6 = 64 /\ 2^7 = 128
    OBVIOUS
  <2>2. b = 0 \/ b = 1 \/ b = 2 \/ b = 3 \/ b = 4 \/ b = 5 \/ b = 6 \/ b = 7
    OBVIOUS
  <2>3. /\ (c \div 2^0) % 2 = B(0) /\ (c \div 2^1) % 2 = B(1)
        /\ (c \div 2^2) % 2 = B(2) /\ (c \div 2^3) % 2 = B(3)
    BY <1>5, <2>1, Zenon DEF b0, b1, b2, b3
  <2>4. /\ (c \div 2^4) % 2 = B(4) /\ (c \div 2^5) % 2 = B(5)
        /\ (c \div 2^6) % 2 = B(6) /\ (c \div 2^7) % 2 = B(7)
    BY <1>7, <2>1, Zenon DEF b4, b5, b6, b7
  <2> QED
    BY <2>2, <2>3, <2>4, Zenon
<1> QED
  BY <1>3, <1>4, <1>8 DEF c

-----------------------------------------------------------------------------
(***************************************************************************)
(* Bytes inside bytes.                                                     *)
(***************************************************************************)

Bytes == Seq(0..255)

(* The bytes of f from offset off on are s. *)
At(f, off, s) == off + Len(s) <= Len(f) /\ \A i \in 1..Len(s) : f[off + i] = s[i]

(* A function on 1..n is a sequence of length n. *)
LEMMA SeqOfLength ==
    ASSUME NEW n \in Nat, NEW S, NEW f \in [1..n -> S]
    PROVE  f \in Seq(S) /\ Len(f) = n
<1>1. f \in Seq(S)
  OBVIOUS
<1>2. Len(f) = n
  OBVIOUS
<1> QED
  BY <1>1, <1>2

(* The same for bytes. *)
LEMMA BytesOfLength ==
    ASSUME NEW n \in Nat, NEW f \in [1..n -> 0..255]
    PROVE  f \in Bytes /\ Len(f) = n
  BY SeqOfLength DEF Bytes

(* What was there is still there when the stream grows; what is added is   *)
(* where the stream ended.                                                 *)
LEMMA AtConcat ==
    ASSUME NEW a \in Bytes, NEW b \in Bytes
    PROVE  /\ a \o b \in Bytes /\ Len(a \o b) = Len(a) + Len(b)
           /\ At(a \o b, 0, a) /\ At(a \o b, Len(a), b)
<1>1. /\ a \o b \in Bytes /\ Len(a \o b) = Len(a) + Len(b)
      /\ \A i \in 1..(Len(a) + Len(b)) :
            (a \o b)[i] = IF i <= Len(a) THEN a[i] ELSE b[i - Len(a)]
  BY ConcatProperties DEF Bytes
<1>2. Len(a) \in Nat /\ Len(b) \in Nat
  BY LenProperties DEF Bytes
<1>3. ASSUME NEW i \in 1..Len(a) PROVE (a \o b)[0 + i] = a[i]
  BY <1>1, <1>2
<1>4. ASSUME NEW i \in 1..Len(b) PROVE (a \o b)[Len(a) + i] = b[i]
  <2>1. Len(a) + i \in 1..(Len(a) + Len(b)) /\ ~(Len(a) + i <= Len(a)) /\ (Len(a) + i) - Len(a) = i
    BY <1>2
  <2> QED
    BY <1>1, <2>1
<1> QED
  BY <1>1, <1>2, <1>3, <1>4 DEF At

(* A part of a part is a part. *)
LEMMA AtWithin ==
    ASSUME NEW f \in Bytes, NEW s \in Bytes, NEW t \in Bytes, NEW m \in Nat, NEW n \in Nat,
           At(f, m, s), At(s, n, t)
    PROVE  At(f, m + n, t)
<1>1. Len(f) \in Nat /\ Len(s) \in Nat /\ Len(t) \in Nat
  BY LenProperties DEF Bytes
<1>2. m + n + Len(t) <= Len(f)
  BY <1>1 DEF At
<1>3. ASSUME NEW i \in 1..Len(t) PROVE f[(m + n) + i] = t[i]
  <2>1. n + i \in 1..Len(s) /\ m + (n + i) = (m + n) + i
    BY <1>1 DEF At
  <2>2. f[m + (n + i)] = s[n + i]
    BY <2>1 DEF At
  <2> QED
    BY <2>1, <2>2 DEF At
<1> QED
  BY <1>2, <1>3 DEF At

(* Reading as many bytes where they are returns them. *)
LEMMA AtSubSeq ==
    ASSUME NEW f \in Bytes, NEW s \in Bytes, NEW off \in Nat, At(f, off, s)
    PROVE  SubSeq(f, off + 1, off + Len(s)) = s
<1> DEFINE q == SubSeq(f, off + 1, off + Len(s))
<1>1. Len(f) \in Nat /\ Len(s) \in Nat
  BY LenProperties DEF Bytes
<1>2. \A i \in (off + 1)..(off + Len(s)) : f[i] \in 0..255
  <2>1. ASSUME NEW i \in (off + 1)..(off + Len(s)) PROVE i \in 1..Len(f)
    BY <1>1 DEF At
  <2> QED
    BY <2>1, ElementOfSeq DEF Bytes
<1>3. off + 1 \in Int /\ off + Len(s) \in Int
  BY <1>1
<1>4. /\ q \in Bytes
      /\ Len(q) = IF off + 1 <= off + Len(s) THEN (off + Len(s)) - (off + 1) + 1 ELSE 0
      /\ \A i \in 1..((off + Len(s)) - (off + 1) + 1) : q[i] = f[(off + 1) + i - 1]
  BY <1>2, <1>3, SubSeqProperties DEF Bytes
<1> HIDE DEF q
<1>5. Len(q) = Len(s)
  BY <1>1, <1>4
<1>6. ASSUME NEW i \in 1..Len(q) PROVE q[i] = s[i]
  <2>1. i \in 1..Len(s) /\ i \in 1..((off + Len(s)) - (off + 1) + 1) /\ (off + 1) + i - 1 = off + i
    BY <1>1, <1>5
  <2> QED
    BY <1>4, <2>1 DEF At
<1>7. q = s
  BY <1>4, <1>5, <1>6, SeqEqual DEF Bytes
<1> QED
  BY <1>7 DEF q

(* Elements of size bytes each, one after the other. *)
LEMMA PackedParts ==
    ASSUME NEW n \in Nat, NEW f, NEW size \in {1, 2, 4, 16, 40},
           \A k \in 1..n : f[k] \in Bytes /\ Len(f[k]) = size
    PROVE  LET p == [i \in 1..(size * n) |-> f[(i - 1) \div size + 1][((i - 1) % size) + 1]]
           IN  /\ p \in Bytes /\ Len(p) = size * n
               /\ \A k \in 1..n : At(p, size * (k - 1), f[k])
<1> DEFINE E(i) == f[(i - 1) \div size + 1][((i - 1) % size) + 1]
           p == [i \in 1..(size * n) |-> E(i)]
<1>1. size * n \in Nat
  OBVIOUS
<1>2. ASSUME NEW i \in 1..(size * n)
      PROVE  (i - 1) \div size + 1 \in 1..n /\ ((i - 1) % size) + 1 \in 1..size
  <2>1. size = 1 \/ size = 2 \/ size = 4 \/ size = 16 \/ size = 40
    OBVIOUS
  <2> QED
    BY <2>1
<1>3. ASSUME NEW i \in 1..(size * n) PROVE E(i) \in 0..255
  BY <1>2, <1>3, ElementOfSeq DEF Bytes
<1>4. p \in Bytes /\ Len(p) = size * n /\ \A i \in 1..(size * n) : p[i] = E(i)
  <2> HIDE DEF E
  <2>1. p \in [1..(size * n) -> 0..255] /\ \A i \in 1..(size * n) : p[i] = E(i)
    BY <1>3
  <2> HIDE DEF p
  <2>2. p \in Bytes
    BY <1>1, <2>1 DEF Bytes
  <2>3. Len(p) = size * n
    BY <1>1, <2>1
  <2> QED
    BY <2>1, <2>2, <2>3
<1> HIDE DEF p
<1>5. ASSUME NEW k \in 1..n PROVE At(p, size * (k - 1), f[k])
  <2>1. size * (k - 1) + size <= size * n
    BY <1>1
  <2>2. ASSUME NEW j \in 1..size PROVE p[size * (k - 1) + j] = f[k][j]
    <3>1. /\ size * (k - 1) + j \in 1..(size * n)
          /\ (size * (k - 1) + j - 1) \div size + 1 = k
          /\ ((size * (k - 1) + j - 1) % size) + 1 = j
      <4>1. size = 1 \/ size = 2 \/ size = 4 \/ size = 16 \/ size = 40
        OBVIOUS
      <4> QED
        BY <4>1
    <3> QED
      BY <1>4, <3>1
  <2> QED
    BY <1>4, <2>1, <2>2 DEF At
<1> QED
  BY <1>4, <1>5 DEF p

-----------------------------------------------------------------------------
(***************************************************************************)
(* Fields: written, then read.                                             *)
(***************************************************************************)

(* write<T> adds as many bytes as T has, the lowest first. *)
LEMMA WrittenBytes ==
    ASSUME NEW w, NEW size \in {1, 2, 4}
    PROVE  /\ write(w, size, LE) \in Bytes /\ Len(write(w, size, LE)) = size
           /\ \A i \in 1..size : write(w, size, LE)[i] = Octet(w, i - 1)
<1> DEFINE p == write(w, size, LE)
<1>1. size \in Nat /\ size <= 4
  OBVIOUS
<1>2. p = [i \in 1..size |-> Octet(w, i - 1)]
  BY DEF write
<1>3. ASSUME NEW i \in 1..size PROVE Octet(w, i - 1) \in 0..255
  BY <1>1, OctetBits
<1> HIDE DEF p
<1>4. p \in [1..size -> 0..255] /\ \A i \in 1..size : p[i] = Octet(w, i - 1)
  BY <1>2, <1>3
<1>5. p \in Bytes /\ Len(p) = size
  BY <1>1, <1>4 DEF Bytes
<1> QED
  BY <1>4, <1>5 DEF p

(* The sizes of the three kinds of field. *)
LEMMA FieldBytes ==
    ASSUME NEW n
    PROVE  /\ Elf32_Word(n) \in Bytes /\ Len(Elf32_Word(n)) = 4
           /\ Elf32_Half(n) \in Bytes /\ Len(Elf32_Half(n)) = 2
           /\ Byte1(n) \in Bytes /\ Len(Byte1(n)) = 1
  BY WrittenBytes DEF Elf32_Word, Elf32_Half, Byte1

(* A word that is read is the number that was written, if no bit of it was *)
(* cut off.                                                                *)
LEMMA ReadWord ==
    ASSUME NEW f \in Bytes, NEW off \in Nat, NEW n \in Nat, n <= MaxOffset,
           At(f, off, Elf32_Word(n))
    PROVE  Num(f, off, 4) = n
<1> DEFINE w == U32(n)
<1>1. /\ f[off + 1] = Octet(w, 0) /\ f[off + 2] = Octet(w, 1)
      /\ f[off + 3] = Octet(w, 2) /\ f[off + 4] = Octet(w, 3)
  <2>1. Len(Elf32_Word(n)) = 4 /\ \A i \in 1..4 : Elf32_Word(n)[i] = Octet(w, i - 1)
    BY WrittenBytes DEF Elf32_Word
  <2>2. \A i \in 1..4 : f[off + i] = Octet(w, i - 1)
    BY <2>1 DEF At
  <2> QED
    BY <2>2
<1>2. /\ Octet(w, 0) = n % 256             /\ Octet(w, 1) = (n \div 256) % 256
      /\ Octet(w, 2) = (n \div 65536) % 256  /\ Octet(w, 3) = n \div 16777216
  BY OctetsOfNumber
<1> HIDE DEF w
<1>3. Num(f, off, 4) = f[off + 1] + f[off + 2] * 256 + f[off + 3] * 65536 + f[off + 4] * 16777216
  <2>1. /\ f[off + 1] \in Int /\ f[off + 2] \in Int /\ f[off + 3] \in Int /\ f[off + 4] \in Int
    BY <1>1, <1>2
  <2>2. 256^0 = 1 /\ 256^1 = 256 /\ 256^2 = 65536 /\ 256^3 = 16777216
    OBVIOUS
  <2>3. off + 0 + 1 = off + 1 /\ off + 1 + 1 = off + 2 /\ off + 2 + 1 = off + 3 /\ off + 3 + 1 = off + 4
    OBVIOUS
  <2> QED
    BY <2>1, <2>2, <2>3 DEF Num
<1>4. n = (n % 256) + ((n \div 256) % 256) * 256 + ((n \div 65536) % 256) * 65536
            + (n \div 16777216) * 16777216
  BY SMT
<1> DEFINE b0 == n % 256                b1 == (n \div 256) % 256
           b2 == (n \div 65536) % 256   b3 == n \div 16777216
<1>5. f[off + 1] = b0 /\ f[off + 2] = b1 /\ f[off + 3] = b2 /\ f[off + 4] = b3
  BY <1>1, <1>2
<1>6. n = b0 + b1 * 256 + b2 * 65536 + b3 * 16777216
  BY <1>4
<1> HIDE DEF b0, b1, b2, b3
<1> QED
  BY <1>3, <1>5, <1>6, SMT

(* The same for a field of two bytes. *)
LEMMA ReadHalf ==
    ASSUME NEW f \in Bytes, NEW off \in Nat, NEW n \in Nat, n <= 65535,
           At(f, off, Elf32_Half(n))
    PROVE  Num(f, off, 2) = n
<1> DEFINE w == U32(n)
<1>1. f[off + 1] = Octet(w, 0) /\ f[off + 2] = Octet(w, 1)
  <2>1. Len(Elf32_Half(n)) = 2 /\ \A i \in 1..2 : Elf32_Half(n)[i] = Octet(w, i - 1)
    BY WrittenBytes DEF Elf32_Half
  <2>2. \A i \in 1..2 : f[off + i] = Octet(w, i - 1)
    BY <2>1 DEF At
  <2> QED
    BY <2>2
<1>2. Octet(w, 0) = n % 256 /\ Octet(w, 1) = (n \div 256) % 256
  BY OctetsOfNumber, SMT DEF MaxOffset
<1> HIDE DEF w
<1>3. Num(f, off, 2) = f[off + 1] + f[off + 2] * 256
  <2>1. f[off + 1] \in Int /\ f[off + 2] \in Int
    BY <1>1, <1>2
  <2>2. 256^0 = 1 /\ 256^1 = 256
    OBVIOUS
  <2>3. off + 0 + 1 = off + 1 /\ off + 1 + 1 = off + 2
    OBVIOUS
  <2> QED
    BY <2>1, <2>2, <2>3 DEF Num
<1>4. n = (n % 256) + ((n \div 256) % 256) * 256
  OBVIOUS
<1> QED
  BY <1>1, <1>2, <1>3, <1>4

(* Fields of one size in a row. *)
LEMMA RowOfWords ==
    ASSUME NEW S, NEW s \in Seq(S)
    PROVE  /\ Words32(s) \in Bytes /\ Len(Words32(s)) = 4 * Len(s)
           /\ \A k \in 1..Len(s) : At(Words32(s), 4 * (k - 1), Elf32_Word(s[k]))
<1> DEFINE f == [k \in 1..Len(s) |-> Elf32_Word(s[k])]
           p == [i \in 1..(4 * Len(s)) |-> f[(i - 1) \div 4 + 1][((i - 1) % 4) + 1]]
<1>1. Len(s) \in Nat
  BY LenProperties
<1>2. \A k \in 1..Len(s) : f[k] = Elf32_Word(s[k])
  OBVIOUS
<1>3. \A k \in 1..Len(s) : f[k] \in Bytes /\ Len(f[k]) = 4
  BY <1>2, FieldBytes
<1>4. ASSUME NEW i \in 1..(4 * Len(s)) PROVE (i - 1) \div 4 + 1 \in 1..Len(s)
  BY <1>1
<1>5. Words32(s) = p
  BY <1>2, <1>4 DEF Words32, Pack
<1> HIDE DEF f
<1>6. p \in Bytes /\ Len(p) = 4 * Len(s) /\ \A k \in 1..Len(s) : At(p, 4 * (k - 1), f[k])
  BY <1>1, <1>3, PackedParts
<1> QED
  BY <1>2, <1>5, <1>6

(* The same for fields of two bytes. *)
LEMMA RowOfHalves ==
    ASSUME NEW S, NEW s \in Seq(S)
    PROVE  /\ Halves(s) \in Bytes /\ Len(Halves(s)) = 2 * Len(s)
           /\ \A k \in 1..Len(s) : At(Halves(s), 2 * (k - 1), Elf32_Half(s[k]))
<1> DEFINE f == [k \in 1..Len(s) |-> Elf32_Half(s[k])]
           p == [i \in 1..(2 * Len(s)) |-> f[(i - 1) \div 2 + 1][((i - 1) % 2) + 1]]
<1>1. Len(s) \in Nat
  BY LenProperties
<1>2. \A k \in 1..Len(s) : f[k] = Elf32_Half(s[k])
  OBVIOUS
<1>3. \A k \in 1..Len(s) : f[k] \in Bytes /\ Len(f[k]) = 2
  BY <1>2, FieldBytes
<1>4. ASSUME NEW i \in 1..(2 * Len(s)) PROVE (i - 1) \div 2 + 1 \in 1..Len(s)
  BY <1>1
<1>5. Halves(s) = p
  BY <1>2, <1>4 DEF Halves, Pack
<1> HIDE DEF f
<1>6. p \in Bytes /\ Len(p) = 2 * Len(s) /\ \A k \in 1..Len(s) : At(p, 2 * (k - 1), f[k])
  BY <1>1, <1>3, PackedParts
<1> QED
  BY <1>2, <1>5, <1>6

-----------------------------------------------------------------------------
(***************************************************************************)
(* Headers and symbols.                                                    *)
(***************************************************************************)

(* elf.cc lines 13-30: the ELF header is 52 bytes, with its fields at the  *)
(* offsets of the format.                                                  *)
LEMMA EhdrBytes ==
    ASSUME NEW h
    PROVE  LET b == Ehdr_serialize(h)
           IN  /\ b \in Bytes /\ Len(b) = 52 /\ At(b, 0, e_ident)
               /\ At(b, 32, Elf32_Word(h.e_shoff)) /\ At(b, 46, Elf32_Half(SizeofShdr))
               /\ At(b, 48, Elf32_Half(h.e_shnum)) /\ At(b, 50, Elf32_Half(h.e_shstrndx))
<1> DEFINE s1 == <<ET_REL, EM_RISCV>>
           s2 == <<1, 0, 0, h.e_shoff, 0>>
           s3 == <<SizeofEhdr, 0, 0, SizeofShdr, h.e_shnum, h.e_shstrndx>>
           a1 == e_ident \o Halves(s1)
           a2 == a1 \o Words32(s2)
           b == a2 \o Halves(s3)
<1>1. e_ident \in Bytes /\ Len(e_ident) = 16
  BY DEF e_ident, Bytes
<1>2. /\ Halves(s1) \in Bytes /\ Len(Halves(s1)) = 4
  <2>1. s1 \in Seq(Nat) /\ Len(s1) = 2
    BY DEF ET_REL, EM_RISCV
  <2> HIDE DEF s1
  <2>2. Halves(s1) \in Bytes /\ Len(Halves(s1)) = 2 * Len(s1)
    BY <2>1, RowOfHalves
  <2> QED
    BY <2>1, <2>2
<1>3. /\ Words32(s2) \in Bytes /\ Len(Words32(s2)) = 20
      /\ At(Words32(s2), 12, Elf32_Word(h.e_shoff))
  <2>1. s2 \in Seq({0, 1, h.e_shoff}) /\ Len(s2) = 5 /\ s2[4] = h.e_shoff
    OBVIOUS
  <2> HIDE DEF s2
  <2>2. /\ Words32(s2) \in Bytes /\ Len(Words32(s2)) = 4 * Len(s2)
        /\ \A k \in 1..Len(s2) : At(Words32(s2), 4 * (k - 1), Elf32_Word(s2[k]))
    BY <2>1, RowOfWords
  <2>3. At(Words32(s2), 4 * (4 - 1), Elf32_Word(s2[4]))
    BY <2>1, <2>2
  <2> QED
    BY <2>1, <2>2, <2>3
<1>4. /\ Halves(s3) \in Bytes /\ Len(Halves(s3)) = 12
      /\ At(Halves(s3), 6, Elf32_Half(SizeofShdr))
      /\ At(Halves(s3), 8, Elf32_Half(h.e_shnum))
      /\ At(Halves(s3), 10, Elf32_Half(h.e_shstrndx))
  <2>1. /\ s3 \in Seq({0, SizeofEhdr, SizeofShdr, h.e_shnum, h.e_shstrndx}) /\ Len(s3) = 6
        /\ s3[4] = SizeofShdr /\ s3[5] = h.e_shnum /\ s3[6] = h.e_shstrndx
    OBVIOUS
  <2> HIDE DEF s3
  <2>2. /\ Halves(s3) \in Bytes /\ Len(Halves(s3)) = 2 * Len(s3)
        /\ \A k \in 1..Len(s3) : At(Halves(s3), 2 * (k - 1), Elf32_Half(s3[k]))
    BY <2>1, RowOfHalves
  <2>3. /\ At(Halves(s3), 2 * (4 - 1), Elf32_Half(s3[4]))
        /\ At(Halves(s3), 2 * (5 - 1), Elf32_Half(s3[5]))
        /\ At(Halves(s3), 2 * (6 - 1), Elf32_Half(s3[6]))
    BY <2>1, <2>2
  <2> QED
    BY <2>1, <2>2, <2>3
<1> HIDE DEF s1, s2, s3
<1>5. a1 \in Bytes /\ Len(a1) = 20 /\ At(a1, 0, e_ident)
  <2>1. a1 \in Bytes /\ Len(a1) = Len(e_ident) + Len(Halves(s1)) /\ At(a1, 0, e_ident)
    BY <1>1, <1>2, AtConcat
  <2> QED
    BY <1>1, <1>2, <2>1
<1> HIDE DEF a1
<1>6. a2 \in Bytes /\ Len(a2) = 40 /\ At(a2, 0, a1) /\ At(a2, 20, Words32(s2))
  <2>1. /\ a2 \in Bytes /\ Len(a2) = Len(a1) + Len(Words32(s2))
        /\ At(a2, 0, a1) /\ At(a2, Len(a1), Words32(s2))
    BY <1>3, <1>5, AtConcat
  <2> QED
    BY <1>3, <1>5, <2>1
<1> HIDE DEF a2
<1>7. b \in Bytes /\ Len(b) = 52 /\ At(b, 0, a2) /\ At(b, 40, Halves(s3))
  <2>1. /\ b \in Bytes /\ Len(b) = Len(a2) + Len(Halves(s3))
        /\ At(b, 0, a2) /\ At(b, Len(a2), Halves(s3))
    BY <1>4, <1>6, AtConcat
  <2> QED
    BY <1>4, <1>6, <2>1
<1> HIDE DEF b
<1>8. At(b, 0, e_ident)
  <2>1. At(a2, 0 + 0, e_ident)
    BY <1>1, <1>5, <1>6, AtWithin
  <2>2. At(b, 0 + 0, e_ident)
    BY <1>1, <1>6, <1>7, <2>1, AtWithin
  <2> QED
    BY <2>2
<1>9. At(b, 32, Elf32_Word(h.e_shoff))
  <2>1. At(a2, 20 + 12, Elf32_Word(h.e_shoff))
    BY <1>3, <1>6, FieldBytes, AtWithin
  <2>2. At(b, 0 + 32, Elf32_Word(h.e_shoff))
    BY <1>6, <1>7, <2>1, FieldBytes, AtWithin
  <2> QED
    BY <2>2
<1>10. /\ At(b, 40 + 6, Elf32_Half(SizeofShdr)) /\ At(b, 40 + 8, Elf32_Half(h.e_shnum))
       /\ At(b, 40 + 10, Elf32_Half(h.e_shstrndx))
  BY <1>4, <1>7, FieldBytes, AtWithin
<1>11. Ehdr_serialize(h) = b
  BY DEF Ehdr_serialize, b, a2, a1, s1, s2, s3
<1> QED
  BY <1>7, <1>8, <1>9, <1>10, <1>11

(* elf.cc lines 32-44: a section header is 40 bytes, with its fields at    *)
(* the offsets of the format.                                              *)
LEMMA ShdrBytes ==
    ASSUME NEW sh
    PROVE  LET b == Shdr_serialize(sh)
           IN  /\ b \in Bytes /\ Len(b) = 40
               /\ At(b, 0, Elf32_Word(sh.sh_name)) /\ At(b, 4, Elf32_Word(sh.sh_type))
               /\ At(b, 12, Elf32_Word(sh.sh_addr)) /\ At(b, 16, Elf32_Word(sh.sh_offset))
               /\ At(b, 20, Elf32_Word(sh.sh_size)) /\ At(b, 24, Elf32_Word(sh.sh_link))
<1> DEFINE s == <<sh.sh_name, sh.sh_type, sh.sh_flags, sh.sh_addr, sh.sh_offset, sh.sh_size,
                  sh.sh_link, sh.sh_info, sh.sh_addralign, sh.sh_entsize>>
           S == {sh.sh_name, sh.sh_type, sh.sh_flags, sh.sh_addr, sh.sh_offset, sh.sh_size,
                 sh.sh_link, sh.sh_info, sh.sh_addralign, sh.sh_entsize}
<1>1. /\ s \in Seq(S) /\ Len(s) = 10
      /\ s[1] = sh.sh_name /\ s[2] = sh.sh_type /\ s[4] = sh.sh_addr
      /\ s[5] = sh.sh_offset /\ s[6] = sh.sh_size /\ s[7] = sh.sh_link
  OBVIOUS
<1>2. Shdr_serialize(sh) = Words32(s)
  BY DEF Shdr_serialize
<1> HIDE DEF s, S
<1>3. /\ Words32(s) \in Bytes /\ Len(Words32(s)) = 4 * Len(s)
      /\ \A k \in 1..Len(s) : At(Words32(s), 4 * (k - 1), Elf32_Word(s[k]))
  BY <1>1, RowOfWords
<1>4. \A k \in 1..10 : At(Words32(s), 4 * (k - 1), Elf32_Word(s[k]))
  BY <1>1, <1>3
<1>5. /\ At(Words32(s), 4 * (1 - 1), Elf32_Word(s[1])) /\ At(Words32(s), 4 * (2 - 1), Elf32_Word(s[2]))
      /\ At(Words32(s), 4 * (4 - 1), Elf32_Word(s[4])) /\ At(Words32(s), 4 * (5 - 1), Elf32_Word(s[5]))
      /\ At(Words32(s), 4 * (6 - 1), Elf32_Word(s[6])) /\ At(Words32(s), 4 * (7 - 1), Elf32_Word(s[7]))
  BY <1>4
<1> QED
  BY <1>1, <1>2, <1>3, <1>5

(* elf.cc lines 46-54: so is a symbol, in 16 bytes. *)
LEMMA SymBytes ==
    ASSUME NEW s
    PROVE  LET b == Sym_serialize(s)
           IN  /\ b \in Bytes /\ Len(b) = 16
               /\ At(b, 0, Elf32_Word(s.st_name)) /\ At(b, 4, Elf32_Word(s.st_value))
               /\ At(b, 14, Elf32_Half(s.st_shndx))
<1> DEFINE f == <<s.st_name, s.st_value, 0>>
           words == Words32(f)
           info == Byte1(s.st_info)
           other == Byte1(0)
           r1 == info \o other
           half == Elf32_Half(s.st_shndx)
           rest == r1 \o half
           b == Sym_serialize(s)
<1>1. /\ words \in Bytes /\ Len(words) = 12
      /\ At(words, 0, Elf32_Word(s.st_name)) /\ At(words, 4, Elf32_Word(s.st_value))
  <2>1. /\ f \in Seq({s.st_name, s.st_value, 0}) /\ Len(f) = 3
        /\ f[1] = s.st_name /\ f[2] = s.st_value
    OBVIOUS
  <2> HIDE DEF f
  <2>2. /\ Words32(f) \in Bytes /\ Len(Words32(f)) = 4 * Len(f)
        /\ \A k \in 1..Len(f) : At(Words32(f), 4 * (k - 1), Elf32_Word(f[k]))
    BY <2>1, RowOfWords
  <2>3. /\ At(Words32(f), 4 * (1 - 1), Elf32_Word(f[1]))
        /\ At(Words32(f), 4 * (2 - 1), Elf32_Word(f[2]))
    BY <2>1, <2>2
  <2> QED
    BY <2>1, <2>2, <2>3
<1>2. half \in Bytes /\ Len(half) = 2
  BY FieldBytes
<1>3. r1 \in Bytes /\ Len(r1) = 2
  <2>1. info \in Bytes /\ Len(info) = 1 /\ other \in Bytes /\ Len(other) = 1
    BY FieldBytes
  <2> HIDE DEF info, other
  <2>2. r1 \in Bytes /\ Len(r1) = Len(info) + Len(other)
    BY <2>1, AtConcat
  <2> QED
    BY <2>1, <2>2
<1> HIDE DEF r1, half
<1>4. rest \in Bytes /\ Len(rest) = 4 /\ At(rest, 2, half)
  <2>1. rest \in Bytes /\ Len(rest) = Len(r1) + Len(half) /\ At(rest, Len(r1), half)
    BY <1>2, <1>3, AtConcat
  <2> QED
    BY <1>2, <1>3, <2>1
<1>5. b = [i \in 1..16 |-> IF i <= 12 THEN words[i] ELSE rest[i - 12]]
  BY DEF Sym_serialize, r1, half
<1> HIDE DEF words, rest, b
<1>6. b \in [1..16 -> 0..255]
  <2>1. ASSUME NEW i \in 1..12 PROVE words[i] \in 0..255
    BY <1>1, ElementOfSeq DEF Bytes
  <2>2. ASSUME NEW i \in 13..16 PROVE rest[i - 12] \in 0..255
    <3>1. i - 12 \in 1..Len(rest)
      BY <1>4
    <3> QED
      BY <1>4, <3>1, ElementOfSeq DEF Bytes
  <2> QED
    BY <1>5, <2>1, <2>2
<1>7. b \in Bytes /\ Len(b) = 16
  BY <1>6, BytesOfLength
<1>8. At(b, 0, words) /\ At(b, 12, rest)
  <2>1. \A i \in 1..12 : b[0 + i] = words[i]
    BY <1>5
  <2>2. \A i \in 1..4 : b[12 + i] = rest[i]
    BY <1>5
  <2> QED
    BY <1>1, <1>4, <1>7, <2>1, <2>2 DEF At
<1>9. At(b, 0 + 0, Elf32_Word(s.st_name)) /\ At(b, 0 + 4, Elf32_Word(s.st_value))
  BY <1>1, <1>7, <1>8, FieldBytes, AtWithin
<1>10. At(b, 12 + 2, half)
  BY <1>2, <1>4, <1>7, <1>8, AtWithin
<1> QED
  BY <1>7, <1>9, <1>10 DEF b, half

-----------------------------------------------------------------------------
(***************************************************************************)
(* The file write_elf makes of the tables.                                 *)
(***************************************************************************)
Stream == serialize(text, data, strtab, symtab, sh_size)

(* Where each section starts. *)
TextAt     == SizeofEhdr
DataAt     == TextAt + SizeofInsn * Len(text)
StrtabAt   == DataAt + Len(data)
ShstrtabAt == StrtabAt + Len(strtab)
SymtabAt   == ShstrtabAt + Len(shstrtab)
HeadersAt  == SymtabAt + SizeofSym * Len(symtab)
StreamEnd  == HeadersAt + 6 * SizeofShdr

TextBytes == Pack(LAMBDA w : write(w, 4, LE), 4, text)
SymtabBytes == Pack(Sym_serialize, 16, symtab)

(* The headers as they are written. *)
HeaderAt(sh, offset, size) == [sh EXCEPT !.sh_offset = offset, !.sh_size = size]
Headers ==
    <<section_headers[1],
      HeaderAt(section_headers[2], StrtabAt, Len(strtab)),
      HeaderAt(section_headers[3], ShstrtabAt, Len(shstrtab)),
      HeaderAt(section_headers[4], SymtabAt, SizeofSym * Len(symtab)),
      HeaderAt(section_headers[5], TextAt, sh_size.text),
      HeaderAt(section_headers[6], DataAt, sh_size.data)>>
HeaderBytes == Pack(Shdr_serialize, 40, Headers)
FileHeader == [e_shoff |-> HeadersAt, e_shnum |-> 6, e_shstrndx |-> 2]

(* text.cc lines 21-27: four bytes for each instruction. *)
LEMMA TextPacked ==
    ASSUME TablesOK
    PROVE  /\ TextBytes \in Bytes /\ Len(TextBytes) = 4 * Len(text)
           /\ \A k \in 1..Len(text) : At(TextBytes, 4 * (k - 1), write(text[k], 4, LE))
<1> DEFINE f == [k \in 1..Len(text) |-> write(text[k], 4, LE)]
           p == [i \in 1..(4 * Len(text)) |-> f[(i - 1) \div 4 + 1][((i - 1) % 4) + 1]]
<1>1. Len(text) \in Nat
  BY LenProperties DEF TablesOK
<1>2. \A k \in 1..Len(text) : f[k] = write(text[k], 4, LE)
  OBVIOUS
<1>3. \A k \in 1..Len(text) : f[k] \in Bytes /\ Len(f[k]) = 4
  BY <1>2, WrittenBytes
<1>4. ASSUME NEW i \in 1..(4 * Len(text)) PROVE (i - 1) \div 4 + 1 \in 1..Len(text)
  BY <1>1
<1>5. TextBytes = p
  BY <1>2, <1>4 DEF TextBytes, Pack
<1> HIDE DEF f
<1>6. p \in Bytes /\ Len(p) = 4 * Len(text) /\ \A k \in 1..Len(text) : At(p, 4 * (k - 1), f[k])
  BY <1>1, <1>3, PackedParts
<1> QED
  BY <1>2, <1>5, <1>6

(* symtab.cc lines 14-25: sixteen bytes for each symbol. *)
LEMMA SymtabPacked ==
    ASSUME TablesOK
    PROVE  /\ SymtabBytes \in Bytes /\ Len(SymtabBytes) = 16 * Len(symtab)
           /\ \A k \in 1..Len(symtab) : At(SymtabBytes, 16 * (k - 1), Sym_serialize(symtab[k]))
<1> DEFINE f == [k \in 1..Len(symtab) |-> Sym_serialize(symtab[k])]
           p == [i \in 1..(16 * Len(symtab)) |-> f[(i - 1) \div 16 + 1][((i - 1) % 16) + 1]]
<1>1. Len(symtab) \in Nat
  BY LenProperties DEF TablesOK
<1>2. \A k \in 1..Len(symtab) : f[k] = Sym_serialize(symtab[k])
  OBVIOUS
<1>3. \A k \in 1..Len(symtab) : f[k] \in Bytes /\ Len(f[k]) = 16
  BY <1>2, SymBytes
<1>4. ASSUME NEW i \in 1..(16 * Len(symtab)) PROVE (i - 1) \div 16 + 1 \in 1..Len(symtab)
  BY <1>1
<1>5. SymtabBytes = p
  BY <1>2, <1>4 DEF SymtabBytes, Pack
<1> HIDE DEF f
<1>6. /\ p \in Bytes /\ Len(p) = 16 * Len(symtab)
      /\ \A k \in 1..Len(symtab) : At(p, 16 * (k - 1), f[k])
  BY <1>1, <1>3, PackedParts
<1> QED
  BY <1>2, <1>5, <1>6

(* Forty bytes for each section header. *)
LEMMA HeadersPacked ==
    ASSUME NEW S, NEW hs \in Seq(S)
    PROVE  LET p == Pack(Shdr_serialize, 40, hs)
           IN  /\ p \in Bytes /\ Len(p) = 40 * Len(hs)
               /\ \A k \in 1..Len(hs) : At(p, 40 * (k - 1), Shdr_serialize(hs[k]))
<1> DEFINE f == [k \in 1..Len(hs) |-> Shdr_serialize(hs[k])]
           p == [i \in 1..(40 * Len(hs)) |-> f[(i - 1) \div 40 + 1][((i - 1) % 40) + 1]]
<1>1. Len(hs) \in Nat
  BY LenProperties
<1>2. \A k \in 1..Len(hs) : f[k] = Shdr_serialize(hs[k])
  OBVIOUS
<1>3. \A k \in 1..Len(hs) : f[k] \in Bytes /\ Len(f[k]) = 40
  BY <1>2, ShdrBytes
<1>4. ASSUME NEW i \in 1..(40 * Len(hs)) PROVE (i - 1) \div 40 + 1 \in 1..Len(hs)
  BY <1>1
<1>5. Pack(Shdr_serialize, 40, hs) = p
  BY <1>2, <1>4 DEF Pack
<1> HIDE DEF f
<1>6. /\ p \in Bytes /\ Len(p) = 40 * Len(hs)
      /\ \A k \in 1..Len(hs) : At(p, 40 * (k - 1), f[k])
  BY <1>1, <1>3, PackedParts
<1> QED
  BY <1>2, <1>5, <1>6

(* The ELF header is written a second time, over the first. *)
LEMMA HeaderRewritten ==
    ASSUME NEW e \in Bytes, Len(e) = 52, NEW f \in Bytes, Len(f) >= 52
    PROVE  LET g == e \o SubSeq(f, 53, Len(f))
           IN  /\ g \in Bytes /\ Len(g) = Len(f) /\ At(g, 0, e)
               /\ \A off \in Nat, s \in Bytes : off >= 52 /\ At(f, off, s) => At(g, off, s)
<1> DEFINE r == SubSeq(f, 53, Len(f))
           g == e \o r
<1>1. Len(f) \in Nat
  BY LenProperties DEF Bytes
<1>2. /\ r \in Bytes /\ Len(r) = Len(f) - 52
      /\ \A i \in 1..(Len(f) - 53 + 1) : r[i] = f[53 + i - 1]
  <2>0. r = SubSeq(f, 53, Len(f))
    OBVIOUS
  <2>1. \A i \in 53..Len(f) : f[i] \in 0..255
    BY <1>1, ElementOfSeq DEF Bytes
  <2>2. 53 \in Int /\ Len(f) \in Int
    BY <1>1
  <2> HIDE DEF r
  <2>3. /\ r \in Bytes /\ Len(r) = IF 53 <= Len(f) THEN Len(f) - 53 + 1 ELSE 0
        /\ \A i \in 1..(Len(f) - 53 + 1) : r[i] = f[53 + i - 1]
    BY <2>0, <2>1, <2>2, SubSeqProperties DEF Bytes
  <2>4. Len(r) = Len(f) - 52
    <3> DEFINE m == Len(f)   n == Len(r)
    <3>1. m \in Nat /\ m >= 52 /\ n = IF 53 <= m THEN m - 53 + 1 ELSE 0
      BY <1>1, <2>3
    <3> HIDE DEF m, n
    <3>2. n = m - 52
      BY <3>1
    <3> QED
      BY <3>2 DEF m, n
  <2> QED
    BY <2>3, <2>4
<1> HIDE DEF r
<1>3. g \in Bytes /\ Len(g) = Len(e) + Len(r) /\ At(g, 0, e) /\ At(g, Len(e), r)
  BY <1>2, AtConcat
<1> HIDE DEF g
<1>4. Len(g) = Len(f)
  BY <1>1, <1>2, <1>3
<1>5. ASSUME NEW i \in 53..Len(f) PROVE g[i] = f[i]
  <2>1. i - 52 \in 1..(Len(f) - 53 + 1) /\ i - 52 \in 1..Len(r) /\ 52 + (i - 52) = i
        /\ 53 + (i - 52) - 1 = i
    BY <1>1, <1>2
  <2>2. g[52 + (i - 52)] = r[i - 52] /\ r[i - 52] = f[53 + (i - 52) - 1]
    BY <1>2, <1>3, <2>1 DEF At
  <2> QED
    BY <2>1, <2>2
<1>6. ASSUME NEW off \in Nat, NEW s \in Bytes, off >= 52, At(f, off, s) PROVE At(g, off, s)
  <2>1. Len(s) \in Nat
    BY LenProperties DEF Bytes
  <2>2. ASSUME NEW i \in 1..Len(s) PROVE g[off + i] = s[i]
    <3>1. off + i \in 53..Len(f)
      BY <1>1, <1>6, <2>1 DEF At
    <3> QED
      BY <1>5, <1>6, <3>1 DEF At
  <2> QED
    BY <1>4, <1>6, <2>2 DEF At
<1> QED
  BY <1>3, <1>4, <1>6 DEF g, r

(* The headers the constructor makes, in their order. *)
LEMMA SectionHeaders ==
    section_headers = <<init_section_headers,
                        Shdr(store_section_name(".strtab"), SHT_STRTAB, 0),
                        Shdr(store_section_name(".shstrtab"), SHT_STRTAB, 0),
                        init_symtab, init_text_section, init_data_section>>
<1> DEFINE a == init_section_headers
           b == Shdr(store_section_name(".strtab"), SHT_STRTAB, 0)
           c == Shdr(store_section_name(".shstrtab"), SHT_STRTAB, 0)
           d == init_symtab
           e == init_text_section
           f == init_data_section
<1>1. section_headers = <<a>> \o <<b, c>> \o <<d, e, f>>
  BY DEF section_headers, init_strtables
<1> HIDE DEF a, b, c, d, e, f
<1>2. <<a>> \o <<b, c>> \o <<d, e, f>> = <<a, b, c, d, e, f>>
  <2> DEFINE S == {a, b, c, d, e, f}
             x == <<a>>   y == <<b, c>>   z == <<d, e, f>>   w == <<a, b, c, d, e, f>>
             u == x \o y  v == u \o z
  <2>1. /\ x \in Seq(S) /\ Len(x) = 1 /\ x[1] = a
        /\ y \in Seq(S) /\ Len(y) = 2 /\ y[1] = b /\ y[2] = c
        /\ z \in Seq(S) /\ Len(z) = 3 /\ z[1] = d /\ z[2] = e /\ z[3] = f
    OBVIOUS
  <2>2. /\ w \in Seq(S) /\ Len(w) = 6 /\ w[1] = a /\ w[2] = b /\ w[3] = c
        /\ w[4] = d /\ w[5] = e /\ w[6] = f
    OBVIOUS
  <2> HIDE DEF S, x, y, z, w
  <2>3. /\ u \in Seq(S) /\ Len(u) = Len(x) + Len(y)
        /\ \A i \in 1..(Len(x) + Len(y)) : u[i] = IF i <= Len(x) THEN x[i] ELSE y[i - Len(x)]
    BY <2>1, ConcatProperties
  <2> HIDE DEF u
  <2>4. u \in Seq(S) /\ Len(u) = 3 /\ u[1] = a /\ u[2] = b /\ u[3] = c
    BY <2>1, <2>3
  <2>5. /\ v \in Seq(S) /\ Len(v) = Len(u) + Len(z)
        /\ \A i \in 1..(Len(u) + Len(z)) : v[i] = IF i <= Len(u) THEN u[i] ELSE z[i - Len(u)]
    BY <2>1, <2>4, ConcatProperties
  <2> HIDE DEF v
  <2>6. /\ v \in Seq(S) /\ Len(v) = 6 /\ v[1] = a /\ v[2] = b /\ v[3] = c
        /\ v[4] = d /\ v[5] = e /\ v[6] = f
    BY <2>1, <2>4, <2>5
  <2>7. \A i \in 1..6 : v[i] = w[i]
    BY <2>2, <2>6
  <2>8. v = w
    BY <2>2, <2>6, <2>7, SeqEqual
  <2> QED
    BY <2>8 DEF v, u, w, x, y, z
<1> QED
  BY <1>1, <1>2 DEF a, b, c, d, e, f

(* elf.cc lines 434-499: every part of the stream is where the headers say *)
(* it starts, and writing the ELF header again disturbs none of them.      *)
LEMMA StreamLayout ==
    ASSUME TablesOK, shstrtab \in Bytes
    PROVE  /\ Stream \in Bytes /\ Len(Stream) = StreamEnd
           /\ At(Stream, 0, Ehdr_serialize(FileHeader))
           /\ At(Stream, TextAt, TextBytes) /\ At(Stream, DataAt, data)
           /\ At(Stream, StrtabAt, strtab) /\ At(Stream, ShstrtabAt, shstrtab)
           /\ At(Stream, SymtabAt, SymtabBytes) /\ At(Stream, HeadersAt, HeaderBytes)
           /\ HeaderBytes \in Bytes /\ Len(HeaderBytes) = 240
           /\ \A i \in 1..6 : At(HeaderBytes, 40 * (i - 1), Shdr_serialize(Headers[i]))
           /\ \A i \in 1..6 : At(Stream, HeadersAt + 40 * (i - 1), Shdr_serialize(Headers[i]))
<1> DEFINE os1 == Ehdr_serialize(init_elf_header)
           os2 == os1 \o TextBytes
           os3 == os2 \o data
           os4 == os3 \o strtab
           os5 == os4 \o shstrtab
           os6 == os5 \o SymtabBytes
           hs == HeaderBytes
           os7 == os6 \o hs
           e == Ehdr_serialize(FileHeader)
<1>1. /\ data \in Bytes /\ strtab \in Bytes
      /\ Len(text) \in Nat /\ Len(data) \in Nat /\ Len(strtab) \in Nat
      /\ Len(shstrtab) \in Nat /\ Len(symtab) \in Nat
  BY LenProperties DEF TablesOK, Bytes
<1>2. /\ TextBytes \in Bytes /\ Len(TextBytes) = 4 * Len(text)
      /\ SymtabBytes \in Bytes /\ Len(SymtabBytes) = 16 * Len(symtab)
  BY TextPacked, SymtabPacked
<1>3. e \in Bytes /\ Len(e) = 52 /\ os1 \in Bytes /\ Len(os1) = 52
  BY EhdrBytes
<1>4. /\ hs \in Bytes /\ Len(hs) = 240
      /\ \A k \in 1..6 : At(hs, 40 * (k - 1), Shdr_serialize(Headers[k]))
  <2>1. Headers \in Seq({Headers[1], Headers[2], Headers[3], Headers[4], Headers[5], Headers[6]})
        /\ Len(Headers) = 6
    BY DEF Headers
  <2>2. /\ hs \in Bytes /\ Len(hs) = 40 * Len(Headers)
        /\ \A k \in 1..Len(Headers) : At(hs, 40 * (k - 1), Shdr_serialize(Headers[k]))
    BY <2>1, HeadersPacked DEF HeaderBytes
  <2> HIDE DEF hs
  <2> QED
    BY <2>1, <2>2
<1> HIDE DEF e, os1, hs
<1>5. os2 \in Bytes /\ Len(os2) = Len(os1) + Len(TextBytes) /\ At(os2, Len(os1), TextBytes)
  BY <1>2, <1>3, AtConcat
<1> HIDE DEF os2
<1>6. os3 \in Bytes /\ Len(os3) = Len(os2) + Len(data) /\ At(os3, Len(os2), data) /\ At(os3, 0, os2)
  BY <1>1, <1>5, AtConcat
<1> HIDE DEF os3
<1>7. os4 \in Bytes /\ Len(os4) = Len(os3) + Len(strtab) /\ At(os4, Len(os3), strtab) /\ At(os4, 0, os3)
  BY <1>1, <1>6, AtConcat
<1> HIDE DEF os4
<1>8. /\ os5 \in Bytes /\ Len(os5) = Len(os4) + Len(shstrtab)
      /\ At(os5, Len(os4), shstrtab) /\ At(os5, 0, os4)
  BY <1>7, AtConcat
<1> HIDE DEF os5
<1>9. /\ os6 \in Bytes /\ Len(os6) = Len(os5) + Len(SymtabBytes)
      /\ At(os6, Len(os5), SymtabBytes) /\ At(os6, 0, os5)
  BY <1>2, <1>8, AtConcat
<1> HIDE DEF os6
<1>10. os7 \in Bytes /\ Len(os7) = Len(os6) + Len(hs) /\ At(os7, Len(os6), hs) /\ At(os7, 0, os6)
  BY <1>4, <1>9, AtConcat
<1> HIDE DEF os7
<1>11. /\ Len(os1) = TextAt /\ Len(os2) = DataAt /\ Len(os3) = StrtabAt /\ Len(os4) = ShstrtabAt
       /\ Len(os5) = SymtabAt /\ Len(os6) = HeadersAt /\ Len(os7) = StreamEnd
  <2>1. Len(os1) = TextAt
    BY <1>3 DEF TextAt, SizeofEhdr
  <2>2. Len(os2) = DataAt
    BY <1>1, <1>2, <1>5, <2>1 DEF DataAt, SizeofInsn
  <2>3. Len(os3) = StrtabAt /\ Len(os4) = ShstrtabAt
    BY <1>6, <1>7, <2>2 DEF StrtabAt, ShstrtabAt
  <2>4. Len(os5) = SymtabAt
    BY <1>8, <2>3 DEF SymtabAt
  <2>5. Len(os6) = HeadersAt
    BY <1>1, <1>2, <1>9, <2>4 DEF HeadersAt, SizeofSym
  <2>6. Len(os7) = StreamEnd
    BY <1>4, <1>10, <2>5 DEF StreamEnd, SizeofShdr
  <2> QED
    BY <2>1, <2>2, <2>3, <2>4, <2>5, <2>6
<1>12. /\ TextAt \in Nat /\ DataAt \in Nat /\ StrtabAt \in Nat /\ ShstrtabAt \in Nat
       /\ SymtabAt \in Nat /\ HeadersAt \in Nat /\ StreamEnd \in Nat
       /\ TextAt >= 52 /\ DataAt >= 52 /\ StrtabAt >= 52 /\ ShstrtabAt >= 52
       /\ SymtabAt >= 52 /\ HeadersAt >= 52 /\ StreamEnd >= 52
  BY <1>1 DEF TextAt, DataAt, StrtabAt, ShstrtabAt, SymtabAt, HeadersAt, StreamEnd, SizeofEhdr,
              SizeofInsn, SizeofSym, SizeofShdr
<1> DEFINE Stays(off, x) == /\ At(os2, off, x) => At(os3, off, x)
                            /\ At(os3, off, x) => At(os4, off, x)
                            /\ At(os4, off, x) => At(os5, off, x)
                            /\ At(os5, off, x) => At(os6, off, x)
                            /\ At(os6, off, x) => At(os7, off, x)
<1>13. ASSUME NEW off \in Nat, NEW x \in Bytes PROVE Stays(off, x)
  <2>1. 0 + off = off
    OBVIOUS
  <2>2. /\ At(os2, off, x) => At(os3, 0 + off, x)
        /\ At(os3, off, x) => At(os4, 0 + off, x)
        /\ At(os4, off, x) => At(os5, 0 + off, x)
    BY <1>5, <1>6, <1>7, <1>8, AtWithin
  <2>3. /\ At(os5, off, x) => At(os6, 0 + off, x)
        /\ At(os6, off, x) => At(os7, 0 + off, x)
    BY <1>8, <1>9, <1>10, AtWithin
  <2> QED
    BY <2>1, <2>2, <2>3
<1>14. At(os7, TextAt, TextBytes)
  BY <1>2, <1>5, <1>11, <1>12, <1>13
<1>15. At(os7, DataAt, data)
  BY <1>1, <1>6, <1>11, <1>12, <1>13
<1>16. At(os7, StrtabAt, strtab)
  BY <1>1, <1>7, <1>11, <1>12, <1>13
<1>17. At(os7, ShstrtabAt, shstrtab)
  BY <1>8, <1>11, <1>12, <1>13
<1>18. At(os7, SymtabAt, SymtabBytes)
  BY <1>2, <1>9, <1>11, <1>12, <1>13
<1>19. ASSUME NEW i \in 1..6 PROVE At(os7, HeadersAt + 40 * (i - 1), Shdr_serialize(Headers[i]))
  <2>1. 40 * (i - 1) \in Nat
    OBVIOUS
  <2>2. Shdr_serialize(Headers[i]) \in Bytes
    BY ShdrBytes
  <2> QED
    BY <1>4, <1>10, <1>11, <1>12, <2>1, <2>2, AtWithin
<1>20. Stream = e \o SubSeq(os7, 53, Len(os7))
  <2>1. /\ os1 = Ehdr_serialize(init_elf_header) /\ os2 = Text_serialize(os1, text)
        /\ os3 = Data_serialize(os2, data) /\ os4 = StringTable_serialize(os3, strtab)
        /\ os5 = StringTable_serialize(os4, shstrtab) /\ os6 = Symtab_serialize(os5, symtab)
    BY DEF os1, os2, os3, os4, os5, os6, Text_serialize, Data_serialize, StringTable_serialize,
           Symtab_serialize, TextBytes, SymtabBytes
  <2>2. Headers = <<section_headers[1],
                    Placed(section_headers[2], os3, Len(strtab)),
                    Placed(section_headers[3], os4, Len(shstrtab)),
                    Placed(section_headers[4], os5, section_headers[4].sh_entsize * Len(symtab)),
                    Placed(section_headers[5], os1, sh_size.text),
                    Placed(section_headers[6], os2, sh_size.data)>>
    <3>1. section_headers[4].sh_entsize = SizeofSym
      BY SectionHeaders DEF init_symtab, Shdr, SizeofSym
    <3> QED
      BY <1>11, <3>1 DEF Headers, HeaderAt, Placed
  <2>3. FileHeader = [e_shoff |-> Len(os6), e_shnum |-> Len(Headers), e_shstrndx |-> header_shstrtab]
    <3>1. Len(Headers) = 6
      BY DEF Headers
    <3> QED
      BY <1>11, <3>1 DEF FileHeader, header_shstrtab
  <2>4. os7 = os6 \o Pack(Shdr_serialize, SizeofShdr, Headers) /\ SizeofEhdr + 1 = 53
    BY DEF os7, hs, HeaderBytes, SizeofShdr, SizeofEhdr
  <2>5. e = Ehdr_serialize(FileHeader)
    BY DEF e
  <2> QED
    BY <2>1, <2>2, <2>3, <2>4, <2>5, Zenon DEF Stream, serialize
<1>21. Len(os7) >= 52
  BY <1>11, <1>12
<1>22. /\ Stream \in Bytes /\ Len(Stream) = Len(os7) /\ At(Stream, 0, e)
       /\ \A off \in Nat, s \in Bytes : off >= 52 /\ At(os7, off, s) => At(Stream, off, s)
  BY <1>3, <1>10, <1>20, <1>21, HeaderRewritten
<1>23. /\ At(Stream, TextAt, TextBytes) /\ At(Stream, DataAt, data) /\ At(Stream, StrtabAt, strtab)
       /\ At(Stream, ShstrtabAt, shstrtab) /\ At(Stream, SymtabAt, SymtabBytes)
       /\ At(Stream, HeadersAt, hs)
  BY <1>1, <1>2, <1>4, <1>10, <1>11, <1>12, <1>14, <1>15, <1>16, <1>17, <1>18, <1>22
<1>24. ASSUME NEW i \in 1..6 PROVE At(Stream, HeadersAt + 40 * (i - 1), Shdr_serialize(Headers[i]))
  <2>1. HeadersAt + 40 * (i - 1) \in Nat /\ HeadersAt + 40 * (i - 1) >= 52
    BY <1>12
  <2>2. Shdr_serialize(Headers[i]) \in Bytes
    BY ShdrBytes
  <2> QED
    BY <1>19, <1>22, <2>1, <2>2
<1> QED
  BY <1>4, <1>11, <1>22, <1>23, <1>24 DEF e, hs

-----------------------------------------------------------------------------
(***************************************************************************)
(* The names of the sections.                                              *)
(***************************************************************************)

(* The string table of the assembler, for what is proved of string tables. *)
Strings == INSTANCE StringTableProofs
             WITH String <- Names, Chars <- Chars, data <- strtab, sh_size <- sh_size.strtab,
                  stored <- {<<symtab[k].st_name, symtab[k].name>> : k \in 2..Len(symtab)}

(* The five names and their bytes. *)
LEMMA SectionChars ==
    /\ ToSet(section_names) = {".shstrtab", ".strtab", ".symtab", ".text", ".data"}
    /\ section_chars[".shstrtab"] = <<46, 115, 104, 115, 116, 114, 116, 97, 98>>
    /\ section_chars[".strtab"] = <<46, 115, 116, 114, 116, 97, 98>>
    /\ section_chars[".symtab"] = <<46, 115, 121, 109, 116, 97, 98>>
    /\ section_chars[".text"] = <<46, 116, 101, 120, 116>>
    /\ section_chars[".data"] = <<46, 100, 97, 116, 97>>
<1>1. ToSet(section_names) = {".shstrtab", ".strtab", ".symtab", ".text", ".data"}
  <2>1. DOMAIN section_names = {1, 2, 3, 4, 5}
    BY DEF section_names
  <2> QED
    BY <2>1 DEF section_names, ToSet
<1> QED
  BY <1>1 DEF section_chars

(* No name has a NUL in it, and .text and .data are none of the others. *)
LEMMA SectionCharsDiffer ==
    /\ section_chars[".shstrtab"] \in Seq(1..255) /\ section_chars[".strtab"] \in Seq(1..255)
    /\ section_chars[".symtab"] \in Seq(1..255) /\ section_chars[".text"] \in Seq(1..255)
    /\ section_chars[".data"] \in Seq(1..255)
    /\ section_chars[".shstrtab"] # section_chars[".text"]
    /\ section_chars[".strtab"] # section_chars[".text"]
    /\ section_chars[".symtab"] # section_chars[".text"]
    /\ section_chars[".data"] # section_chars[".text"]
    /\ <<>> # section_chars[".text"] /\ BadName # section_chars[".text"]
    /\ section_chars[".shstrtab"] # section_chars[".data"]
    /\ section_chars[".strtab"] # section_chars[".data"]
    /\ section_chars[".symtab"] # section_chars[".data"] /\ <<>> # section_chars[".data"]
<1>1. /\ section_chars[".shstrtab"] \in Seq(1..255) /\ section_chars[".shstrtab"][2] = 115
  BY SectionChars
<1>2. /\ section_chars[".strtab"] \in Seq(1..255) /\ section_chars[".strtab"][2] = 115
  BY SectionChars
<1>3. /\ section_chars[".symtab"] \in Seq(1..255) /\ section_chars[".symtab"][2] = 115
  BY SectionChars
<1>4. /\ section_chars[".text"] \in Seq(1..255) /\ section_chars[".text"][2] = 116
      /\ Len(section_chars[".text"]) = 5
  BY SectionChars
<1>5. /\ section_chars[".data"] \in Seq(1..255) /\ section_chars[".data"][2] = 100
      /\ Len(section_chars[".data"]) = 5
  BY SectionChars
<1>6. BadName[2] = 98 /\ Len(<<>>) = 0
  BY DEF BadName
<1> QED
  BY <1>1, <1>2, <1>3, <1>4, <1>5, <1>6

(* What the constructor stores, name after name. *)
LEMMA NamesStoredInTurn ==
    LET t == shstrtab_after
        Added(n, name) == t[n] = Strings!add_string_data(t[n - 1], section_chars[name])
    IN  /\ t[0] = <<0>> /\ shstrtab = t[5]
        /\ Added(1, ".shstrtab") /\ Added(2, ".strtab") /\ Added(3, ".symtab")
        /\ Added(4, ".text") /\ Added(5, ".data")
<1> DEFINE add(t, n) == Table!add_string_data(t, section_chars[section_names[n]])
           t0 == <<0>>
           t1 == add(t0, 1)
           t2 == add(t1, 2)
           t3 == add(t2, 3)
           t4 == add(t3, 4)
           t5 == add(t4, 5)
           g == [n \in 0..5 |-> CASE n = 0 -> t0 [] n = 1 -> t1 [] n = 2 -> t2
                                  [] n = 3 -> t3 [] n = 4 -> t4 [] n = 5 -> t5]
<1>1. Len(section_names) = 5
  BY DEF section_names
<1>2. g = [n \in 0..5 |-> IF n = 0 THEN <<0>> ELSE add(g[n - 1], n)]
  <2> HIDE DEF add
  <2>1. ASSUME NEW n \in 0..5 PROVE g[n] = IF n = 0 THEN <<0>> ELSE add(g[n - 1], n)
    <3>1. n = 0 \/ n = 1 \/ n = 2 \/ n = 3 \/ n = 4 \/ n = 5
      OBVIOUS
    <3>2. g[0] = t0 /\ g[1] = t1 /\ g[2] = t2 /\ g[3] = t3 /\ g[4] = t4 /\ g[5] = t5
      OBVIOUS
    <3> HIDE DEF g
    <3> QED
      BY <3>1, <3>2
  <2>2. DOMAIN g = 0..5 /\ g = [n \in 0..5 |-> g[n]]
    OBVIOUS
  <2> HIDE DEF g
  <2> QED
    BY <2>1, <2>2
<1> HIDE DEF g
<1>3. shstrtab_after = [n \in 0..5 |-> IF n = 0 THEN <<0>> ELSE add(shstrtab_after[n - 1], n)]
  BY <1>1, <1>2 DEF shstrtab_after
<1> HIDE DEF add
<1>4. \A n \in 0..5 : shstrtab_after[n] = IF n = 0 THEN <<0>> ELSE add(shstrtab_after[n - 1], n)
  BY <1>3
<1>5. /\ shstrtab_after[0] = <<0>> /\ \A n \in 1..5 : shstrtab_after[n] = add(shstrtab_after[n - 1], n)
  BY <1>4
<1>6. /\ section_names[1] = ".shstrtab" /\ section_names[2] = ".strtab" /\ section_names[3] = ".symtab"
      /\ section_names[4] = ".text" /\ section_names[5] = ".data"
  BY DEF section_names
<1>7. \A t, n : add(t, n) = Strings!add_string_data(t, section_chars[section_names[n]])
  <2>1. ASSUME NEW t, NEW str PROVE Table!add_string_data(t, str) = Strings!add_string_data(t, str)
    BY DEF Table!add_string_data, Strings!add_string_data, Table!NUL, Strings!NUL
  <2> QED
    BY <2>1, Zenon DEF add
<1>8. shstrtab = shstrtab_after[5]
  BY <1>1 DEF shstrtab
<1> QED
  BY <1>5, <1>6, <1>7, <1>8

(* The offset a name was stored at. *)
LEMMA NameOffsets ==
    LET Off(n) == Strings!add_string_offset(shstrtab_after[n - 1])
    IN  /\ store_section_name(".shstrtab") = Off(1) /\ store_section_name(".strtab") = Off(2)
        /\ store_section_name(".symtab") = Off(3) /\ store_section_name(".text") = Off(4)
        /\ store_section_name(".data") = Off(5)
<1>1. Len(section_names) = 5
  BY DEF section_names
<1>2. /\ section_names[1] = ".shstrtab" /\ section_names[2] = ".strtab" /\ section_names[3] = ".symtab"
      /\ section_names[4] = ".text" /\ section_names[5] = ".data"
  BY DEF section_names
<1>3. \A d : Table!add_string_offset(d) = Strings!add_string_offset(d)
  BY DEF Table!add_string_offset, Strings!add_string_offset
<1> DEFINE N(name) == CHOOSE k \in 1..Len(section_names) : section_names[k] = name
<1>4. N(".shstrtab") = 1 /\ N(".strtab") = 2 /\ N(".symtab") = 3 /\ N(".text") = 4 /\ N(".data") = 5
  <2>1. ASSUME NEW k \in 1..5 PROVE k = 1 \/ k = 2 \/ k = 3 \/ k = 4 \/ k = 5
    OBVIOUS
  <2>2. 1 \in 1..5 /\ 2 \in 1..5 /\ 3 \in 1..5 /\ 4 \in 1..5 /\ 5 \in 1..5
    OBVIOUS
  <2> QED
    BY <1>1, <1>2, <2>1, <2>2
<1>5. \A name : store_section_name(name) = Strings!add_string_offset(shstrtab_after[N(name) - 1])
  BY <1>3 DEF store_section_name
<1> HIDE DEF N
<1> QED
  BY <1>4, <1>5

(* A name can be read: str and a NUL are at offset off of tab. *)
ReadableAt(tab, off, str) == off \in Nat /\ Strings!HoldsAt(tab, off, str)

(* elf.cc lines 113, 138: every section has its name in .shstrtab, and     *)
(* offset 0 is the empty name.                                             *)
LEMMA SectionNamesStored ==
    /\ shstrtab \in Bytes /\ Len(shstrtab) > 0 /\ shstrtab[1] = 0
    /\ \A name \in {".shstrtab", ".strtab", ".symtab", ".text", ".data"} :
          ReadableAt(shstrtab, store_section_name(name), section_chars[name])
<1> DEFINE t == shstrtab_after
           Good(d) == d \in Seq(0..255) /\ Len(d) > 0 /\ d[1] = 0 /\ d[Len(d)] = 0
           Inside(d, o, s) == Strings!HoldsAt(d, o, s) /\ o + Len(s) + 1 < Len(d)
<1>1. ASSUME NEW d, Good(d), NEW str \in Seq(1..255)
      PROVE  LET r == Strings!add_string_data(d, str)
                 off == Strings!add_string_offset(d)
             IN  /\ Good(r) /\ off \in Nat /\ Inside(r, off, str)
                 /\ \A o \in Nat, s \in Seq(1..255) : Inside(d, o, s) => Inside(r, o, s)
  <2>1. Strings!Kept(d, Strings!add_string_data(d, str), Strings!add_string_offset(d), str)
    BY <1>1, Strings!AddStringKeeps, CharsAssumption DEF Strings!Byte, Strings!NUL
  <2> QED
    BY <2>1 DEF Strings!Kept, Strings!Byte, Strings!NUL
<1> DEFINE c1 == section_chars[".shstrtab"]  o1 == store_section_name(".shstrtab")
           c2 == section_chars[".strtab"]    o2 == store_section_name(".strtab")
           c3 == section_chars[".symtab"]    o3 == store_section_name(".symtab")
           c4 == section_chars[".text"]      o4 == store_section_name(".text")
           c5 == section_chars[".data"]      o5 == store_section_name(".data")
<1>2. /\ c1 \in Seq(1..255) /\ c2 \in Seq(1..255) /\ c3 \in Seq(1..255)
      /\ c4 \in Seq(1..255) /\ c5 \in Seq(1..255)
  BY SectionCharsDiffer
<1>3. Good(t[0])
  BY NamesStoredInTurn
<1>4. /\ t[0 + 1] = Strings!add_string_data(t[0], c1) /\ t[1 + 1] = Strings!add_string_data(t[1], c2)
      /\ t[2 + 1] = Strings!add_string_data(t[2], c3) /\ t[3 + 1] = Strings!add_string_data(t[3], c4)
      /\ t[4 + 1] = Strings!add_string_data(t[4], c5) /\ shstrtab = t[5]
  BY NamesStoredInTurn
<1>5. /\ o1 = Strings!add_string_offset(t[0]) /\ o2 = Strings!add_string_offset(t[1])
      /\ o3 = Strings!add_string_offset(t[2]) /\ o4 = Strings!add_string_offset(t[3])
      /\ o5 = Strings!add_string_offset(t[4])
  BY NameOffsets
<1> HIDE DEF t, Good, Inside, c1, c2, c3, c4, c5, o1, o2, o3, o4, o5
<1>6. Good(t[1]) /\ o1 \in Nat /\ Inside(t[1], o1, c1)
  BY <1>1, <1>2, <1>3, <1>4, <1>5
<1>7. Good(t[2]) /\ o2 \in Nat /\ Inside(t[2], o2, c2) /\ Inside(t[2], o1, c1)
  BY <1>1, <1>2, <1>4, <1>5, <1>6
<1>8. /\ Good(t[3]) /\ o3 \in Nat /\ Inside(t[3], o3, c3)
      /\ Inside(t[3], o2, c2) /\ Inside(t[3], o1, c1)
  BY <1>1, <1>2, <1>4, <1>5, <1>6, <1>7
<1>9. /\ Good(t[4]) /\ o4 \in Nat /\ Inside(t[4], o4, c4)
      /\ Inside(t[4], o3, c3) /\ Inside(t[4], o2, c2) /\ Inside(t[4], o1, c1)
  <2>1. Good(t[4]) /\ o4 \in Nat /\ Inside(t[4], o4, c4)
    BY <1>1, <1>2, <1>4, <1>5, <1>8
  <2>2. \A o \in Nat, s \in Seq(1..255) : Inside(t[3], o, s) => Inside(t[4], o, s)
    BY <1>1, <1>2, <1>4, <1>8
  <2> QED
    BY <1>2, <1>6, <1>7, <1>8, <2>1, <2>2
<1>10. /\ Good(t[5]) /\ o5 \in Nat /\ Inside(t[5], o5, c5) /\ Inside(t[5], o4, c4)
       /\ Inside(t[5], o3, c3) /\ Inside(t[5], o2, c2) /\ Inside(t[5], o1, c1)
  <2>1. Good(t[5]) /\ o5 \in Nat /\ Inside(t[5], o5, c5)
    BY <1>1, <1>2, <1>4, <1>5, <1>9
  <2>2. \A o \in Nat, s \in Seq(1..255) : Inside(t[4], o, s) => Inside(t[5], o, s)
    BY <1>1, <1>2, <1>4, <1>9
  <2> QED
    BY <1>2, <1>6, <1>7, <1>8, <1>9, <2>1, <2>2
<1> QED
  BY <1>4, <1>6, <1>7, <1>8, <1>9, <1>10
  DEF Good, Inside, ReadableAt, Bytes, c1, c2, c3, c4, c5, o1, o2, o3, o4, o5

(* The first of a set of positions, wherever else it has members. *)
LEMMA FirstPosition ==
    ASSUME NEW I \in SUBSET Int, NEW x \in I, \A y \in I : x <= y
    PROVE  Min(I) = x
<1>1. ASSUME NEW z \in I, \A y \in I : z <= y PROVE z = x
  <2>1. z <= x /\ x <= z /\ z \in Int /\ x \in Int
    BY <1>1
  <2> QED
    BY <2>1
<1> QED
  BY <1>1 DEF Min

(* dis.cc lines 58-63: a scan from the offset of a name returns the name. *)
LEMMA NameFound ==
    ASSUME NEW tab \in Bytes, NEW off, NEW str \in Seq(1..255), ReadableAt(tab, off, str)
    PROVE  NameAt(tab, off) = str
<1> DEFINE I == {i \in (off + 1)..Len(tab) : tab[i] = 0}
           x == off + Len(str) + 1
<1>1. /\ off \in Nat /\ Len(str) \in Nat /\ Len(tab) \in Nat /\ off + Len(str) < Len(tab)
      /\ \A k \in 1..Len(str) : tab[off + k] = str[k]
      /\ tab[x] = 0
  BY LenProperties DEF ReadableAt, Strings!HoldsAt, Strings!NUL, Bytes
<1>2. ASSUME NEW k \in 1..Len(str) PROVE tab[off + k] # 0
  <2>1. str[k] \in 1..255
    BY ElementOfSeq
  <2>2. \A c \in 1..255 : c # 0
    OBVIOUS
  <2> QED
    BY <1>1, <2>1, <2>2, Zenon
<1>3. x \in I
  BY <1>1
<1>4. ASSUME NEW y \in I PROVE x <= y
  <2>1. y \in Int /\ y >= off + 1 /\ tab[y] = 0
    BY <1>1
  <2>2. y <= off + Len(str) => y - off \in 1..Len(str) /\ off + (y - off) = y
    BY <1>1, <2>1
  <2>3. ~(y <= off + Len(str))
    BY <1>2, <2>1, <2>2
  <2> QED
    BY <1>1, <2>1, <2>3
<1>5. I \in SUBSET Int
  BY <1>1
<1> HIDE DEF I
<1>6. Min(I) = x
  <2> HIDE DEF x
  <2> QED
    BY <1>3, <1>4, <1>5, FirstPosition
<1>7. SelectInSubSeq(tab, off + 1, Len(tab), LAMBDA c : c = 0) = x
  BY <1>3, <1>6 DEF SelectInSubSeq, I
<1>8. x - 1 = off + Len(str)
  BY <1>1
<1>9. str \in Bytes
  <2>1. 1..255 \subseteq 0..255
    OBVIOUS
  <2> QED
    BY <2>1, SeqMonotonic DEF Bytes
<1>10. At(tab, off, str)
  BY <1>1 DEF At
<1>11. SubSeq(tab, off + 1, x - 1) = str
  BY <1>1, <1>8, <1>9, <1>10, AtSubSeq
<1>12. off < Len(tab)
  BY <1>1
<1> HIDE DEF x
<1> QED
  BY <1>7, <1>11, <1>12 DEF NameAt

(* The name at offset 0 is empty. *)
LEMMA EmptyNameFound ==
    ASSUME NEW tab \in Bytes, Len(tab) > 0, tab[1] = 0
    PROVE  NameAt(tab, 0) = <<>>
<1>1. <<>> \in Seq(1..255) /\ Len(<<>>) = 0
  OBVIOUS
<1>2. ReadableAt(tab, 0, <<>>)
  BY <1>1 DEF ReadableAt, Strings!HoldsAt, Strings!NUL
<1> QED
  BY <1>1, <1>2, NameFound

-----------------------------------------------------------------------------
(***************************************************************************)
(* Reads of the dump tool.                                                 *)
(***************************************************************************)

(* Reading the length of s at off returns s and leaves the stream good. *)
Delivers(f, off, s) ==
    LET read == Fetch(f, TRUE, off, Len(s)) IN read.ok = TRUE /\ read.bytes = s

(* A read within the file returns what is there. *)
LEMMA WholeRead ==
    ASSUME NEW f \in Bytes, NEW off \in Nat, NEW s \in Bytes, At(f, off, s)
    PROVE  Delivers(f, off, s)
<1> DEFINE n == Len(s)
           m == Len(f)
<1>1. n \in Nat /\ m \in Nat /\ off + n <= m
  BY LenProperties DEF Bytes, At
<1>2. Zeroes(0) = <<>>
  BY DEF Zeroes
<1>3. s \o <<>> = s
  BY DEF Bytes
<1>4. SubSeq(f, off + 1, off + n) = s
  BY AtSubSeq
<1>5. n = 0 => s = <<>>
  BY EmptySeq DEF Bytes
<1>6. n - Len(s) = 0
  BY <1>1
<1> HIDE DEF n, m
<1>7. ASSUME off < m PROVE Buffer(f, TRUE, off, n) = s
  <2>1. (IF off + n < m THEN off + n ELSE m) = off + n
    BY <1>1
  <2>2. SubSeq(f, off + 1, IF off + n < m THEN off + n ELSE m) = s
    BY <1>4, <2>1
  <2> QED
    BY <1>2, <1>3, <1>6, <1>7, <2>2 DEF Buffer, m
<1>8. ASSUME ~(off < m) PROVE Buffer(f, TRUE, off, n) = s
  <2>1. n = 0
    BY <1>1, <1>8
  <2> QED
    BY <1>2, <1>5, <1>8, <2>1 DEF Buffer, m
<1>9. Buffer(f, TRUE, off, n) = s
  BY <1>7, <1>8
<1>10. Fetch(f, TRUE, off, n).ok = TRUE /\ Fetch(f, TRUE, off, n).bytes = s
  <2>1. (TRUE /\ (n = 0 \/ off + n <= m)) = TRUE
    BY <1>1
  <2> QED
    BY <1>9, <2>1 DEF Fetch, m
<1> QED
  BY <1>10, Zenon DEF Delivers, n

(* A read past the end fails the stream, and a failed stream reads zeroes. *)
LEMMA FailedRead ==
    ASSUME NEW f, NEW off, NEW n \in Nat
    PROVE  /\ Fetch(f, FALSE, off, n) = [ok |-> FALSE, bytes |-> Zeroes(n)]
           /\ n > 0 /\ ~(off + n <= Len(f)) => Fetch(f, TRUE, off, n).ok = FALSE
<1>1. Fetch(f, FALSE, off, n) = [ok |-> FALSE, bytes |-> Zeroes(n)]
  BY DEF Fetch, Buffer
<1>2. ASSUME n > 0, ~(off + n <= Len(f)) PROVE Fetch(f, TRUE, off, n).ok = FALSE
  <2>1. n # 0
    BY <1>2
  <2>2. (TRUE /\ (n = 0 \/ off + n <= Len(f))) = FALSE
    BY <1>2, <2>1, Zenon
  <2> QED
    BY <2>2 DEF Fetch
<1> QED
  BY <1>1, <1>2

-----------------------------------------------------------------------------
(***************************************************************************)
(* The headers, read back.                                                 *)
(***************************************************************************)

(* Name, type, offset, size and link of the section header i. *)
Header(i, name, type, offset, size, link) ==
    /\ Headers[i].sh_name = name /\ Headers[i].sh_type = type /\ Headers[i].sh_addr = 0
    /\ Headers[i].sh_offset = offset /\ Headers[i].sh_size = size /\ Headers[i].sh_link = link

(* What the six headers say. *)
LEMMA HeaderFields ==
    ASSUME SizesAgree
    PROVE  /\ Header(1, 0, SHT_NULL, 0, 0, 0)
           /\ Header(2, store_section_name(".strtab"), SHT_STRTAB, StrtabAt, Len(strtab), 0)
           /\ Header(3, store_section_name(".shstrtab"), SHT_STRTAB, ShstrtabAt, Len(shstrtab), 0)
           /\ Header(4, store_section_name(".symtab"), SHT_SYMTAB, SymtabAt, SizeofSym * Len(symtab), 1)
           /\ Header(5, store_section_name(".text"), SHT_PROGBITS, TextAt, SizeofInsn * Len(text), 0)
           /\ Header(6, store_section_name(".data"), SHT_PROGBITS, DataAt, Len(data), 0)
<1>1. sh_size.text = SizeofInsn * Len(text) /\ sh_size.data = Len(data)
  BY DEF SizesAgree
<1>2. /\ section_headers[1] = Shdr(0, SHT_NULL, 0)
      /\ section_headers[2] = Shdr(store_section_name(".strtab"), SHT_STRTAB, 0)
      /\ section_headers[3] = Shdr(store_section_name(".shstrtab"), SHT_STRTAB, 0)
      /\ section_headers[4] = init_symtab
      /\ section_headers[5] = Shdr(store_section_name(".text"), SHT_PROGBITS, SHF_ALLOC + SHF_EXECINSTR)
      /\ section_headers[6] = Shdr(store_section_name(".data"), SHT_PROGBITS, SHF_ALLOC + SHF_WRITE)
  BY SectionHeaders DEF init_section_headers, init_text_section, init_data_section
<1> DEFINE hs == section_headers
           Base(h, name, type, link) ==
              \E flags, info, entsize :
                 h = [sh_name |-> name, sh_type |-> type, sh_flags |-> flags, sh_addr |-> 0,
                      sh_offset |-> 0, sh_size |-> 0, sh_link |-> link, sh_info |-> info,
                      sh_addralign |-> 0, sh_entsize |-> entsize]
<1>3. /\ Base(hs[1], 0, SHT_NULL, 0)
      /\ Base(hs[2], store_section_name(".strtab"), SHT_STRTAB, 0)
      /\ Base(hs[3], store_section_name(".shstrtab"), SHT_STRTAB, 0)
      /\ Base(hs[5], store_section_name(".text"), SHT_PROGBITS, 0)
      /\ Base(hs[6], store_section_name(".data"), SHT_PROGBITS, 0)
  BY <1>2 DEF Shdr
<1>4. Base(hs[4], store_section_name(".symtab"), SHT_SYMTAB, 1)
  BY <1>2 DEF Shdr, init_symtab
<1>5. ASSUME NEW h, NEW name, NEW type, NEW link, Base(h, name, type, link), NEW off, NEW size
      PROVE  LET g == HeaderAt(h, off, size)
             IN  /\ g.sh_name = name /\ g.sh_type = type /\ g.sh_addr = 0
                 /\ g.sh_offset = off /\ g.sh_size = size /\ g.sh_link = link
  BY <1>5 DEF HeaderAt
<1>6. Header(1, 0, SHT_NULL, 0, 0, 0)
  BY <1>3 DEF Header, Headers
<1> HIDE DEF Base, hs
<1>7. /\ Headers[2] = HeaderAt(hs[2], StrtabAt, Len(strtab))
      /\ Headers[3] = HeaderAt(hs[3], ShstrtabAt, Len(shstrtab))
      /\ Headers[4] = HeaderAt(hs[4], SymtabAt, SizeofSym * Len(symtab))
      /\ Headers[5] = HeaderAt(hs[5], TextAt, SizeofInsn * Len(text))
      /\ Headers[6] = HeaderAt(hs[6], DataAt, Len(data))
  BY <1>1 DEF Headers, hs
<1>8. Header(2, store_section_name(".strtab"), SHT_STRTAB, StrtabAt, Len(strtab), 0)
  BY <1>3, <1>5, <1>7 DEF Header
<1>9. Header(3, store_section_name(".shstrtab"), SHT_STRTAB, ShstrtabAt, Len(shstrtab), 0)
  BY <1>3, <1>5, <1>7 DEF Header
<1>10. Header(4, store_section_name(".symtab"), SHT_SYMTAB, SymtabAt, SizeofSym * Len(symtab), 1)
  BY <1>4, <1>5, <1>7 DEF Header
<1>11. Header(5, store_section_name(".text"), SHT_PROGBITS, TextAt, SizeofInsn * Len(text), 0)
  BY <1>3, <1>5, <1>7 DEF Header
<1>12. Header(6, store_section_name(".data"), SHT_PROGBITS, DataAt, Len(data), 0)
  BY <1>3, <1>5, <1>7 DEF Header
<1> QED
  BY <1>6, <1>8, <1>9, <1>10, <1>11, <1>12

(* Every field of the headers fits in 31 bits. *)
LEMMA OffsetsFit ==
    ASSUME TablesOK, Addressable
    PROVE  /\ TextAt \in Nat /\ DataAt \in Nat /\ StrtabAt \in Nat /\ ShstrtabAt \in Nat
           /\ SymtabAt \in Nat /\ HeadersAt \in Nat /\ StreamEnd \in Nat
           /\ SizeofInsn * Len(text) \in Nat /\ Len(data) \in Nat /\ Len(strtab) \in Nat
           /\ Len(shstrtab) \in Nat /\ SizeofSym * Len(symtab) \in Nat
           /\ TextAt = 52 /\ DataAt = TextAt + SizeofInsn * Len(text)
           /\ StrtabAt = DataAt + Len(data) /\ ShstrtabAt = StrtabAt + Len(strtab)
           /\ SymtabAt = ShstrtabAt + Len(shstrtab)
           /\ HeadersAt = SymtabAt + SizeofSym * Len(symtab)
           /\ StreamEnd = HeadersAt + 240 /\ StreamEnd <= MaxOffset
<1> DEFINE a == SizeofInsn * Len(text)
           b == Len(data)
           c == Len(strtab)
           d == Len(shstrtab)
           e == SizeofSym * Len(symtab)
<1>1. a \in Nat /\ b \in Nat /\ c \in Nat /\ e \in Nat
  BY LenProperties DEF TablesOK, SizeofInsn, SizeofSym
<1>2. d \in Nat
  BY SectionNamesStored, LenProperties DEF Bytes
<1>3. 52 + a + b + c + d + e + 240 <= MaxOffset
  BY DEF Addressable, SizeofEhdr, SizeofShdr
<1>4. TextAt = 52 /\ DataAt = TextAt + a /\ StrtabAt = DataAt + b /\ ShstrtabAt = StrtabAt + c
  BY DEF TextAt, DataAt, StrtabAt, ShstrtabAt, SizeofEhdr
<1>5. SymtabAt = ShstrtabAt + d /\ HeadersAt = SymtabAt + e /\ StreamEnd = HeadersAt + 240
  BY DEF SymtabAt, HeadersAt, StreamEnd, SizeofShdr
<1> HIDE DEF a, b, c, d, e
<1>6. /\ TextAt \in Nat /\ DataAt \in Nat /\ StrtabAt \in Nat /\ ShstrtabAt \in Nat
      /\ SymtabAt \in Nat /\ HeadersAt \in Nat /\ StreamEnd \in Nat
  BY <1>1, <1>2, <1>4, <1>5
<1>7. StreamEnd = 52 + a + b + c + d + e + 240
  BY <1>1, <1>2, <1>4, <1>5
<1> QED
  BY <1>1, <1>2, <1>3, <1>4, <1>5, <1>6, <1>7 DEF a, b, c, d, e

(* A number that a four-byte field holds without loss. *)
Fits(n) == n \in Nat /\ n <= MaxOffset

(* So do all the others: names, types and links. *)
LEMMA FieldsFit ==
    ASSUME TablesOK, SizesAgree, Addressable, NEW i \in 1..6
    PROVE  /\ Fits(Headers[i].sh_name) /\ Fits(Headers[i].sh_type) /\ Fits(Headers[i].sh_addr)
           /\ Fits(Headers[i].sh_offset) /\ Fits(Headers[i].sh_size) /\ Fits(Headers[i].sh_link)
<1>1. /\ Fits(0) /\ Fits(1) /\ Fits(SHT_NULL) /\ Fits(SHT_STRTAB) /\ Fits(SHT_SYMTAB)
      /\ Fits(SHT_PROGBITS) /\ MaxOffset \in Nat
  BY SMT DEF Fits, MaxOffset, SHT_NULL, SHT_STRTAB, SHT_SYMTAB, SHT_PROGBITS
<1>2. /\ Fits(TextAt) /\ Fits(DataAt) /\ Fits(StrtabAt) /\ Fits(ShstrtabAt) /\ Fits(SymtabAt)
      /\ Fits(SizeofInsn * Len(text)) /\ Fits(Len(data)) /\ Fits(Len(strtab))
      /\ Fits(Len(shstrtab)) /\ Fits(SizeofSym * Len(symtab))
  <2> DEFINE a == SizeofInsn * Len(text)  b == Len(data)  c == Len(strtab)  d == Len(shstrtab)
             e == SizeofSym * Len(symtab)
  <2>1. /\ TextAt \in Nat /\ DataAt \in Nat /\ StrtabAt \in Nat /\ ShstrtabAt \in Nat
        /\ SymtabAt \in Nat /\ HeadersAt \in Nat /\ StreamEnd \in Nat
        /\ a \in Nat /\ b \in Nat /\ c \in Nat /\ d \in Nat /\ e \in Nat
        /\ TextAt = 52 /\ DataAt = TextAt + a /\ StrtabAt = DataAt + b
        /\ ShstrtabAt = StrtabAt + c /\ SymtabAt = ShstrtabAt + d /\ HeadersAt = SymtabAt + e
        /\ StreamEnd = HeadersAt + 240 /\ StreamEnd <= MaxOffset
    BY OffsetsFit
  <2> HIDE DEF a, b, c, d, e
  <2>2. /\ TextAt <= MaxOffset /\ DataAt <= MaxOffset /\ StrtabAt <= MaxOffset
        /\ ShstrtabAt <= MaxOffset /\ SymtabAt <= MaxOffset
        /\ a <= MaxOffset /\ b <= MaxOffset /\ c <= MaxOffset /\ d <= MaxOffset /\ e <= MaxOffset
    BY <1>1, <2>1
  <2> QED
    BY <2>1, <2>2 DEF Fits, a, b, c, d, e
<1>3. \A name \in {".shstrtab", ".strtab", ".symtab", ".text", ".data"} :
         Fits(store_section_name(name))
  <2> SUFFICES ASSUME NEW name \in {".shstrtab", ".strtab", ".symtab", ".text", ".data"}
               PROVE  Fits(store_section_name(name))
    OBVIOUS
  <2> DEFINE o == store_section_name(name)
             n == Len(section_chars[name])
             m == Len(shstrtab)
  <2>1. section_chars[name] \in Seq(1..255)
    BY SectionCharsDiffer
  <2>2. n \in Nat
    BY <2>1, LenProperties
  <2>3. o \in Nat /\ o + n < m
    BY SectionNamesStored DEF ReadableAt, Strings!HoldsAt
  <2>4. m \in Nat /\ m <= MaxOffset
    BY <1>2 DEF Fits
  <2> HIDE DEF o, n, m
  <2>5. o \in Nat /\ o <= MaxOffset
    BY <1>1, <2>2, <2>3, <2>4
  <2> QED
    BY <2>5 DEF Fits, o
<1>4. i = 1 \/ i = 2 \/ i = 3 \/ i = 4 \/ i = 5 \/ i = 6
  OBVIOUS
<1>5. ASSUME NEW name, NEW type, NEW offset, NEW size, NEW link, Header(i, name, type, offset, size, link),
             Fits(name), Fits(type), Fits(offset), Fits(size), Fits(link)
      PROVE  /\ Fits(Headers[i].sh_name) /\ Fits(Headers[i].sh_type) /\ Fits(Headers[i].sh_addr)
             /\ Fits(Headers[i].sh_offset) /\ Fits(Headers[i].sh_size) /\ Fits(Headers[i].sh_link)
  BY <1>1, <1>5 DEF Header
<1>6. CASE i = 1
  BY <1>1, <1>5, <1>6, HeaderFields
<1>7. CASE i = 2
  BY <1>1, <1>2, <1>3, <1>5, <1>7, HeaderFields
<1>8. CASE i = 3
  BY <1>1, <1>2, <1>3, <1>5, <1>8, HeaderFields
<1>9. CASE i = 4
  BY <1>1, <1>2, <1>3, <1>5, <1>9, HeaderFields
<1>10. CASE i = 5
  BY <1>1, <1>2, <1>3, <1>5, <1>10, HeaderFields
<1>11. CASE i = 6
  BY <1>1, <1>2, <1>3, <1>5, <1>11, HeaderFields
<1> QED
  BY <1>4, <1>6, <1>7, <1>8, <1>9, <1>10, <1>11

(* The ELF header is read as it was written. *)
LEMMA HeaderRead ==
    ASSUME TablesOK, Addressable, NEW f \in Bytes, At(f, 0, Ehdr_serialize(FileHeader))
    PROVE  /\ ReadEhdr(f) = [e_shoff |-> HeadersAt, e_shentsize |-> 40,
                             e_shnum |-> 6, e_shstrndx |-> 2]
           /\ SubSeq(f, 1, 4) = ELFMAG /\ f[5] = ELFCLASS32
<1> DEFINE e == Ehdr_serialize(FileHeader)
<1>1. FileHeader.e_shoff = HeadersAt /\ FileHeader.e_shnum = 6 /\ FileHeader.e_shstrndx = 2
  BY DEF FileHeader
<1>2. /\ e \in Bytes /\ At(e, 0, e_ident)
      /\ At(e, 32, Elf32_Word(HeadersAt)) /\ At(e, 46, Elf32_Half(40))
      /\ At(e, 48, Elf32_Half(6)) /\ At(e, 50, Elf32_Half(2))
  BY <1>1, EhdrBytes DEF SizeofShdr
<1> HIDE DEF e
<1>3. At(f, 0, e)
  BY DEF e
<1>4. e_ident \in Bytes /\ Len(e_ident) = 16
  BY DEF e_ident, Bytes
<1>5. /\ At(f, 0 + 0, e_ident) /\ At(f, 0 + 32, Elf32_Word(HeadersAt))
      /\ At(f, 0 + 46, Elf32_Half(40)) /\ At(f, 0 + 48, Elf32_Half(6)) /\ At(f, 0 + 50, Elf32_Half(2))
  BY <1>2, <1>3, <1>4, FieldBytes, AtWithin
<1>6. HeadersAt \in Nat /\ HeadersAt <= MaxOffset
  <2>1. HeadersAt \in Nat /\ StreamEnd \in Nat /\ StreamEnd = HeadersAt + 240 /\ StreamEnd <= MaxOffset
    BY OffsetsFit
  <2>2. MaxOffset \in Nat
    BY SMT DEF MaxOffset
  <2> QED
    BY <2>1, <2>2
<1>7. Num(f, 32, 4) = HeadersAt
  BY <1>5, <1>6, ReadWord
<1>8. Num(f, 46, 2) = 40 /\ Num(f, 48, 2) = 6 /\ Num(f, 50, 2) = 2
  BY <1>5, ReadHalf
<1>9. ASSUME NEW i \in 1..16 PROVE f[i] = e_ident[i]
  <2>1. f[(0 + 0) + i] = e_ident[i]
    BY <1>4, <1>5 DEF At
  <2>2. (0 + 0) + i = i
    OBVIOUS
  <2> QED
    BY <2>1, <2>2
<1>10. f[1] = 127 /\ f[2] = 69 /\ f[3] = 76 /\ f[4] = 70 /\ f[5] = 1
  <2>1. e_ident[1] = 127 /\ e_ident[2] = 69 /\ e_ident[3] = 76 /\ e_ident[4] = 70 /\ e_ident[5] = 1
    BY DEF e_ident
  <2> QED
    BY <1>9, <2>1
<1>11. SubSeq(f, 1, 4) = ELFMAG
  <2>1. ELFMAG \in Bytes /\ Len(ELFMAG) = 4
    BY DEF ELFMAG, Bytes
  <2>2. ELFMAG[1] = 127 /\ ELFMAG[2] = 69 /\ ELFMAG[3] = 76 /\ ELFMAG[4] = 70
    BY DEF ELFMAG
  <2>3. Len(f) >= 16 /\ Len(f) \in Nat
    BY <1>4, <1>5, LenProperties DEF At, Bytes
  <2>4. ASSUME NEW i \in 1..4 PROVE f[0 + i] = ELFMAG[i]
    BY <1>10, <2>2
  <2>5. At(f, 0, ELFMAG)
    BY <2>1, <2>3, <2>4 DEF At
  <2>6. SubSeq(f, 0 + 1, 0 + Len(ELFMAG)) = ELFMAG
    BY <2>1, <2>5, AtSubSeq
  <2> QED
    BY <2>1, <2>6
<1> QED
  BY <1>7, <1>8, <1>10, <1>11 DEF ReadEhdr, ELFCLASS32

(* A section header is read as it was written. *)
LEMMA SectionRead ==
    ASSUME TablesOK, SizesAgree, Addressable, NEW i \in 1..6,
           NEW f \in Bytes, NEW off \in Nat, At(f, off, Shdr_serialize(Headers[i]))
    PROVE  /\ Num(f, off, 4) = Headers[i].sh_name /\ Num(f, off + 4, 4) = Headers[i].sh_type
           /\ Num(f, off + 12, 4) = Headers[i].sh_addr /\ Num(f, off + 16, 4) = Headers[i].sh_offset
           /\ Num(f, off + 20, 4) = Headers[i].sh_size /\ Num(f, off + 24, 4) = Headers[i].sh_link
<1> DEFINE h == Headers[i]
           b == Shdr_serialize(h)
<1>1. /\ b \in Bytes
      /\ At(b, 0, Elf32_Word(h.sh_name)) /\ At(b, 4, Elf32_Word(h.sh_type))
      /\ At(b, 12, Elf32_Word(h.sh_addr)) /\ At(b, 16, Elf32_Word(h.sh_offset))
      /\ At(b, 20, Elf32_Word(h.sh_size)) /\ At(b, 24, Elf32_Word(h.sh_link))
  BY ShdrBytes
<1>2. At(f, off, b)
  OBVIOUS
<1>3. /\ Fits(h.sh_name) /\ Fits(h.sh_type) /\ Fits(h.sh_addr)
      /\ Fits(h.sh_offset) /\ Fits(h.sh_size) /\ Fits(h.sh_link)
  BY FieldsFit
<1> HIDE DEF h, b
<1>4. ASSUME NEW n, Fits(n), NEW k \in Nat, At(b, k, Elf32_Word(n)) PROVE Num(f, off + k, 4) = n
  <2>1. At(f, off + k, Elf32_Word(n))
    BY <1>1, <1>2, <1>4, FieldBytes, AtWithin
  <2>2. off + k \in Nat /\ n \in Nat /\ n <= MaxOffset
    BY <1>4 DEF Fits
  <2> QED
    BY <2>1, <2>2, ReadWord
<1>5. Num(f, off + 0, 4) = h.sh_name
  BY <1>1, <1>3, <1>4
<1>6. Num(f, off + 4, 4) = h.sh_type /\ Num(f, off + 12, 4) = h.sh_addr
  BY <1>1, <1>3, <1>4
<1>7. Num(f, off + 16, 4) = h.sh_offset /\ Num(f, off + 20, 4) = h.sh_size
  BY <1>1, <1>3, <1>4
<1>8. Num(f, off + 24, 4) = h.sh_link
  BY <1>1, <1>3, <1>4
<1>9. off + 0 = off
  OBVIOUS
<1> QED
  BY <1>5, <1>6, <1>7, <1>8, <1>9 DEF h

-----------------------------------------------------------------------------
(***************************************************************************)
(* A complete object, as a linker reads it.                                *)
(***************************************************************************)

(* The object holds what serialize made of tables that agree with their    *)
(* headers, and no offset wraps.                                           *)
Complete == /\ TablesOK /\ SizesAgree /\ Addressable /\ Obj = Stream

(* Every section header is found where the ELF header says. *)
LEMMA SectionsOfObject ==
    ASSUME Complete
    PROVE  /\ Obj \in Bytes /\ Len(Obj) = StreamEnd
           /\ ReadEhdr(Obj) = [e_shoff |-> HeadersAt, e_shentsize |-> 40,
                               e_shnum |-> 6, e_shstrndx |-> 2]
           /\ \A i \in 0..5 :
                 /\ ShAt(i, 0) = Headers[i + 1].sh_name /\ ShAt(i, 4) = Headers[i + 1].sh_type
                 /\ ShAt(i, 16) = Headers[i + 1].sh_offset /\ ShAt(i, 20) = Headers[i + 1].sh_size
                 /\ ShAt(i, 24) = Headers[i + 1].sh_link
<1>1. TablesOK /\ SizesAgree /\ Addressable /\ shstrtab \in Bytes /\ Obj = Stream
  BY SectionNamesStored DEF Complete
<1>2. /\ Obj \in Bytes /\ Len(Obj) = StreamEnd /\ At(Obj, 0, Ehdr_serialize(FileHeader))
      /\ \A i \in 1..6 : At(Obj, HeadersAt + 40 * (i - 1), Shdr_serialize(Headers[i]))
  BY <1>1, StreamLayout
<1> HIDE DEF Obj
<1>3. ReadEhdr(Obj) = [e_shoff |-> HeadersAt, e_shentsize |-> 40, e_shnum |-> 6, e_shstrndx |-> 2]
  BY <1>1, <1>2, HeaderRead
<1>4. ASSUME NEW i \in 0..5
      PROVE  /\ ShAt(i, 0) = Headers[i + 1].sh_name /\ ShAt(i, 4) = Headers[i + 1].sh_type
             /\ ShAt(i, 16) = Headers[i + 1].sh_offset /\ ShAt(i, 20) = Headers[i + 1].sh_size
             /\ ShAt(i, 24) = Headers[i + 1].sh_link
  <2> DEFINE off == HeadersAt + 40 * i
  <2>1. HeadersAt \in Nat
    BY <1>1, OffsetsFit
  <2>2. i + 1 \in 1..6 /\ off \in Nat /\ off = HeadersAt + 40 * ((i + 1) - 1) /\ off + 0 = off
    BY <2>1
  <2>3. \A k : ShAt(i, k) = Num(Obj, off + k, 4)
    BY <1>3 DEF ShAt, SizeofShdr
  <2> HIDE DEF off
  <2>4. At(Obj, off, Shdr_serialize(Headers[i + 1]))
    BY <1>2, <2>2
  <2>5. /\ Num(Obj, off, 4) = Headers[i + 1].sh_name /\ Num(Obj, off + 4, 4) = Headers[i + 1].sh_type
        /\ Num(Obj, off + 16, 4) = Headers[i + 1].sh_offset
        /\ Num(Obj, off + 20, 4) = Headers[i + 1].sh_size
        /\ Num(Obj, off + 24, 4) = Headers[i + 1].sh_link
    BY <1>1, <1>2, <2>2, <2>4, SectionRead
  <2>6. Num(Obj, off + 0, 4) = Headers[i + 1].sh_name
    BY <2>2, <2>5
  <2> QED
    BY <2>3, <2>5, <2>6
<1> QED
  BY <1>2, <1>3, <1>4

(* Seven intervals, one after the other, in the order the stream was       *)
(* written; RegionsTile lists them by their place in the headers.          *)
InARow(r, a, b, c, d, e, t) ==
    /\ a \in Nat /\ b \in Nat /\ c \in Nat /\ d \in Nat /\ e \in Nat /\ t \in Nat
    /\ DOMAIN r = 1..7
    /\ r[1].from = 0 /\ r[1].size = 52
    /\ r[6].from = 52 /\ r[6].size = a
    /\ r[7].from = 52 + a /\ r[7].size = b
    /\ r[3].from = 52 + a + b /\ r[3].size = c
    /\ r[4].from = 52 + a + b + c /\ r[4].size = d
    /\ r[5].from = 52 + a + b + c + d /\ r[5].size = e
    /\ r[2].from = 52 + a + b + c + d + e /\ r[2].size = 240
    /\ t = 52 + a + b + c + d + e + 240

(* Such intervals leave nothing out and do not overlap. *)
LEMMA IntervalsTile ==
    ASSUME NEW r, NEW a, NEW b, NEW c, NEW d, NEW e, NEW t, InARow(r, a, b, c, d, e, t)
    PROVE  /\ \A i \in DOMAIN r : r[i].from + r[i].size <= t
           /\ \A p \in 0..(t - 1) :
                 \E i \in DOMAIN r : \A j \in DOMAIN r :
                    (r[j].from <= p /\ p < r[j].from + r[j].size) <=> j = i
<1> DEFINE In(p, j) == r[j].from <= p /\ p < r[j].from + r[j].size
<1>1. ASSUME NEW i \in DOMAIN r PROVE r[i].from + r[i].size <= t
  <2>1. i = 1 \/ i = 2 \/ i = 3 \/ i = 4 \/ i = 5 \/ i = 6 \/ i = 7
    BY DEF InARow
  <2> QED
    BY <2>1 DEF InARow
<1>2. ASSUME NEW p \in 0..(t - 1)
      PROVE  \E i \in DOMAIN r : \A j \in DOMAIN r : In(p, j) <=> j = i
  <2>0. /\ a \in Nat /\ b \in Nat /\ c \in Nat /\ d \in Nat /\ e \in Nat /\ t \in Nat /\ p \in Nat
    BY DEF InARow
  <2>1. /\ In(p, 1) <=> p < 52
        /\ In(p, 6) <=> 52 <= p /\ p < 52 + a
        /\ In(p, 7) <=> 52 + a <= p /\ p < 52 + a + b
        /\ In(p, 3) <=> 52 + a + b <= p /\ p < 52 + a + b + c
        /\ In(p, 4) <=> 52 + a + b + c <= p /\ p < 52 + a + b + c + d
        /\ In(p, 5) <=> 52 + a + b + c + d <= p /\ p < 52 + a + b + c + d + e
        /\ In(p, 2) <=> 52 + a + b + c + d + e <= p
    BY DEF InARow
  <2>2. ASSUME NEW j \in DOMAIN r
        PROVE  j = 1 \/ j = 2 \/ j = 3 \/ j = 4 \/ j = 5 \/ j = 6 \/ j = 7
    BY DEF InARow
  <2>3. 1 \in DOMAIN r /\ 2 \in DOMAIN r /\ 3 \in DOMAIN r /\ 4 \in DOMAIN r
        /\ 5 \in DOMAIN r /\ 6 \in DOMAIN r /\ 7 \in DOMAIN r
    BY DEF InARow
  <2> HIDE DEF In
  <2>4. CASE p < 52
    <3>1. /\ In(p, 1) /\ ~In(p, 2) /\ ~In(p, 3) /\ ~In(p, 4) /\ ~In(p, 5) /\ ~In(p, 6) /\ ~In(p, 7)
      BY <2>0, <2>1, <2>4
    <3> QED
      BY <2>2, <2>3, <3>1
  <2>5. CASE 52 <= p /\ p < 52 + a
    <3>1. /\ In(p, 6) /\ ~In(p, 1) /\ ~In(p, 2) /\ ~In(p, 3) /\ ~In(p, 4) /\ ~In(p, 5) /\ ~In(p, 7)
      BY <2>0, <2>1, <2>5
    <3> QED
      BY <2>2, <2>3, <3>1
  <2>6. CASE 52 + a <= p /\ p < 52 + a + b
    <3>1. /\ In(p, 7) /\ ~In(p, 1) /\ ~In(p, 2) /\ ~In(p, 3) /\ ~In(p, 4) /\ ~In(p, 5) /\ ~In(p, 6)
      BY <2>0, <2>1, <2>6
    <3> QED
      BY <2>2, <2>3, <3>1
  <2>7. CASE 52 + a + b <= p /\ p < 52 + a + b + c
    <3>1. /\ In(p, 3) /\ ~In(p, 1) /\ ~In(p, 2) /\ ~In(p, 4) /\ ~In(p, 5) /\ ~In(p, 6) /\ ~In(p, 7)
      BY <2>0, <2>1, <2>7
    <3> QED
      BY <2>2, <2>3, <3>1
  <2>8. CASE 52 + a + b + c <= p /\ p < 52 + a + b + c + d
    <3>1. /\ In(p, 4) /\ ~In(p, 1) /\ ~In(p, 2) /\ ~In(p, 3) /\ ~In(p, 5) /\ ~In(p, 6) /\ ~In(p, 7)
      BY <2>0, <2>1, <2>8
    <3> QED
      BY <2>2, <2>3, <3>1
  <2>9. CASE 52 + a + b + c + d <= p /\ p < 52 + a + b + c + d + e
    <3>1. /\ In(p, 5) /\ ~In(p, 1) /\ ~In(p, 2) /\ ~In(p, 3) /\ ~In(p, 4) /\ ~In(p, 6) /\ ~In(p, 7)
      BY <2>0, <2>1, <2>9
    <3> QED
      BY <2>2, <2>3, <3>1
  <2>10. CASE 52 + a + b + c + d + e <= p
    <3>1. /\ In(p, 2) /\ ~In(p, 1) /\ ~In(p, 3) /\ ~In(p, 4) /\ ~In(p, 5) /\ ~In(p, 6) /\ ~In(p, 7)
      BY <2>0, <2>1, <2>10
    <3> QED
      BY <2>2, <2>3, <3>1
  <2> QED
    BY <2>0, <2>4, <2>5, <2>6, <2>7, <2>8, <2>9, <2>10
<1> QED
  BY <1>1, <1>2

(* The body of RegionsTile, for a complete object. *)
LEMMA ObjectTiles ==
    ASSUME Complete
    PROVE  RegionsTile
<1> DEFINE ehdr == ReadEhdr(Obj)
           Part(i) == [from |-> ShAt(i, 16), size |-> ShAt(i, 20)]
           first == [from |-> 0, size |-> SizeofEhdr]
           last == [from |-> ehdr.e_shoff, size |-> SizeofShdr * ehdr.e_shnum]
           x == <<first, last>>
           y == [i \in 1..(ehdr.e_shnum - 1) |-> Part(i)]
           r == x \o y
           a == SizeofInsn * Len(text)
           b == Len(data)
           c == Len(strtab)
           d == Len(shstrtab)
           e == SizeofSym * Len(symtab)
           t == Len(Obj)
<1>1. /\ t = StreamEnd /\ ehdr.e_shoff = HeadersAt /\ ehdr.e_shnum = 6
      /\ \A i \in 0..5 : ShAt(i, 16) = Headers[i + 1].sh_offset /\ ShAt(i, 20) = Headers[i + 1].sh_size
  BY SectionsOfObject
<1>2. /\ Headers[2].sh_offset = StrtabAt /\ Headers[2].sh_size = c
      /\ Headers[3].sh_offset = ShstrtabAt /\ Headers[3].sh_size = d
      /\ Headers[4].sh_offset = SymtabAt /\ Headers[4].sh_size = e
      /\ Headers[5].sh_offset = TextAt /\ Headers[5].sh_size = a
      /\ Headers[6].sh_offset = DataAt /\ Headers[6].sh_size = b
  BY HeaderFields DEF Complete, Header
<1>3. /\ a \in Nat /\ b \in Nat /\ c \in Nat /\ d \in Nat /\ e \in Nat
      /\ TextAt = 52 /\ DataAt = 52 + a /\ StrtabAt = 52 + a + b
      /\ ShstrtabAt = 52 + a + b + c /\ SymtabAt = 52 + a + b + c + d
      /\ HeadersAt = 52 + a + b + c + d + e /\ StreamEnd = 52 + a + b + c + d + e + 240
      /\ StreamEnd \in Nat
  BY OffsetsFit DEF Complete
<1> HIDE DEF a, b, c, d, e, ehdr, t
<1>4. /\ Part(1) = [from |-> StrtabAt, size |-> c] /\ Part(2) = [from |-> ShstrtabAt, size |-> d]
      /\ Part(3) = [from |-> SymtabAt, size |-> e] /\ Part(4) = [from |-> TextAt, size |-> a]
      /\ Part(5) = [from |-> DataAt, size |-> b]
  BY <1>1, <1>2
<1>5. first = [from |-> 0, size |-> 52] /\ last = [from |-> HeadersAt, size |-> 240]
  BY <1>1 DEF SizeofEhdr, SizeofShdr
<1> HIDE DEF Part, first, last
<1>6. DOMAIN r = 1..7 /\ r[1] = first /\ r[2] = last /\ r[3] = Part(1)
      /\ r[4] = Part(2) /\ r[5] = Part(3) /\ r[6] = Part(4) /\ r[7] = Part(5)
  <2> DEFINE S == {first, last, Part(1), Part(2), Part(3), Part(4), Part(5)}
  <2>1. x \in Seq(S) /\ Len(x) = 2 /\ x[1] = first /\ x[2] = last
    OBVIOUS
  <2>2. ehdr.e_shnum - 1 = 5
    BY <1>1
  <2>3. y = [i \in 1..5 |-> Part(i)]
    BY <2>2
  <2>4. ASSUME NEW i \in 1..5 PROVE Part(i) \in S
    <3>1. i = 1 \/ i = 2 \/ i = 3 \/ i = 4 \/ i = 5
      OBVIOUS
    <3> QED
      BY <3>1
  <2> HIDE DEF S, x
  <2>5. y \in [1..5 -> S] /\ \A i \in 1..5 : y[i] = Part(i)
    BY <2>3, <2>4
  <2> HIDE DEF y
  <2>6. y \in Seq(S) /\ Len(y) = 5
    <3>1. 5 \in Nat /\ y \in [1..5 -> S]
      BY <2>5
    <3> QED
      BY <3>1, SeqOfLength, Zenon
  <2>7. /\ r \in Seq(S) /\ Len(r) = Len(x) + Len(y)
        /\ \A i \in 1..(Len(x) + Len(y)) : r[i] = IF i <= Len(x) THEN x[i] ELSE y[i - Len(x)]
    BY <2>1, <2>6, ConcatProperties
  <2> HIDE DEF r
  <2>8. Len(r) = 7 /\ \A i \in 1..7 : r[i] = IF i <= 2 THEN x[i] ELSE y[i - 2]
    BY <2>1, <2>6, <2>7
  <2>9. DOMAIN r = 1..Len(r)
    BY <2>7, LenProperties
  <2>10. /\ r[1] = x[1] /\ r[2] = x[2] /\ r[3] = y[1] /\ r[4] = y[2] /\ r[5] = y[3]
         /\ r[6] = y[4] /\ r[7] = y[5]
    BY <2>8
  <2> QED
    BY <2>1, <2>5, <2>8, <2>9, <2>10
<1> HIDE DEF r
<1>7. /\ r[1].from = 0 /\ r[1].size = 52
      /\ r[6].from = 52 /\ r[6].size = a
      /\ r[7].from = 52 + a /\ r[7].size = b
      /\ r[3].from = 52 + a + b /\ r[3].size = c
      /\ r[4].from = 52 + a + b + c /\ r[4].size = d
      /\ r[5].from = 52 + a + b + c + d /\ r[5].size = e
      /\ r[2].from = 52 + a + b + c + d + e /\ r[2].size = 240
  BY <1>3, <1>4, <1>5, <1>6
<1>8. t \in Nat /\ t = 52 + a + b + c + d + e + 240
  BY <1>1, <1>3
<1>9. /\ \A i \in DOMAIN r : r[i].from + r[i].size <= t
      /\ \A p \in 0..(t - 1) :
            \E i \in DOMAIN r : \A j \in DOMAIN r :
               (r[j].from <= p /\ p < r[j].from + r[j].size) <=> j = i
  <2>1. InARow(r, a, b, c, d, e, t)
    BY <1>3, <1>6, <1>7, <1>8 DEF InARow
  <2> QED
    BY <2>1, IntervalsTile
<1> QED
  BY <1>9, Zenon DEF RegionsTile, r, x, y, first, last, Part, ehdr, t

-----------------------------------------------------------------------------
(***************************************************************************)
(* The dump tool on a complete object.                                     *)
(***************************************************************************)

(* Any bytes are at offset 0 of themselves. *)
LEMMA AtSelf ==
    ASSUME NEW s \in Bytes
    PROVE  At(s, 0, s)
<1>1. Len(s) \in Nat
  BY LenProperties DEF Bytes
<1> QED
  BY <1>1 DEF At

(* The bytes of an instruction in .text are read as that instruction. *)
LEMMA WordReadBack ==
    ASSUME NEW w \in Word
    PROVE  WordOf(write(w, 4, LE)) = w
<1> DEFINE p == write(w, 4, LE)
<1>1. \A i \in 1..4 : p[i] = Octet(w, i - 1)
  BY WrittenBytes
<1>2. w \subseteq 0..31
  BY DEF Word
<1> HIDE DEF p
<1>3. ASSUME NEW b \in 0..31 PROVE (p[b \div 8 + 1] \div 2^(b % 8)) % 2 = 1 <=> b \in w
  <2> DEFINE q == b \div 8
             r == b % 8
  <2>1. q \in 0..3 /\ r \in 0..7 /\ 8 * q + r = b /\ q + 1 \in 1..4 /\ (q + 1) - 1 = q
    OBVIOUS
  <2> HIDE DEF q, r
  <2>2. p[q + 1] = Octet(w, q)
    BY <1>1, <2>1
  <2>3. (Octet(w, q) \div 2^r) % 2 = 1 <=> 8 * q + r \in w
    BY <2>1, OctetBits
  <2>4. (p[q + 1] \div 2^r) % 2 = 1 <=> b \in w
    BY <2>1, <2>2, <2>3, Zenon
  <2> QED
    BY <2>4 DEF q, r
<1>4. WordOf(p) = {b \in 0..31 : b \in w}
  BY <1>3, Zenon DEF WordOf
<1> QED
  BY <1>2, <1>4 DEF p

(* What dis.cc holds of a section header. *)
Loaded(i) == [sh_name |-> Headers[i].sh_name, sh_type |-> Headers[i].sh_type,
              sh_addr |-> Headers[i].sh_addr, sh_offset |-> Headers[i].sh_offset,
              sh_size |-> Headers[i].sh_size]
(* The ELF header it reads. *)
ReadHeader == [e_shoff |-> HeadersAt, e_shentsize |-> 40, e_shnum |-> 6, e_shstrndx |-> 2]

(* dis.cc lines 39-56, 80-95: both functions get the six headers and the   *)
(* names of the sections.                                                  *)
LEMMA SectionsLoaded ==
    ASSUME Complete
    PROVE  /\ LoadSections(Obj, TRUE, ReadHeader)
                = [ok |-> TRUE, sections |-> [i \in 1..6 |-> Loaded(i)]]
           /\ LoadNames(Obj, TRUE, ReadHeader, [i \in 1..6 |-> Loaded(i)]).ok = TRUE
           /\ LoadNames(Obj, TRUE, ReadHeader, [i \in 1..6 |-> Loaded(i)]).bytes = shstrtab
<1>1. TablesOK /\ SizesAgree /\ Addressable /\ shstrtab \in Bytes /\ Obj = Stream
  BY SectionNamesStored DEF Complete
<1>2. /\ Obj \in Bytes /\ At(Obj, HeadersAt, HeaderBytes) /\ At(Obj, ShstrtabAt, shstrtab)
      /\ HeaderBytes \in Bytes /\ Len(HeaderBytes) = 240
      /\ \A i \in 1..6 : At(HeaderBytes, 40 * (i - 1), Shdr_serialize(Headers[i]))
  BY <1>1, StreamLayout
<1>3. HeadersAt \in Nat /\ ShstrtabAt \in Nat
  BY <1>1, OffsetsFit
<1> HIDE DEF Obj
<1>4. Fetch(Obj, TRUE, HeadersAt, 240).ok = TRUE /\ Fetch(Obj, TRUE, HeadersAt, 240).bytes = HeaderBytes
  <2>1. Delivers(Obj, HeadersAt, HeaderBytes)
    BY <1>2, <1>3, WholeRead
  <2> QED
    BY <1>2, <2>1, Zenon DEF Delivers
<1>5. ASSUME NEW i \in 1..6 PROVE ReadShdr(HeaderBytes, i - 1) = Loaded(i)
  <2> DEFINE off == 40 * (i - 1)
  <2>1. off \in Nat
    OBVIOUS
  <2>2. At(HeaderBytes, off, Shdr_serialize(Headers[i]))
    BY <1>2
  <2> HIDE DEF off
  <2>3. /\ Num(HeaderBytes, off, 4) = Headers[i].sh_name
        /\ Num(HeaderBytes, off + 4, 4) = Headers[i].sh_type
        /\ Num(HeaderBytes, off + 12, 4) = Headers[i].sh_addr
        /\ Num(HeaderBytes, off + 16, 4) = Headers[i].sh_offset
        /\ Num(HeaderBytes, off + 20, 4) = Headers[i].sh_size
    BY <1>1, <1>2, <2>1, <2>2, SectionRead
  <2>4. SizeofShdr * (i - 1) = off
    BY DEF SizeofShdr, off
  <2> QED
    BY <2>3, <2>4 DEF ReadShdr, Loaded
<1>6. LoadSections(Obj, TRUE, ReadHeader) = [ok |-> TRUE, sections |-> [i \in 1..6 |-> Loaded(i)]]
  <2>1. /\ ReadHeader.e_shoff = HeadersAt /\ ReadHeader.e_shentsize * ReadHeader.e_shnum = 240
        /\ ReadHeader.e_shnum = 6
    BY DEF ReadHeader
  <2>2. LoadSections(Obj, TRUE, ReadHeader)
          = [ok |-> TRUE, sections |-> [i \in 1..6 |-> ReadShdr(HeaderBytes, i - 1)]]
    <3> DEFINE read == Fetch(Obj, TRUE, HeadersAt, 240)
    <3>1. read.ok = TRUE /\ read.bytes = HeaderBytes
      BY <1>4, Zenon
    <3> HIDE DEF read
    <3>2. LoadSections(Obj, TRUE, ReadHeader)
            = [ok |-> read.ok, sections |-> [i \in 1..6 |-> ReadShdr(read.bytes, i - 1)]]
      BY <2>1, Zenon DEF LoadSections, read
    <3> QED
      BY <3>1, <3>2, Zenon
  <2>3. [i \in 1..6 |-> ReadShdr(HeaderBytes, i - 1)] = [i \in 1..6 |-> Loaded(i)]
    BY <1>5
  <2> QED
    BY <2>2, <2>3
<1>7. /\ LoadNames(Obj, TRUE, ReadHeader, [i \in 1..6 |-> Loaded(i)]).ok = TRUE
      /\ LoadNames(Obj, TRUE, ReadHeader, [i \in 1..6 |-> Loaded(i)]).bytes = shstrtab
  <2>1. ReadHeader.e_shstrndx + 1 = 3
    BY DEF ReadHeader
  <2>2. Loaded(3).sh_offset = ShstrtabAt /\ Loaded(3).sh_size = Len(shstrtab)
    BY <1>1, HeaderFields DEF Header, Loaded
  <2>3. Delivers(Obj, ShstrtabAt, shstrtab)
    BY <1>1, <1>2, <1>3, WholeRead
  <2>4. [i \in 1..6 |-> Loaded(i)][3] = Loaded(3)
    OBVIOUS
  <2> QED
    BY <2>1, <2>2, <2>3, <2>4, Zenon DEF LoadNames, Delivers
<1> QED
  BY <1>6, <1>7, Zenon

(* Each header leads to the name of its section. *)
LEMMA NamesLoaded ==
    ASSUME Complete
    PROVE  /\ NameAt(shstrtab, Loaded(1).sh_name) = <<>>
           /\ NameAt(shstrtab, Loaded(2).sh_name) = section_chars[".strtab"]
           /\ NameAt(shstrtab, Loaded(3).sh_name) = section_chars[".shstrtab"]
           /\ NameAt(shstrtab, Loaded(4).sh_name) = section_chars[".symtab"]
           /\ NameAt(shstrtab, Loaded(5).sh_name) = section_chars[".text"]
           /\ NameAt(shstrtab, Loaded(6).sh_name) = section_chars[".data"]
<1>1. SizesAgree
  BY DEF Complete
<1>2. /\ Loaded(1).sh_name = 0 /\ Loaded(2).sh_name = store_section_name(".strtab")
      /\ Loaded(3).sh_name = store_section_name(".shstrtab")
      /\ Loaded(4).sh_name = store_section_name(".symtab")
      /\ Loaded(5).sh_name = store_section_name(".text")
      /\ Loaded(6).sh_name = store_section_name(".data")
  BY <1>1, HeaderFields DEF Loaded, Header
<1>3. ASSUME NEW name \in {".shstrtab", ".strtab", ".symtab", ".text", ".data"}
      PROVE  NameAt(shstrtab, store_section_name(name)) = section_chars[name]
  <2>1. section_chars[name] \in Seq(1..255)
    BY SectionCharsDiffer
  <2> QED
    BY <2>1, SectionNamesStored, NameFound
<1>4. NameAt(shstrtab, 0) = <<>>
  BY SectionNamesStored, EmptyNameFound
<1> QED
  BY <1>2, <1>3, <1>4

(* dis.cc lines 39-77: one line for each section, with its name and size. *)
LEMMA SectionsPrinted ==
    ASSUME Complete
    PROVE  LET shown == print_section_headers(Obj, TRUE, ReadHeader)
           IN  /\ shown.ok = TRUE
               /\ shown.lines = [i \in 1..6 |->
                     [name |-> NameAt(shstrtab, Loaded(i).sh_name), type |-> Loaded(i).sh_type,
                      offset |-> Loaded(i).sh_offset, size |-> Loaded(i).sh_size]]
<1> DEFINE ss == [i \in 1..6 |-> Loaded(i)]
           load == LoadSections(Obj, TRUE, ReadHeader)
           names == LoadNames(Obj, TRUE, ReadHeader, ss)
           Line(n, i) == [name |-> NameAt(n, ss[i].sh_name), type |-> ss[i].sh_type,
                          offset |-> ss[i].sh_offset, size |-> ss[i].sh_size]
<1>1. load = [ok |-> TRUE, sections |-> ss] /\ names.ok = TRUE /\ names.bytes = shstrtab
  BY SectionsLoaded, Zenon
<1>2. Len(ss) = 6 /\ \A i \in 1..6 : ss[i] = Loaded(i)
  <2>1. ss \in [1..6 -> {Loaded(i) : i \in 1..6}] /\ \A i \in 1..6 : ss[i] = Loaded(i)
    OBVIOUS
  <2> HIDE DEF ss
  <2>2. 6 \in Nat /\ ss \in [1..6 -> {Loaded(i) : i \in 1..6}]
    BY <2>1
  <2>3. Len(ss) = 6
    BY <2>2, SeqOfLength, Zenon
  <2> QED
    BY <2>1, <2>3
<1> HIDE DEF ss, load, names
<1>3. load.ok = TRUE /\ load.sections = ss
  BY <1>1
<1>4. names = LoadNames(Obj, load.ok, ReadHeader, load.sections)
  BY <1>3, Zenon DEF names
<1>5. print_section_headers(Obj, TRUE, ReadHeader)
        = [ok |-> names.ok, lines |-> [i \in 1..6 |-> Line(names.bytes, i)]]
  BY <1>2, <1>3, <1>4, Zenon DEF print_section_headers, load
<1>6. [i \in 1..6 |-> Line(names.bytes, i)] =
         [i \in 1..6 |->
            [name |-> NameAt(shstrtab, Loaded(i).sh_name), type |-> Loaded(i).sh_type,
             offset |-> Loaded(i).sh_offset, size |-> Loaded(i).sh_size]]
  BY <1>1, <1>2
<1> DEFINE shown == print_section_headers(Obj, TRUE, ReadHeader)
           ls == [i \in 1..6 |-> Line(names.bytes, i)]
<1>7. shown.ok = TRUE /\ shown.lines = ls
  <2>1. shown = [ok |-> names.ok, lines |-> ls]
    BY <1>5
  <2> HIDE DEF shown, ls
  <2> QED
    BY <1>1, <2>1
<1> HIDE DEF shown
<1> QED
  BY <1>6, <1>7, Zenon DEF shown

(* dis.cc lines 80-124: the words of .text, in their order. *)
LEMMA TextPrinted ==
    ASSUME Complete
    PROVE  LET shown == print_text_section(Obj, TRUE, ReadHeader)
           IN  /\ shown.found = TRUE
               /\ shown.lines = [k \in 1..Len(text) |-> write(text[k], 4, LE)]
<1> DEFINE ss == [i \in 1..6 |-> Loaded(i)]
           load == LoadSections(Obj, TRUE, ReadHeader)
           names == LoadNames(Obj, load.ok, ReadHeader, load.sections)
           index == SelectInSeq(load.sections,
                                LAMBDA s : NameAt(names.bytes, s.sh_name) = section_chars[".text"])
           sh == load.sections[index]
           content == Fetch(Obj, names.ok, sh.sh_offset, sh.sh_size).bytes
           n == Len(text)
           Line(k) == SubSeq(content, 4 * k - 3, IF 4 * k < sh.sh_size THEN 4 * k ELSE sh.sh_size)
           shown == print_text_section(Obj, TRUE, ReadHeader)
           ls == [k \in 1..((sh.sh_size + 3) \div 4) |-> Line(k)]
<1>0. shown = IF index = 0 THEN [found |-> FALSE, lines |-> <<>>] ELSE [found |-> TRUE, lines |-> ls]
  BY Zenon DEF print_text_section
<1> HIDE DEF shown, ls
<1>1. load.ok = TRUE /\ load.sections = ss
  <2>1. load = [ok |-> TRUE, sections |-> ss]
    BY SectionsLoaded, Zenon
  <2> HIDE DEF ss, load
  <2> QED
    BY <2>1
<1>2. Len(ss) = 6 /\ \A i \in 1..6 : ss[i] = Loaded(i)
  <2>1. ss \in [1..6 -> {Loaded(i) : i \in 1..6}] /\ \A i \in 1..6 : ss[i] = Loaded(i)
    OBVIOUS
  <2> HIDE DEF ss
  <2>2. 6 \in Nat /\ ss \in [1..6 -> {Loaded(i) : i \in 1..6}]
    BY <2>1
  <2>3. Len(ss) = 6
    BY <2>2, SeqOfLength, Zenon
  <2> QED
    BY <2>1, <2>3
<1> HIDE DEF load
<1>3. names.ok = TRUE /\ names.bytes = shstrtab
  BY <1>1, SectionsLoaded, Zenon
<1> HIDE DEF ss, names
<1>5. index = 5
  <2> DEFINE IsText(s) == NameAt(names.bytes, s.sh_name) = section_chars[".text"]
             I == {i \in 1..Len(load.sections) : IsText(load.sections[i])}
  <2>1. ~IsText(ss[1]) /\ ~IsText(ss[2]) /\ ~IsText(ss[3]) /\ ~IsText(ss[4]) /\ IsText(ss[5])
        /\ ~IsText(ss[6])
    BY <1>2, <1>3, NamesLoaded, SectionCharsDiffer
  <2>2. index = IF I # {} THEN Min(I) ELSE 0
    BY Zenon DEF SelectInSeq
  <2> HIDE DEF IsText
  <2>3. \A i \in 1..6 : IsText(ss[i]) <=> i = 5
    <3>1. ASSUME NEW i \in 1..6 PROVE i = 1 \/ i = 2 \/ i = 3 \/ i = 4 \/ i = 5 \/ i = 6
      OBVIOUS
    <3> QED
      BY <2>1, <3>1
  <2>4. I = {5}
    BY <1>1, <1>2, <2>3
  <2> HIDE DEF I, index
  <2>5. Min(I) = 5
    BY <2>4 DEF Min
  <2>6. I # {}
    BY <2>4
  <2> QED
    BY <2>2, <2>5, <2>6
<1> HIDE DEF index
<1>6. TablesOK /\ SizesAgree /\ Addressable /\ shstrtab \in Bytes /\ Obj = Stream
  BY SectionNamesStored DEF Complete
<1>7. n \in Nat /\ TextAt \in Nat /\ sh.sh_offset = TextAt /\ sh.sh_size = 4 * n
  <2>1. sh = Loaded(5)
    BY <1>1, <1>2, <1>5
  <2>2. Headers[5].sh_offset = TextAt /\ Headers[5].sh_size = SizeofInsn * Len(text)
    BY <1>6, HeaderFields DEF Header
  <2>3. sh.sh_offset = TextAt /\ sh.sh_size = 4 * n
    BY <2>1, <2>2 DEF Loaded, SizeofInsn
  <2>4. n \in Nat
    BY <1>6, LenProperties DEF TablesOK
  <2>5. TextAt \in Nat
    BY <1>6, OffsetsFit
  <2> QED
    BY <2>3, <2>4, <2>5
<1>8. content = TextBytes
  <2>1. Obj \in Bytes /\ At(Obj, TextAt, TextBytes) /\ TextBytes \in Bytes /\ Len(TextBytes) = 4 * n
    BY <1>6, StreamLayout, TextPacked
  <2>2. Delivers(Obj, TextAt, TextBytes)
    BY <1>7, <2>1, WholeRead
  <2> HIDE DEF sh, n
  <2> QED
    BY <1>3, <1>7, <2>1, <2>2, Zenon DEF Delivers
<1>9. ASSUME NEW k \in 1..n PROVE Line(k) = write(text[k], 4, LE)
  <2> DEFINE w == write(text[k], 4, LE)
             off == 4 * (k - 1)
  <2>1. TextBytes \in Bytes /\ At(TextBytes, off, w)
    BY <1>6, TextPacked
  <2>2. w \in Bytes /\ Len(w) = 4
    BY WrittenBytes
  <2>3. /\ off \in Nat /\ 4 * k - 3 = off + 1
        /\ (IF 4 * k < 4 * n THEN 4 * k ELSE 4 * n) = off + 4
    BY <1>7
  <2> HIDE DEF w, off, content, sh, n
  <2>4. SubSeq(TextBytes, off + 1, off + Len(w)) = w
    BY <2>1, <2>2, <2>3, AtSubSeq
  <2>5. Line(k) = SubSeq(TextBytes, off + 1, off + 4)
    BY <1>7, <1>8, <2>3
  <2> QED
    BY <2>2, <2>4, <2>5 DEF w
<1>10. (sh.sh_size + 3) \div 4 = n
  <2>1. (4 * n + 3) \div 4 = n
    BY <1>7
  <2> QED
    BY <1>7, <2>1
<1> HIDE DEF Line, sh, n
<1>11. ls = [k \in 1..n |-> write(text[k], 4, LE)]
  BY <1>9, <1>10 DEF ls
<1>12. shown = [found |-> TRUE, lines |-> ls]
  BY <1>0, <1>5
<1>13. shown.found = TRUE /\ shown.lines = ls
  BY <1>12
<1> QED
  BY <1>11, <1>13, Zenon DEF shown, n

(* What main of dis.cc does when it can read the ELF header. *)
LEMMA DumpOfObject ==
    ASSUME TablesOK, Addressable, out_filename \in DOMAIN fs, Obj \in Bytes,
           At(Obj, 0, Ehdr_serialize(FileHeader))
    PROVE  LET first == print_section_headers(Obj, TRUE, ReadHeader)
           IN  dis(<<out_filename>>, fs)
                 = [status |-> 0, sections |-> first.lines,
                    text |-> print_text_section(Obj, first.ok, ReadHeader)]
<1> DEFINE args == <<out_filename>>
           e == Ehdr_serialize(FileHeader)
           head == Fetch(Obj, TRUE, 0, SizeofEhdr)
<1>1. Len(args) = 1 /\ args[1] = out_filename /\ fs[args[1]] = Obj
  BY DEF Obj
<1>2. e \in Bytes /\ Len(e) = 52
  BY EhdrBytes
<1> HIDE DEF args, e, Obj
<1>3. Delivers(Obj, 0, e)
  <2>1. At(Obj, 0, e) /\ 0 \in Nat
    BY DEF e
  <2> QED
    BY <1>2, <2>1, WholeRead
<1>4. head.ok = TRUE /\ head.bytes = e
  BY <1>2, <1>3, Zenon DEF Delivers, SizeofEhdr
<1>5. ReadEhdr(e) = ReadHeader /\ SubSeq(e, 1, 4) = ELFMAG /\ e[5] = ELFCLASS32
  <2>1. At(e, 0, Ehdr_serialize(FileHeader))
    BY <1>2, AtSelf DEF e
  <2> QED
    BY <1>2, <2>1, HeaderRead DEF ReadHeader
<1> HIDE DEF head
<1>6. ReadEhdr(head.bytes) = ReadHeader
  BY <1>4, <1>5
<1>7. ~(~head.ok \/ SubSeq(head.bytes, 1, 4) # ELFMAG \/ head.bytes[5] # ELFCLASS32)
  BY <1>4, <1>5
<1>8. ~(Len(args) # 1 \/ args[1] \notin DOMAIN fs)
  BY <1>1
<1> QED
  BY <1>1, <1>6, <1>7, <1>8, Zenon DEF dis, head, args

(* DumpShowsProgram, for the call of the tool on a complete object. *)
LEMMA CompleteDump ==
    ASSUME Complete, out_filename \in DOMAIN fs
    PROVE  LET shown == dis(<<out_filename>>, fs)
           IN  /\ shown.status = 0 /\ shown.text.found
               /\ [k \in DOMAIN shown.text.lines |-> WordOf(shown.text.lines[k])] = text
               /\ [i \in DOMAIN shown.sections |->
                     <<shown.sections[i].name, shown.sections[i].size>>] =
                   <<<<<<>>, 0>>,
                     <<section_chars[".strtab"], Len(strtab)>>,
                     <<section_chars[".shstrtab"], Len(shstrtab)>>,
                     <<section_chars[".symtab"], SizeofSym * Len(symtab)>>,
                     <<section_chars[".text"], SizeofInsn * Len(text)>>,
                     <<section_chars[".data"], Len(data)>>>>
<1> DEFINE shown == dis(<<out_filename>>, fs)
           first == print_section_headers(Obj, TRUE, ReadHeader)
           second == print_text_section(Obj, TRUE, ReadHeader)
           rows == [i \in 1..6 |->
                      [name |-> NameAt(shstrtab, Loaded(i).sh_name), type |-> Loaded(i).sh_type,
                       offset |-> Loaded(i).sh_offset, size |-> Loaded(i).sh_size]]
           ls == [k \in 1..Len(text) |-> write(text[k], 4, LE)]
<1>1. TablesOK /\ SizesAgree /\ Addressable /\ shstrtab \in Bytes /\ Obj = Stream
  BY SectionNamesStored DEF Complete
<1>2. Obj \in Bytes /\ At(Obj, 0, Ehdr_serialize(FileHeader))
  BY <1>1, StreamLayout
<1>3. shown = [status |-> 0, sections |-> first.lines,
               text |-> print_text_section(Obj, first.ok, ReadHeader)]
  BY <1>1, <1>2, DumpOfObject, Zenon
<1>4. first.ok = TRUE /\ first.lines = rows
  BY SectionsPrinted, Zenon
<1>5. second.found = TRUE /\ second.lines = ls
  BY TextPrinted, Zenon
<1>6. shown = [status |-> 0, sections |-> rows, text |-> second]
  BY <1>3, <1>4, Zenon
<1> HIDE DEF shown, first, second, rows, ls
<1>7. shown.status = 0 /\ shown.sections = rows /\ shown.text = second
  BY <1>6
<1>8. [k \in DOMAIN shown.text.lines |-> WordOf(shown.text.lines[k])] = text
  <2>1. text \in Seq(Word) /\ Len(text) \in Nat
    BY <1>1, LenProperties DEF TablesOK
  <2>2. ASSUME NEW k \in 1..Len(text) PROVE WordOf(ls[k]) = text[k]
    <3>1. text[k] \in Word
      BY <2>1, ElementOfSeq
    <3>2. ls[k] = write(text[k], 4, LE)
      BY DEF ls
    <3> QED
      BY <3>1, <3>2, WordReadBack
  <2>3. DOMAIN ls = 1..Len(text) /\ shown.text.lines = ls
    BY <1>5, <1>7 DEF ls
  <2>4. text = [k \in 1..Len(text) |-> text[k]]
    BY <2>1
  <2>5. [k \in DOMAIN shown.text.lines |-> WordOf(shown.text.lines[k])]
          = [k \in 1..Len(text) |-> text[k]]
    BY <2>2, <2>3
  <2> QED
    BY <2>4, <2>5
<1>9. [i \in DOMAIN shown.sections |-> <<shown.sections[i].name, shown.sections[i].size>>] =
        <<<<<<>>, 0>>,
          <<section_chars[".strtab"], Len(strtab)>>,
          <<section_chars[".shstrtab"], Len(shstrtab)>>,
          <<section_chars[".symtab"], SizeofSym * Len(symtab)>>,
          <<section_chars[".text"], SizeofInsn * Len(text)>>,
          <<section_chars[".data"], Len(data)>>>>
  <2> DEFINE p1 == <<<<>>, 0>>
             p2 == <<section_chars[".strtab"], Len(strtab)>>
             p3 == <<section_chars[".shstrtab"], Len(shstrtab)>>
             p4 == <<section_chars[".symtab"], SizeofSym * Len(symtab)>>
             p5 == <<section_chars[".text"], SizeofInsn * Len(text)>>
             p6 == <<section_chars[".data"], Len(data)>>
             row == [i \in 1..6 |-> <<rows[i].name, rows[i].size>>]
  <2>1. DOMAIN rows = 1..6
    BY DEF rows
  <2>2. \A i \in 1..6 : rows[i].name = NameAt(shstrtab, Loaded(i).sh_name)
                        /\ rows[i].size = Headers[i].sh_size
    BY DEF rows, Loaded
  <2>3. /\ Headers[1].sh_size = 0 /\ Headers[2].sh_size = Len(strtab)
        /\ Headers[3].sh_size = Len(shstrtab) /\ Headers[4].sh_size = SizeofSym * Len(symtab)
        /\ Headers[5].sh_size = SizeofInsn * Len(text) /\ Headers[6].sh_size = Len(data)
    BY <1>1, HeaderFields DEF Header
  <2>4. /\ rows[1].name = <<>> /\ rows[2].name = section_chars[".strtab"]
        /\ rows[3].name = section_chars[".shstrtab"] /\ rows[4].name = section_chars[".symtab"]
        /\ rows[5].name = section_chars[".text"] /\ rows[6].name = section_chars[".data"]
    BY <2>2, NamesLoaded
  <2>5. /\ rows[1].size = 0 /\ rows[2].size = Len(strtab)
        /\ rows[3].size = Len(shstrtab) /\ rows[4].size = SizeofSym * Len(symtab)
        /\ rows[5].size = SizeofInsn * Len(text) /\ rows[6].size = Len(data)
    BY <2>2, <2>3
  <2>6. row[1] = p1 /\ row[2] = p2 /\ row[3] = p3 /\ row[4] = p4 /\ row[5] = p5 /\ row[6] = p6
    <3>1. /\ row[1] = <<rows[1].name, rows[1].size>> /\ row[2] = <<rows[2].name, rows[2].size>>
          /\ row[3] = <<rows[3].name, rows[3].size>> /\ row[4] = <<rows[4].name, rows[4].size>>
          /\ row[5] = <<rows[5].name, rows[5].size>> /\ row[6] = <<rows[6].name, rows[6].size>>
      OBVIOUS
    <3> QED
      BY <2>4, <2>5, <3>1, Zenon
  <2>7. row \in [1..6 -> {row[i] : i \in 1..6}]
    OBVIOUS
  <2> HIDE DEF p1, p2, p3, p4, p5, p6
  <2>8. row = <<p1, p2, p3, p4, p5, p6>>
    <3>1. \A i \in 1..6 : row[i] = <<p1, p2, p3, p4, p5, p6>>[i]
      <4>1. ASSUME NEW i \in 1..6 PROVE i = 1 \/ i = 2 \/ i = 3 \/ i = 4 \/ i = 5 \/ i = 6
        OBVIOUS
      <4> HIDE DEF row
      <4> QED
        BY <2>6, <4>1
    <3> QED
      BY <3>1
  <2>9. [i \in DOMAIN shown.sections |-> <<shown.sections[i].name, shown.sections[i].size>>] = row
    BY <1>7, <2>1
  <2> QED
    BY <2>8, <2>9 DEF p1, p2, p3, p4, p5, p6
<1>10. shown.text.found
  BY <1>5, <1>7
<1> QED
  BY <1>7, <1>8, <1>9, <1>10, Zenon DEF shown

-----------------------------------------------------------------------------
(***************************************************************************)
(* The dump tool on an object that was cut short.                          *)
(***************************************************************************)

(* The object is what serialize made, without its last n bytes. *)
Cut(n) == /\ TablesOK /\ SizesAgree /\ Addressable
          /\ n \in Nat \ {0} /\ Obj = SubSeq(Stream, 1, Len(Stream) - n)

(* What is left has the bytes of the whole, and is shorter. *)
LEMMA CutBytes ==
    ASSUME NEW n, Cut(n)
    PROVE  /\ Obj \in Bytes /\ Len(Obj) \in Nat /\ Len(Obj) < StreamEnd
           /\ \A e \in Bytes : At(Stream, 0, e) /\ Len(e) <= Len(Obj) => At(Obj, 0, e)
<1> DEFINE m == StreamEnd - n
           f == SubSeq(Stream, 1, m)
<1>1. TablesOK /\ Addressable /\ shstrtab \in Bytes /\ n \in Nat \ {0}
  BY SectionNamesStored DEF Cut
<1>2. Stream \in Bytes /\ Len(Stream) = StreamEnd
  BY <1>1, StreamLayout
<1>3. StreamEnd \in Nat /\ StreamEnd = HeadersAt + 240 /\ HeadersAt \in Nat
  BY <1>1, OffsetsFit
<1>4. m \in Int /\ m < StreamEnd
  BY <1>1, <1>3
<1>5. Obj = f
  BY <1>2 DEF Cut
<1> HIDE DEF Obj, m
<1>6. \A i \in 1..m : Stream[i] \in 0..255
  <2>1. ASSUME NEW i \in 1..m PROVE i \in 1..Len(Stream)
    BY <1>2, <1>3, <1>4
  <2> QED
    BY <1>2, <2>1, ElementOfSeq DEF Bytes
<1>7. /\ f \in Bytes /\ Len(f) = IF 1 <= m THEN m - 1 + 1 ELSE 0
      /\ \A i \in 1..(m - 1 + 1) : f[i] = Stream[1 + i - 1]
  BY <1>4, <1>6, SubSeqProperties DEF Bytes
<1> DEFINE k == Len(f)
<1>8. k \in Nat /\ k < StreamEnd /\ (k = 0 \/ k = m)
  <2>1. k = IF 1 <= m THEN m - 1 + 1 ELSE 0
    BY <1>7
  <2> HIDE DEF k
  <2> QED
    BY <1>3, <1>4, <2>1
<1>9. ASSUME NEW i \in 1..k PROVE f[i] = Stream[i]
  <2> HIDE DEF k, f
  <2>1. i \in 1..(m - 1 + 1) /\ 1 + i - 1 = i
    BY <1>4, <1>8
  <2> QED
    BY <1>7, <2>1
<1>10. ASSUME NEW e \in Bytes, At(Stream, 0, e), Len(e) <= k PROVE At(f, 0, e)
  <2> DEFINE l == Len(e)
  <2>1. l \in Nat /\ l <= k
    BY <1>10, LenProperties DEF Bytes
  <2>2. \A i \in 1..l : Stream[0 + i] = e[i]
    BY <1>10 DEF At
  <2>3. k = Len(f)
    OBVIOUS
  <2> HIDE DEF k, l, f
  <2>4. ASSUME NEW i \in 1..l PROVE f[0 + i] = e[i]
    <3>1. i \in 1..k /\ 0 + i = i
      BY <1>8, <2>1
    <3> QED
      BY <1>9, <2>2, <3>1
  <2>5. 0 + l <= k
    BY <1>8, <2>1
  <2> QED
    BY <2>3, <2>4, <2>5 DEF At, l
<1> QED
  BY <1>5, <1>7, <1>8, <1>10

(* A header of zeroes. *)
NoHeader == [sh_name |-> 0, sh_type |-> 0, sh_addr |-> 0, sh_offset |-> 0, sh_size |-> 0]

(* dis.cc lines 83-109 with the stream failed: no section is named .text,  *)
(* because the table of names is empty too.                                *)
LEMMA NothingPrinted ==
    ASSUME NEW f
    PROVE  print_text_section(f, FALSE, ReadHeader).found = FALSE
<1> DEFINE z == Zeroes(240)
           ss == [i \in 1..6 |-> ReadShdr(z, i - 1)]
           load == LoadSections(f, FALSE, ReadHeader)
           names == LoadNames(f, load.ok, ReadHeader, load.sections)
           index == SelectInSeq(load.sections,
                                LAMBDA s : NameAt(names.bytes, s.sh_name) = section_chars[".text"])
           sh == load.sections[index]
           content == Fetch(f, names.ok, sh.sh_offset, sh.sh_size).bytes
           Line(k) == SubSeq(content, 4 * k - 3, IF 4 * k < sh.sh_size THEN 4 * k ELSE sh.sh_size)
           shown == print_text_section(f, FALSE, ReadHeader)
           ls == [k \in 1..((sh.sh_size + 3) \div 4) |-> Line(k)]
<1>1. shown = IF index = 0 THEN [found |-> FALSE, lines |-> <<>>] ELSE [found |-> TRUE, lines |-> ls]
  BY Zenon DEF print_text_section
<1> HIDE DEF shown, ls
<1>2. /\ ReadHeader.e_shoff = HeadersAt /\ ReadHeader.e_shentsize * ReadHeader.e_shnum = 240
      /\ ReadHeader.e_shnum = 6 /\ ReadHeader.e_shstrndx + 1 = 3
  BY DEF ReadHeader
<1>3. load.ok = FALSE /\ load.sections = ss
  <2> DEFINE read == Fetch(f, FALSE, HeadersAt, 240)
  <2>1. 240 \in Nat
    OBVIOUS
  <2>2. read = [ok |-> FALSE, bytes |-> z]
    BY <2>1, FailedRead, ZenonT(60)
  <2>3. load = [ok |-> read.ok, sections |-> [i \in 1..6 |-> ReadShdr(read.bytes, i - 1)]]
    BY <1>2, Zenon DEF LoadSections
  <2> HIDE DEF read, z, load
  <2>4. read.ok = FALSE /\ read.bytes = z
    BY <2>2
  <2>5. load.ok = read.ok /\ load.sections = [i \in 1..6 |-> ReadShdr(read.bytes, i - 1)]
    BY <2>3
  <2> QED
    BY <2>4, <2>5, Zenon
<1>4. ASSUME NEW i \in 1..6 PROVE ss[i] = NoHeader
  <2> DEFINE at == SizeofShdr * (i - 1)
  <2>1. at \in Nat /\ at + 40 <= 240
    BY DEF SizeofShdr
  <2>2. \A k \in 1..240 : z[k] = 0
    BY DEF Zeroes
  <2> HIDE DEF z, at
  <2>3. ASSUME NEW j \in {0, 4, 12, 16, 20} PROVE Num(z, at + j, 4) = 0
    <3> DEFINE o == at + j
    <3>1. o \in Nat /\ o + 4 <= 240
      BY <2>1
    <3> HIDE DEF o
    <3>2. /\ o + 0 + 1 \in 1..240 /\ o + 1 + 1 \in 1..240
          /\ o + 2 + 1 \in 1..240 /\ o + 3 + 1 \in 1..240
      BY <3>1
    <3>3. z[o + 0 + 1] = 0 /\ z[o + 1 + 1] = 0 /\ z[o + 2 + 1] = 0 /\ z[o + 3 + 1] = 0
      BY <2>2, <3>2
    <3>4. 256^0 = 1 /\ 256^1 = 256 /\ 256^2 = 65536 /\ 256^3 = 16777216
      OBVIOUS
    <3>5. Num(z, o, 4) = 0
      BY <3>3, <3>4, SMT DEF Num
    <3> QED
      BY <3>5 DEF o
  <2>4. Num(z, at + 0, 4) = 0 /\ at + 0 = at
    BY <2>1, <2>3
  <2>5. Num(z, at, 4) = 0
    BY <2>4
  <2>6. /\ Num(z, at + 4, 4) = 0 /\ Num(z, at + 12, 4) = 0
        /\ Num(z, at + 16, 4) = 0 /\ Num(z, at + 20, 4) = 0
    BY <2>3
  <2>7. ReadShdr(z, i - 1) = NoHeader
    BY <2>5, <2>6 DEF ReadShdr, NoHeader, at
  <2> QED
    BY <2>7
<1>5. Len(ss) = 6
  <2>1. 6 \in Nat /\ ss \in [1..6 -> {ReadShdr(z, i - 1) : i \in 1..6}]
    OBVIOUS
  <2> HIDE DEF ss
  <2> QED
    BY <2>1, SeqOfLength, Zenon
<1> HIDE DEF ss, load
<1>6. names.bytes = <<>>
  <2>1. ss[3].sh_offset = 0 /\ ss[3].sh_size = 0
    BY <1>4 DEF NoHeader
  <2>2. Zeroes(0) = <<>>
    BY DEF Zeroes
  <2>3. names = Fetch(f, FALSE, 0, 0)
    BY <1>2, <1>3, <2>1, Zenon DEF LoadNames
  <2>4. 0 \in Nat
    OBVIOUS
  <2>5. names = [ok |-> FALSE, bytes |-> Zeroes(0)]
    BY <2>3, <2>4, FailedRead, Zenon
  <2> HIDE DEF names
  <2> QED
    BY <2>2, <2>5
<1> HIDE DEF names
<1>7. NameAt(<<>>, 0) = BadName
  BY DEF NameAt
<1>8. index = 0
  <2> DEFINE IsText(s) == NameAt(names.bytes, s.sh_name) = section_chars[".text"]
             I == {i \in 1..Len(load.sections) : IsText(load.sections[i])}
  <2>1. index = IF I # {} THEN Min(I) ELSE 0
    BY Zenon DEF SelectInSeq
  <2>2. ASSUME NEW i \in 1..6 PROVE ~IsText(ss[i])
    <3>1. ss[i].sh_name = 0
      BY <1>4 DEF NoHeader
    <3>2. NameAt(names.bytes, ss[i].sh_name) = BadName
      BY <1>6, <1>7, <3>1
    <3> QED
      BY <3>2, SectionCharsDiffer
  <2> HIDE DEF IsText
  <2>3. I = {}
    BY <1>3, <1>5, <2>2
  <2> HIDE DEF I, index
  <2> QED
    BY <2>1, <2>3
<1> HIDE DEF index
<1>9. shown = [found |-> FALSE, lines |-> <<>>]
  BY <1>1, <1>8
<1>10. shown.found = FALSE
  BY <1>9
<1> QED
  BY <1>10 DEF shown

(* TruncationShowsNothing, for the call of the tool on such an object. *)
LEMMA CutDump ==
    ASSUME NEW n, Cut(n), out_filename \in DOMAIN fs
    PROVE  LET shown == dis(<<out_filename>>, fs)
           IN  shown.sections = <<>> /\ ~shown.text.found
<1> DEFINE shown == dis(<<out_filename>>, fs)
           args == <<out_filename>>
           e == Ehdr_serialize(FileHeader)
<1>1. TablesOK /\ SizesAgree /\ Addressable /\ shstrtab \in Bytes
  BY SectionNamesStored DEF Cut
<1>2. /\ Obj \in Bytes /\ Len(Obj) \in Nat /\ Len(Obj) < StreamEnd
      /\ At(Stream, 0, e) /\ Len(e) <= Len(Obj) => At(Obj, 0, e)
  BY CutBytes, EhdrBytes
<1>3. At(Stream, 0, e) /\ Len(e) = 52
  BY <1>1, StreamLayout, EhdrBytes
<1>4. HeadersAt \in Nat /\ StreamEnd = HeadersAt + 240
  BY <1>1, OffsetsFit
<1>5. Len(args) = 1 /\ args[1] = out_filename /\ fs[args[1]] = Obj
  BY DEF Obj
<1> HIDE DEF Obj, e
<1>6. CASE Len(Obj) < 52
  <2> DEFINE head == Fetch(Obj, TRUE, 0, SizeofEhdr)
  <2>1. 52 \in Nat /\ 52 > 0 /\ ~(0 + 52 <= Len(Obj))
    BY <1>2, <1>6
  <2>2. head.ok = FALSE
    BY <2>1, FailedRead, Zenon DEF SizeofEhdr
  <2>3. ~(Len(args) # 1 \/ args[1] \notin DOMAIN fs)
    BY <1>5
  <2> HIDE DEF args
  <2>4. dis(args, fs) = NoDump
    BY <1>5, <2>2, <2>3, Zenon DEF dis
  <2> HIDE DEF head
  <2>5. NoDump.sections = <<>> /\ ~NoDump.text.found
    BY DEF NoDump
  <2> QED
    BY <2>4, <2>5, Zenon DEF args
<1>7. CASE ~(Len(Obj) < 52)
  <2> DEFINE first == print_section_headers(Obj, TRUE, ReadHeader)
             second == print_text_section(Obj, first.ok, ReadHeader)
             load == LoadSections(Obj, TRUE, ReadHeader)
  <2>1. At(Obj, 0, Ehdr_serialize(FileHeader))
    BY <1>2, <1>3, <1>7 DEF e
  <2>2. shown = [status |-> 0, sections |-> first.lines, text |-> second]
    BY <1>1, <1>2, <2>1, DumpOfObject, Zenon
  <2>3. load.ok = FALSE
    <3> DEFINE read == Fetch(Obj, TRUE, HeadersAt, 240)
               size == 240
    <3>1. size \in Nat /\ size > 0 /\ ~(HeadersAt + size <= Len(Obj))
      BY <1>2, <1>4
    <3>2. read.ok = FALSE
      <4>1. read = Fetch(Obj, TRUE, HeadersAt, size)
        OBVIOUS
      <4> HIDE DEF size, read
      <4>2. Fetch(Obj, TRUE, HeadersAt, size).ok = FALSE
        BY <3>1, FailedRead, Zenon
      <4> QED
        BY <4>1, <4>2
    <3>3. ReadHeader.e_shoff = HeadersAt /\ ReadHeader.e_shentsize * ReadHeader.e_shnum = 240
      BY DEF ReadHeader
    <3>4. load = [ok |-> read.ok,
                  sections |-> [i \in 1..ReadHeader.e_shnum |-> ReadShdr(read.bytes, i - 1)]]
      BY <3>3, Zenon DEF LoadSections
    <3> HIDE DEF read, load
    <3>5. load.ok = read.ok
      BY <3>4
    <3> QED
      BY <3>2, <3>5
  <2>4. first = [ok |-> FALSE, lines |-> <<>>]
    BY <2>3, Zenon DEF print_section_headers
  <2> HIDE DEF first, shown
  <2>5. first.ok = FALSE /\ first.lines = <<>>
    BY <2>4
  <2>6. second = print_text_section(Obj, FALSE, ReadHeader)
    BY <2>5, Zenon
  <2>7. second.found = FALSE
    BY <2>6, NothingPrinted
  <2> HIDE DEF second
  <2>8. shown.sections = <<>> /\ ~shown.text.found
    BY <2>2, <2>5, <2>7
  <2> QED
    BY <2>8 DEF shown
<1> QED
  BY <1>6, <1>7

-----------------------------------------------------------------------------
(***************************************************************************)
(* The symbols of a complete object.                                       *)
(***************************************************************************)

(* The bytes a linker gets for each section, the names it reads, and the   *)
(* place of the symbol table.                                              *)
LEMMA SectionContents ==
    ASSUME Complete
    PROVE  /\ SectionBytes(1) = strtab /\ SectionBytes(2) = shstrtab
           /\ SectionBytes(3) = SymtabBytes /\ SectionBytes(5) = data
           /\ SymtabIndex = 3 /\ ShAt(SymtabIndex, 24) = 1
           /\ SectionName(0) = <<>> /\ SectionName(1) = section_chars[".strtab"]
           /\ SectionName(2) = section_chars[".shstrtab"]
           /\ SectionName(3) = section_chars[".symtab"]
           /\ SectionName(4) = section_chars[".text"] /\ SectionName(5) = section_chars[".data"]
<1>1. TablesOK /\ SizesAgree /\ Addressable /\ shstrtab \in Bytes /\ Obj = Stream
  BY SectionNamesStored DEF Complete
<1>2. /\ Obj \in Bytes
      /\ ReadEhdr(Obj) = [e_shoff |-> HeadersAt, e_shentsize |-> 40, e_shnum |-> 6, e_shstrndx |-> 2]
      /\ \A i \in 0..5 :
            /\ ShAt(i, 0) = Headers[i + 1].sh_name /\ ShAt(i, 4) = Headers[i + 1].sh_type
            /\ ShAt(i, 16) = Headers[i + 1].sh_offset /\ ShAt(i, 20) = Headers[i + 1].sh_size
            /\ ShAt(i, 24) = Headers[i + 1].sh_link
  BY SectionsOfObject
<1>3. /\ At(Obj, DataAt, data) /\ At(Obj, StrtabAt, strtab) /\ At(Obj, ShstrtabAt, shstrtab)
      /\ At(Obj, SymtabAt, SymtabBytes) /\ SymtabBytes \in Bytes
      /\ Len(SymtabBytes) = SizeofSym * Len(symtab)
  BY <1>1, StreamLayout, SymtabPacked DEF SizeofSym
<1>4. data \in Bytes /\ strtab \in Bytes
  BY <1>1 DEF TablesOK, Bytes
<1>5. DataAt \in Nat /\ StrtabAt \in Nat /\ ShstrtabAt \in Nat /\ SymtabAt \in Nat
  BY <1>1, OffsetsFit
<1> HIDE DEF Obj
<1>6. ASSUME NEW i, NEW off \in Nat, NEW s \in Bytes, At(Obj, off, s),
             ShAt(i, 16) = off, ShAt(i, 20) = Len(s)
      PROVE  SectionBytes(i) = s
  <2>1. SubSeq(Obj, off + 1, off + Len(s)) = s
    BY <1>2, <1>6, AtSubSeq
  <2> QED
    BY <1>6, <2>1, Zenon DEF SectionBytes
<1>7. SectionBytes(1) = strtab
  <2>1. ShAt(1, 16) = StrtabAt /\ ShAt(1, 20) = Len(strtab)
    BY <1>1, <1>2, HeaderFields DEF Header
  <2> QED
    BY <1>3, <1>4, <1>5, <1>6, <2>1
<1>8. SectionBytes(2) = shstrtab
  <2>1. ShAt(2, 16) = ShstrtabAt /\ ShAt(2, 20) = Len(shstrtab)
    BY <1>1, <1>2, HeaderFields DEF Header
  <2> QED
    BY <1>1, <1>3, <1>5, <1>6, <2>1
<1>9. SectionBytes(3) = SymtabBytes
  <2>1. ShAt(3, 16) = SymtabAt /\ ShAt(3, 20) = Len(SymtabBytes)
    BY <1>1, <1>2, <1>3, HeaderFields DEF Header
  <2> QED
    BY <1>3, <1>5, <1>6, <2>1
<1>10. SectionBytes(5) = data
  <2>1. ShAt(5, 16) = DataAt /\ ShAt(5, 20) = Len(data)
    BY <1>1, <1>2, HeaderFields DEF Header
  <2> QED
    BY <1>3, <1>4, <1>5, <1>6, <2>1
<1>11. SymtabIndex = 3
  <2>1. /\ ShAt(0, 4) = 0 /\ ShAt(1, 4) = 3 /\ ShAt(2, 4) = 3 /\ ShAt(3, 4) = 2
        /\ ShAt(4, 4) = 1 /\ ShAt(5, 4) = 1
    BY <1>1, <1>2, HeaderFields DEF Header, SHT_NULL, SHT_STRTAB, SHT_SYMTAB, SHT_PROGBITS
  <2>2. SectionIndices = 0..5
    BY <1>2 DEF SectionIndices
  <2>3. ASSUME NEW i \in 0..5 PROVE i = 0 \/ i = 1 \/ i = 2 \/ i = 3 \/ i = 4 \/ i = 5
    OBVIOUS
  <2>4. \A i \in SectionIndices : ShAt(i, 4) = SHT_SYMTAB <=> i = 3
    BY <2>1, <2>2, <2>3 DEF SHT_SYMTAB
  <2>5. 3 \in SectionIndices
    BY <2>2
  <2> QED
    BY <2>4, <2>5 DEF SymtabIndex
<1>12. ShAt(SymtabIndex, 24) = 1
  BY <1>1, <1>2, <1>11, HeaderFields DEF Header
<1>13. ReadEhdr(Obj).e_shstrndx = 2
  BY <1>2
<1>14. ASSUME NEW i \in 0..5 PROVE SectionName(i) = NameAt(shstrtab, Loaded(i + 1).sh_name)
  BY <1>2, <1>8, <1>13 DEF SectionName, Loaded
<1>15. /\ SectionName(0) = <<>> /\ SectionName(1) = section_chars[".strtab"]
       /\ SectionName(2) = section_chars[".shstrtab"] /\ SectionName(3) = section_chars[".symtab"]
       /\ SectionName(4) = section_chars[".text"] /\ SectionName(5) = section_chars[".data"]
  BY <1>14, NamesLoaded
<1> QED
  BY <1>7, <1>8, <1>9, <1>10, <1>11, <1>12, <1>15

(* What is shown of the tables while the program is parsed. *)
TablesReadable == IndicesKept /\ HomesKnown /\ DataIntact /\ Strings!IInv

(* A symbol is read as it was written. *)
LEMMA SymbolRead ==
    ASSUME Complete, TablesReadable, NEW k \in 1..(Len(symtab) - 1)
    PROVE  LET s == symtab[k + 1]
           IN  /\ s \in SymEntry /\ SymAt(k, 0, 4) = s.st_name
               /\ ReadableAt(strtab, s.st_name, Chars[s.name]) /\ Chars[s.name] \in Seq(1..255)
               /\ DataSymbol(s) =>
                     /\ s.st_shndx \in 0..5 /\ SymAt(k, 14, 2) = s.st_shndx
                     /\ SymAt(k, 4, 4) = s.st_value /\ At(data, s.st_value, s.val)
<1> DEFINE s == symtab[k + 1]
           b == Sym_serialize(s)
           off == 16 * k
<1>1. TablesOK /\ Addressable /\ symtab \in Seq(SymEntry) /\ Len(symtab) \in Nat
  BY LenProperties DEF Complete, TablesOK
<1>2. k + 1 \in 1..Len(symtab) /\ k + 1 \in 2..Len(symtab) /\ off \in Nat /\ off = 16 * ((k + 1) - 1)
  BY <1>1
<1>3. s \in SymEntry /\ s.st_name \in Nat /\ s.st_value \in Nat /\ s.val \in Bytes
  <2>1. s \in SymEntry
    BY <1>1, <1>2, ElementOfSeq
  <2> HIDE DEF s
  <2> QED
    BY <2>1 DEF SymEntry, Bytes
<1>4. SymtabBytes \in Bytes /\ At(SymtabBytes, off, b)
  <2>1. /\ SymtabBytes \in Bytes
        /\ \A j \in 1..Len(symtab) : At(SymtabBytes, 16 * (j - 1), Sym_serialize(symtab[j]))
    BY <1>1, SymtabPacked
  <2> QED
    BY <1>2, <2>1
<1>5. /\ b \in Bytes /\ At(b, 0, Elf32_Word(s.st_name)) /\ At(b, 4, Elf32_Word(s.st_value))
      /\ At(b, 14, Elf32_Half(s.st_shndx))
  BY SymBytes
<1>6. /\ s.name \in Names /\ Strings!HoldsAt(strtab, s.st_name, Chars[s.name])
  <2> DEFINE stored == {<<symtab[j].st_name, symtab[j].name>> : j \in 2..Len(symtab)}
             x == <<s.st_name, s.name>>
  <2>1. x \in stored
    BY <1>2
  <2>2. stored \subseteq Nat \X Names
    BY DEF TablesReadable, Strings!IInv, Strings!TypeOK
  <2>3. \A e \in stored : Strings!HoldsAt(strtab, e[1], Chars[e[2]])
    BY DEF TablesReadable, Strings!IInv, Strings!StoredIntact
  <2> HIDE DEF stored
  <2>4. x[1] = s.st_name /\ x[2] = s.name
    OBVIOUS
  <2>5. x \in Nat \X Names
    BY <2>1, <2>2
  <2>6. s.name \in Names
    BY <2>5
  <2> QED
    BY <2>1, <2>3, <2>4, <2>6, Zenon
<1>7. Chars[s.name] \in Seq(1..255) /\ ReadableAt(strtab, s.st_name, Chars[s.name])
  BY <1>3, <1>6, CharsAssumption DEF ReadableAt
<1>8. \A o, size : SymAt(k, o, size) = Num(SymtabBytes, off + o, size)
  BY SectionContents DEF SymAt, SizeofSym
<1>9. Len(strtab) \in Nat /\ Len(data) \in Nat /\ Len(strtab) <= MaxOffset /\ Len(data) <= MaxOffset
      /\ MaxOffset \in Nat
  <2> DEFINE a == SizeofInsn * Len(text)  bb == Len(data)  c == Len(strtab)  d == Len(shstrtab)
             e == SizeofSym * Len(symtab)
  <2>1. /\ StreamEnd \in Nat /\ HeadersAt \in Nat /\ SymtabAt \in Nat /\ ShstrtabAt \in Nat
        /\ StrtabAt \in Nat /\ DataAt \in Nat /\ TextAt = 52
        /\ a \in Nat /\ bb \in Nat /\ c \in Nat /\ d \in Nat /\ e \in Nat
        /\ DataAt = TextAt + a /\ StrtabAt = DataAt + bb
        /\ ShstrtabAt = StrtabAt + c /\ SymtabAt = ShstrtabAt + d /\ HeadersAt = SymtabAt + e
        /\ StreamEnd = HeadersAt + 240 /\ StreamEnd <= MaxOffset
    BY <1>1, OffsetsFit
  <2>2. MaxOffset \in Nat
    BY SMT DEF MaxOffset
  <2> HIDE DEF a, bb, c, d, e
  <2>3. bb <= MaxOffset /\ c <= MaxOffset
    BY <2>1, <2>2
  <2> QED
    BY <2>1, <2>2, <2>3 DEF bb, c
<1> HIDE DEF s, b, off
<1>10. SymAt(k, 0, 4) = s.st_name
  <2> DEFINE l == Len(Chars[s.name])
             n == s.st_name
             m == Len(strtab)
  <2>1. n \in Nat /\ l \in Nat /\ n + l < m /\ m \in Nat /\ m <= MaxOffset
    BY <1>3, <1>6, <1>7, <1>9, LenProperties DEF Strings!HoldsAt
  <2> HIDE DEF l, n, m
  <2>2. n <= MaxOffset
    BY <1>9, <2>1
  <2>3. At(SymtabBytes, off + 0, Elf32_Word(n))
    BY <1>2, <1>4, <1>5, FieldBytes, AtWithin DEF n
  <2>4. off + 0 \in Nat
    BY <1>2
  <2>5. Num(SymtabBytes, off + 0, 4) = n
    BY <1>4, <2>1, <2>2, <2>3, <2>4, ReadWord
  <2> QED
    BY <1>8, <2>5 DEF n
<1>11. ASSUME DataSymbol(s)
       PROVE  /\ s.st_shndx \in 0..5 /\ SymAt(k, 14, 2) = s.st_shndx
              /\ SymAt(k, 4, 4) = s.st_value /\ At(data, s.st_value, s.val)
  <2>1. s.st_shndx \in 0..5
    BY <1>2, <1>11 DEF TablesReadable, HomesKnown, s
  <2>2. /\ s.st_value + Len(s.val) <= Len(data)
        /\ \A n \in 1..Len(s.val) : data[s.st_value + n] = s.val[n]
    BY <1>2, <1>11 DEF TablesReadable, DataIntact, s
  <2>3. At(data, s.st_value, s.val)
    BY <2>2 DEF At
  <2>4. SymAt(k, 14, 2) = s.st_shndx
    <3> DEFINE n == s.st_shndx
    <3>1. n \in Nat /\ n <= 65535
      BY <2>1
    <3> HIDE DEF n
    <3>2. At(SymtabBytes, off + 14, Elf32_Half(n)) /\ off + 14 \in Nat
      BY <1>2, <1>4, <1>5, FieldBytes, AtWithin DEF n
    <3>3. Num(SymtabBytes, off + 14, 2) = n
      BY <1>4, <3>1, <3>2, ReadHalf
    <3> QED
      BY <1>8, <3>3 DEF n
  <2>5. SymAt(k, 4, 4) = s.st_value
    <3> DEFINE n == s.st_value
               l == Len(s.val)
               m == Len(data)
    <3>1. n \in Nat /\ l \in Nat /\ n + l <= m /\ m \in Nat /\ m <= MaxOffset
      BY <1>3, <1>9, <2>2, LenProperties DEF Bytes
    <3> HIDE DEF n, l, m
    <3>2. n <= MaxOffset
      BY <1>9, <3>1
    <3>3. At(SymtabBytes, off + 4, Elf32_Word(n)) /\ off + 4 \in Nat
      BY <1>2, <1>4, <1>5, <3>1, FieldBytes, AtWithin DEF n
    <3>4. Num(SymtabBytes, off + 4, 4) = n
      BY <1>4, <3>1, <3>2, <3>3, ReadWord
    <3> QED
      BY <1>8, <3>4 DEF n
  <2> QED
    BY <2>1, <2>3, <2>4, <2>5
<1> QED
  BY <1>3, <1>7, <1>10, <1>11 DEF s

(* LinkerView, for a complete object. *)
LEMMA LinkedObject ==
    ASSUME Complete, TablesReadable
    PROVE  LinkerView
<1> DEFINE strings == SectionBytes(ShAt(SymtabIndex, 24))
           Home(k) == SymAt(k, 14, 2)
           Value(k) == SymAt(k, 4, 4)
           Sized == Len(SectionBytes(SymtabIndex)) = SizeofSym * Len(symtab)
           Indexed == \A s \in {".symtab", ".text", ".data"} :
                         SectionName(section_to_idx[s]) = section_chars[s]
           Named(k) == NameAt(strings, SymAt(k, 0, 4)) = Chars[symtab[k + 1].name]
           ValueKept(k) == DataSymbol(symtab[k + 1]) /\ SectionName(Home(k)) = section_chars[".data"] =>
                           SubSeq(SectionBytes(Home(k)), Value(k) + 1,
                                  Value(k) + Len(symtab[k + 1].val)) = symtab[k + 1].val
<1>1. strings = strtab /\ strtab \in Bytes /\ data \in Bytes
  BY SectionContents DEF Complete, TablesOK, Bytes
<1>2. Sized
  <2>1. Len(SymtabBytes) = 16 * Len(symtab)
    BY SymtabPacked DEF Complete
  <2> QED
    BY <2>1, SectionContents DEF SizeofSym
<1>3. Indexed
  <2>1. section_to_idx[".symtab"] = 3 /\ section_to_idx[".text"] = 4 /\ section_to_idx[".data"] = 5
    BY DEF TablesReadable, IndicesKept
  <2> QED
    BY <2>1, SectionContents
<1>4. ASSUME NEW k \in 1..(Len(symtab) - 1) PROVE Named(k)
  <2> DEFINE str == Chars[symtab[k + 1].name]
             off == symtab[k + 1].st_name
  <2>1. SymAt(k, 0, 4) = off /\ ReadableAt(strtab, off, str) /\ str \in Seq(1..255)
    BY SymbolRead
  <2> HIDE DEF str, off, strings
  <2>2. NameAt(strtab, off) = str
    BY <1>1, <2>1, NameFound
  <2> QED
    BY <1>1, <2>1, <2>2 DEF str
<1>5. ASSUME NEW k \in 1..(Len(symtab) - 1) PROVE ValueKept(k)
  <2> DEFINE s == symtab[k + 1]
  <2> SUFFICES ASSUME DataSymbol(s), SectionName(Home(k)) = section_chars[".data"]
               PROVE  SubSeq(SectionBytes(Home(k)), Value(k) + 1, Value(k) + Len(s.val)) = s.val
    OBVIOUS
  <2>1. s \in SymEntry /\ Home(k) \in 0..5 /\ Value(k) = s.st_value /\ At(data, s.st_value, s.val)
    BY SymbolRead
  <2>2. s.st_value \in Nat /\ s.val \in Bytes
    <3> HIDE DEF s
    <3> QED
      BY <2>1 DEF SymEntry, Bytes
  <2> DEFINE h == Home(k)
             v == s.st_value
             bytes == s.val
  <2> HIDE DEF h, v, bytes
  <2>3. h = 5
    <3>1. h \in 0..5 /\ SectionName(h) = section_chars[".data"]
      BY <2>1 DEF h
    <3>2. h = 0 \/ h = 1 \/ h = 2 \/ h = 3 \/ h = 4 \/ h = 5
      BY <3>1
    <3> QED
      BY <3>1, <3>2, SectionContents, SectionCharsDiffer, Zenon
  <2>4. SubSeq(data, v + 1, v + Len(bytes)) = bytes
    BY <1>1, <2>1, <2>2, AtSubSeq DEF v, bytes
  <2>5. SectionBytes(h) = data
    BY <2>3, SectionContents
  <2> QED
    BY <2>1, <2>4, <2>5 DEF h, v, bytes
<1> HIDE DEF strings, Sized, Indexed
<1>6. Sized /\ Indexed /\ \A k \in 1..(Len(symtab) - 1) : Named(k) /\ ValueKept(k)
  BY <1>2, <1>3, <1>4, <1>5, Zenon
<1> QED
  BY <1>6, Zenon DEF LinkerView, strings, Sized, Indexed

(***************************************************************************)
(* The string table of the assembler.                                      *)
(***************************************************************************)

(* The names of the symbols are kept in a StringTable, so that what is     *)
(* proved of it holds of .strtab.                                          *)
LEMMA StringsStayIntact == Spec => []Strings!IInv
<1>1. Strtab!Init <=> Strings!Init
  BY Zenon DEF Strtab!Init, Strings!Init, Strtab!NUL, Strings!NUL
<1>2. Strtab!Next <=> Strings!Next
  BY Zenon DEF Strtab!Next, Strings!Next, Strtab!add_string, Strings!add_string, Strtab!NUL, Strings!NUL,
     Strtab!add_string_data, Strings!add_string_data, Strtab!add_string_offset, Strings!add_string_offset
<1>3. Strtab!vars = Strings!vars
  BY Zenon DEF Strtab!vars, Strings!vars
<1>4. [Strtab!Next]_(Strtab!vars) <=> [Strings!Next]_(Strings!vars)
  BY <1>2 DEF Strtab!vars, Strings!vars
<1>5. Strings!Spec => []Strings!IInv
  BY CharsAssumption, Strings!TableCorrect
<1> QED
  BY <1>1, <1>4, <1>5, ImplementsStringTable, PTL DEF StrtabSpec, Strtab!Spec, Strings!Spec



-----------------------------------------------------------------------------
(***************************************************************************)
(* The file under the name of the output, from write_elf on.               *)
(***************************************************************************)

(* What write_elf stored is what it made of the tables, whole or without   *)
(* some of its end, and the tables are still the same; the dump tool has   *)
(* shown the files as they are.                                            *)
ObjectStored ==
    /\ file = "complete" => out_filename \in DOMAIN fs /\ Obj = Stream
    /\ file = "partial" => /\ out_filename \in DOMAIN fs
                           /\ \E n \in Lost : Obj = SubSeq(Stream, 1, Len(Stream) - n)
    /\ dump.called => status # "running" /\ dump.printed = dis(dump.args, fs)

(* elf.cc line 499, dis.cc lines 127-162: after write_elf no step changes  *)
(* the object or the tables it was made of, and the tool runs after it.    *)
LEMMA ObjectStaysStored == ToolSpec => []ObjectStored
<1>1. InitTools => ObjectStored
  <2> SUFFICES ASSUME InitTools PROVE ObjectStored
    OBVIOUS
  <2>1. file = "none" /\ dump = [called |-> FALSE, args |-> <<>>, printed |-> NoDump]
    BY DEF InitTools, Init
  <2>2. ~dump.called
    BY <2>1
  <2> QED
    BY <2>1, <2>2 DEF ObjectStored
<1>2. ASSUME TypeOK, SecondPass, ToolInv, ObjectStored, [NextTools]_allVars PROVE ObjectStored'
  <2>1. ASSUME UNCHANGED <<text, data, strtab, symtab, sh_size, fs, out_filename, file>>
        PROVE  /\ file' = "complete" => out_filename' \in DOMAIN fs' /\ Obj' = Stream'
               /\ file' = "partial" =>
                    /\ out_filename' \in DOMAIN fs'
                    /\ \E n \in Lost : Obj' = SubSeq(Stream', 1, Len(Stream') - n)
    <3>1. Obj' = Obj /\ Stream' = Stream
      BY <2>1 DEF Obj, Stream
    <3> QED
      BY <1>2, <2>1, <3>1 DEF ObjectStored
  <2>2. ASSUME UNCHANGED <<dump, status, fs>>
        PROVE  dump'.called => status' # "running" /\ dump'.printed = dis(dump'.args, fs')
    BY <1>2, <2>2 DEF ObjectStored
  <2>3. CASE Usage \/ CannotOpen \/ Return
    <3>1. /\ UNCHANGED <<vars, command, fs, dump>> /\ status' # "running"
      BY <2>3 DEF Usage, CannotOpen, Return, exit_status
    <3>2. UNCHANGED <<text, data, strtab, symtab, sh_size, fs, out_filename, file>>
      BY <3>1 DEF vars, tables, command, output
    <3> QED
      BY <1>2, <2>1, <3>1, <3>2 DEF ObjectStored
  <2>4. CASE SetFilenames
    <3>1. out_filename = <<>> /\ UNCHANGED <<vars, status, fs, dump>>
      BY <2>4 DEF SetFilenames
    <3>2. file' = "none"
      BY <1>2, <3>1 DEF ToolInv, OutputNamed, vars, output
    <3> QED
      BY <2>2, <3>1, <3>2 DEF ObjectStored
  <2>5. CASE Assemble
    <3>1. UNCHANGED <<status, fs, dump>> /\ ParseStep
      BY <2>5 DEF Assemble, toolVars
    <3>2. UNCHANGED file /\ pc \in Parsing \cup {"resolve"}
      BY <1>2, <3>1, ParseSteps DEF ResolveEntry
    <3>3. file' = "none"
      BY <1>2, <3>2 DEF SecondPass, Parsing, Final
    <3> QED
      BY <2>2, <3>1, <3>3 DEF ObjectStored
  <2>6. CASE write_elf
    <3>1. /\ WriteElf /\ UNCHANGED <<command, status, dump>>
          /\ \/ file' = "none" /\ UNCHANGED fs
             \/ file' = "complete" /\ fs' = Stored(Stream)
             \/ file' = "partial" /\ \E n \in Lost : fs' = Stored(SubSeq(Stream, 1, Len(Stream) - n))
      BY <2>6 DEF write_elf, Stream
    <3>2. UNCHANGED <<text, data, strtab, symtab, sh_size, out_filename>> /\ Stream' = Stream
      BY <3>1 DEF WriteElf, tables, command, Stream
    <3>3. ~dump.called
      BY <1>2, <3>1 DEF WriteElf, ObjectStored, ToolInv, OutputNamed, FilesKept, Final
    <3>4. ASSUME NEW bytes, fs' = Stored(bytes) PROVE out_filename' \in DOMAIN fs' /\ Obj' = bytes
      BY <3>2, <3>4 DEF Stored, Put, Obj
    <3>5. file' = "complete" => out_filename' \in DOMAIN fs' /\ Obj' = Stream'
      BY <3>1, <3>2, <3>4
    <3>6. file' = "partial" =>
             /\ out_filename' \in DOMAIN fs'
             /\ \E n \in Lost : Obj' = SubSeq(Stream', 1, Len(Stream') - n)
      <4> SUFFICES ASSUME file' = "partial"
                   PROVE  /\ out_filename' \in DOMAIN fs'
                          /\ \E n \in Lost : Obj' = SubSeq(Stream', 1, Len(Stream') - n)
        OBVIOUS
      <4>1. PICK n \in Lost : fs' = Stored(SubSeq(Stream, 1, Len(Stream) - n))
        BY <3>1
      <4>2. out_filename' \in DOMAIN fs' /\ Obj' = SubSeq(Stream, 1, Len(Stream) - n)
        BY <3>4, <4>1
      <4> QED
        BY <3>2, <4>2
    <3> QED
      BY <3>1, <3>3, <3>5, <3>6 DEF ObjectStored
  <2>7. ASSUME NEW args, RunDis(args) PROVE ObjectStored'
    <3>1. /\ status # "running" /\ UNCHANGED <<vars, command, status, fs>>
          /\ dump' = [called |-> TRUE, args |-> args, printed |-> dis(args, fs)]
      BY <2>7 DEF RunDis
    <3>2. UNCHANGED <<text, data, strtab, symtab, sh_size, fs, out_filename, file>>
      BY <3>1 DEF vars, tables, command, output
    <3>3. dump'.args = args /\ dump'.printed = dis(args, fs) /\ fs' = fs
      BY <3>1
    <3> QED
      BY <2>1, <3>1, <3>2, <3>3 DEF ObjectStored
  <2>8. CASE Done \/ UNCHANGED allVars
    <3>1. UNCHANGED <<vars, command, status, fs, dump>>
      BY <2>8 DEF Done, allVars, toolVars
    <3>2. UNCHANGED <<text, data, strtab, symtab, sh_size, fs, out_filename, file>>
      BY <3>1 DEF vars, tables, command, output
    <3> QED
      BY <2>1, <2>2, <3>1, <3>2 DEF ObjectStored
  <2> QED
    BY <1>2, <2>3, <2>4, <2>5, <2>6, <2>7, <2>8 DEF NextTools
<1> QED
  BY <1>1, <1>2, ToolInvStays, ToolchainRunsAssembler, TypeCorrect, PassInOrder, PTL DEF ToolSpec

(* elf.cc lines 434-499: the header, the sections and the section headers  *)
(* of every object that was written whole fill the file, each byte in      *)
(* exactly one of them.                                                    *)
THEOREM RegionsDoTile == ToolSpec => []RegionsTile
<1>1. ASSUME TypeOK, SizesAgree, ObjectStored PROVE RegionsTile
  <2>1. Written => Complete
    BY <1>1 DEF Written, ObjectStored, Complete, TypeOK
  <2>2. ~Written => RegionsTile
    BY Zenon DEF RegionsTile
  <2> QED
    BY <2>1, <2>2, ObjectTiles
<1> QED
  BY <1>1, ObjectStaysStored, ToolchainRunsAssembler, TypeCorrect, HeadersAgree, PTL

(* elf.cc lines 83-97, 113, 138, 451-456: in every object that was written *)
(* whole a reader who has only the file finds every symbol by its name,    *)
(* and behind a symbol of .data the bytes that were stored for it.         *)
THEOREM LinkersFindSymbols == ToolSpec => []LinkerView
<1>1. ASSUME TypeOK, SizesAgree, IndicesKept /\ HomesKnown, DataIntact, Strings!IInv, ObjectStored
      PROVE  LinkerView
  <2>1. Written => Complete /\ TablesReadable
    BY <1>1 DEF Written, ObjectStored, Complete, TypeOK, TablesReadable
  <2>2. ~Written => LinkerView
    BY Zenon DEF LinkerView
  <2> QED
    BY <2>1, <2>2, LinkedObject
<1> QED
  BY <1>1, ObjectStaysStored, ToolchainRunsAssembler, TypeCorrect, HeadersAgree, IndicesStay,
     DataStaysIntact, StringsStayIntact, PTL

(* dis.cc lines 29-162 against elf.cc lines 434-499: of every object that  *)
(* was written whole the dump tool shows the six sections and exactly the  *)
(* words of .text, in their order.                                         *)
THEOREM DumpIsFaithful == ToolSpec => []DumpShowsProgram
<1>1. ASSUME TypeOK, SizesAgree, ObjectStored PROVE DumpShowsProgram
  <2> SUFFICES ASSUME file = "complete", DumpOf(out_filename), Addressable
               PROVE  DumpShowsProgram
    BY Zenon DEF DumpShowsProgram
  <2>1. Complete /\ out_filename \in DOMAIN fs
    BY <1>1 DEF ObjectStored, Complete, TypeOK
  <2>2. dump.printed = dis(<<out_filename>>, fs)
    BY <1>1 DEF ObjectStored, DumpOf
  <2> QED
    BY <2>1, <2>2, CompleteDump, Zenon DEF DumpShowsProgram
<1> QED
  BY <1>1, ObjectStaysStored, ToolchainRunsAssembler, TypeCorrect, HeadersAgree, PTL

(* elf.cc line 499, dis.cc lines 40, 83-109: however much of its end a     *)
(* failed write lost, the tool lists no section of what is left and takes  *)
(* no part of it for a program.                                            *)
THEOREM TruncationIsNoticed == ToolSpec => []TruncationShowsNothing
<1>1. ASSUME TypeOK, SizesAgree, ObjectStored PROVE TruncationShowsNothing
  <2> SUFFICES ASSUME file = "partial", DumpOf(out_filename), Addressable
               PROVE  dump.printed.sections = <<>> /\ ~dump.printed.text.found
    BY DEF TruncationShowsNothing
  <2>1. PICK n \in Lost : Obj = SubSeq(Stream, 1, Len(Stream) - n)
    BY <1>1 DEF ObjectStored
  <2>2. Cut(n) /\ out_filename \in DOMAIN fs
    BY <1>1, <2>1, LostAssumption DEF ObjectStored, Cut, TypeOK
  <2>3. dump.printed = dis(<<out_filename>>, fs)
    BY <1>1 DEF ObjectStored, DumpOf
  <2> QED
    BY <2>2, <2>3, CutDump, Zenon
<1> QED
  BY <1>1, ObjectStaysStored, ToolchainRunsAssembler, TypeCorrect, HeadersAgree, PTL
=============================================================================
