------------------------------- MODULE Lexer --------------------------------
(***************************************************************************)
(* The values riscvass.l gives its REG and IMM tokens.                     *)
(*                                                                         *)
(* A register is written as a letter or a word and, for the numbered ones, *)
(* a number: [name |-> "a", n |-> 3] is a3.  A literal is its sign and the *)
(* positions of the 1 bits of its magnitude, which has any size; decimal,  *)
(* hexadecimal and binary only differ in which digits spell it, and only a *)
(* decimal one has a sign.                                                 *)
(***************************************************************************)
EXTENDS Words, FiniteSetsExt

(* What the REG rules match. *)
Registers == {[name |-> x, n |-> 0] : x \in {"zero", "ra", "sp", "gp", "tp"}}
               \cup {[name |-> "a", n |-> k] : k \in 0..7} \cup {[name |-> "t", n |-> k] : k \in 0..6}
               \cup {[name |-> "s", n |-> k] : k \in 0..11} \cup {[name |-> "x", n |-> k] : k \in 0..31}

(* REG: one rule per row. *)
register(r) ==
    CASE r.name = "zero" -> 0
      [] r.name = "ra" -> 1
      [] r.name = "sp" -> 2
      [] r.name = "gp" -> 3
      [] r.name = "tp" -> 4
      [] r.name = "a" -> 10 + r.n                    \* a0 .. a7
      [] r.name = "t" /\ r.n \in 0..2 -> 5 + r.n
      [] r.name = "t" /\ r.n \in 3..6 -> 25 + r.n
      [] r.name = "s" /\ r.n \in 0..1 -> 8 + r.n
      [] r.name = "s" /\ r.n \in 2..11 -> 16 + r.n
      [] r.name = "x" -> r.n                         \* x0 .. x31

(* -x on a 64-bit word. *)
Negate(x) == IF x = {} THEN {}
             ELSE {b \in 0..63 : b = Min(x) \/ (b > Min(x) /\ b \notin x)}

(* strtol, which atoi calls: a long, clamped at its ends. *)
LONG_MAX == 0..62
LONG_MIN == {63}
strtol(lit) == IF lit.mag \subseteq LONG_MAX
               THEN IF lit.neg THEN Negate(lit.mag) ELSE lit.mag
               ELSE IF lit.neg THEN LONG_MIN ELSE LONG_MAX

(* The int a 32-bit word stands for, byte by byte; bit 31 is the sign. *)
Bit(w, b) == IF b \in w THEN 1 ELSE 0
Byte(w, b) == Bit(w, b) + 2 * Bit(w, b + 1) + 4 * Bit(w, b + 2) + 8 * Bit(w, b + 3)
              + 16 * Bit(w, b + 4) + 32 * Bit(w, b + 5) + 64 * Bit(w, b + 6) + 128 * Bit(w, b + 7)
ToInt(w) == Byte(w, 0) + 2^8 * Byte(w, 8) + 2^16 * Byte(w, 16)
              + 2^24 * (Byte(w, 24) - 256 * Bit(w, 31))

(* yylval.ival: the long cut to an int. *)
ival(lit) == ToInt(Low(strtol(lit), 32))
=============================================================================
