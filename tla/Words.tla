------------------------------- MODULE Words -------------------------------
(***************************************************************************)
(* 32-bit machine words.  A uint32_t is the set of the positions of its    *)
(* 1 bits, so  |  is \cup, a shift moves positions and a mask intersects.  *)
(* The representation is exact for all 2^32 values, while an integer of    *)
(* TLC cannot hold the upper half of them.                                 *)
(***************************************************************************)
EXTENDS Integers

Word == SUBSET (0..31)

(* The two's-complement word of an int32_t; also what an unsigned          *)
(* expression wraps to, since both agree modulo 2^32.                      *)
U32(n) == {b \in 0..30 : (n \div 2^b) % 2 = 1} \cup (IF n < 0 THEN {31} ELSE {})

(* x << k and x >> k on a uint32_t: bits shifted out are lost. *)
Shl(x, k) == {b + k : b \in x} \cap (0..31)
Shr(x, k) == {b - k : b \in x} \cap (0..31)

(* x & BIT_MASK(n), and what an n-bit bit-field keeps of x. *)
Low(x, n) == x \cap (0..(n - 1))

(* Bits hi..lo of x, moved down to position 0. *)
Slice(x, hi, lo) == {b - lo : b \in x} \cap (0..(hi - lo))

(* x, an n-bit value, sign-extended to 32 bits. *)
SignExtend(x, n) == IF n - 1 \in x THEN x \cup (n..31) ELSE x
=============================================================================
