------------------------------- MODULE Hasher -------------------------------
(***************************************************************************)
(* hasher() of elf.h: the 32-bit FNV-1a hash of a symbol's characters.     *)
(***************************************************************************)
EXTENDS Words, SequencesExt

Xor(x, y) == (x \ y) \cup (y \ x)

(* x + y: bit b of the sum sees what is carried out of the bits below it. *)
Plus(x, y) ==
    LET carry[b \in 0..31] ==
          IF b = 0 \/ b - 1 \notin x \cup y THEN FALSE
          ELSE b - 1 \in x \cap y \/ carry[b - 1]
    IN  {b \in 0..31 : (b \in Xor(x, y)) # carry[b]}

(* x * y: x shifted to each 1 bit of y, added up. *)
Times(x, y) == FoldSet(LAMBDA k, sum : Plus(sum, Shl(x, k)), {}, y)

FNV_prime == U32(16777619)
offset_basis == U32(-2128831035)    \* 2166136261 - 2^32

hasher(input) ==
    FoldLeft(LAMBDA hash, c : Times(Xor(hash, U32(c)), FNV_prime), offset_basis, input)
=============================================================================
