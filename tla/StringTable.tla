----------------------------- MODULE StringTable ----------------------------
(***************************************************************************)
(* The StringTable of strtab.cc: the bytes of an ELF string table and the  *)
(* sh_size of its section header.  The table only grows; a caller keeps    *)
(* the offset add_string returned and later writes it to a symbol or to a  *)
(* section header, so an offset must go on naming the same string whatever *)
(* is added after it.                                                      *)
(***************************************************************************)
EXTENDS Integers, Sequences

CONSTANTS String,   \* the strings callers add
          Chars     \* the characters of each one

NUL  == 0
Byte == 0..255

(* A C string has no NUL inside.  add_string's test for a null pointer is  *)
(* not modelled: every caller passes the c_str() of a std::string.         *)
ASSUME CharsAssumption == Chars \in [String -> Seq(1..255)]

VARIABLES data,     \* std::vector<char>
          sh_size,  \* header->sh_size
          stored    \* history: the <<offset, string>> pairs handed out

vars == <<data, sh_size, stored>>

(***************************************************************************)
(* add_string on the bytes d: the offset it returns and the bytes it       *)
(* leaves.  An almost empty table first gets the second of its two NULs;   *)
(* the string and its terminator then go in front of the last byte.        *)
(***************************************************************************)
add_string_offset_at_end(d) == IF Len(d) < 2 THEN 1 ELSE Len(d)
add_string_offset(d) == IF Len(d) < 2 THEN 1 ELSE Len(d) - 1

add_string_data_no_nul(d, str) ==
    LET p == IF Len(d) < 2 THEN Append(d, NUL) ELSE d
    IN  SubSeq(p, 1, Len(p) - 1) \o str \o <<p[Len(p)]>>
add_string_data_at_end(d, str) == d \o str
add_string_data(d, str) ==
    LET p == IF Len(d) < 2 THEN Append(d, NUL) ELSE d
    IN  SubSeq(p, 1, Len(p) - 1) \o str \o <<NUL>> \o <<p[Len(p)]>>

(* init_table, and init_strtables for the header. *)
Init == data = <<NUL>> /\ sh_size = Len(data) /\ stored = {}

add_string(s) ==
    /\ data' = add_string_data(data, Chars[s])
    /\ sh_size' = Len(data')
    /\ stored' = stored \cup {<<add_string_offset(data), s>>}

Next == \E s \in String : add_string(s)

Spec == Init /\ [][Next]_vars

-----------------------------------------------------------------------------
(* What a reader of the table finds at offset off: get_string followed by  *)
(* a scan to the next NUL.                                                 *)
get_string(d, off) ==
    LET end == CHOOSE k \in off..(Len(d) - 1) :
                  d[k + 1] = NUL /\ \A j \in off..(k - 1) : d[j + 1] # NUL
    IN  SubSeq(d, off + 1, end)

(* The bytes from offset off are str and its terminator. *)
HoldsAt(d, off, str) ==
    /\ off \in Nat /\ off + Len(str) < Len(d)
    /\ \A k \in 1..Len(str) : d[off + k] = str[k]
    /\ d[off + Len(str) + 1] = NUL

TypeOK == /\ data \in Seq(Byte)
          /\ sh_size \in Nat
          /\ stored \subseteq Nat \X String

(* The section header never lags behind the bytes (strtab.cc line 38).     *)
HeaderTracksSize == sh_size = Len(data)

(* strtab.h lines 8-9: the offset returned for a string reads back that    *)
(* string, and goes on doing so after any number of later additions, none  *)
(* of which may overwrite it, run into it or lose its terminator.          *)
StoredIntact == \A e \in stored : HoldsAt(data, e[1], Chars[e[2]])

(* Offset 0 stays the empty name and the table ends in a NUL, so that no   *)
(* reader can run off its end.                                             *)
TableClosed == Len(data) > 0 /\ data[1] = NUL /\ data[Len(data)] = NUL

(* A terminator may not be the table's last byte: the next addition goes   *)
(* in front of that byte and would leave the string without one.           *)
StoredInside == \A e \in stored : e[1] + Len(Chars[e[2]]) + 1 < Len(data)

(* What the proof shows inductive; StoredIntact alone is not, for the      *)
(* reason above (strtab.cc lines 35-36).                                   *)
IInv == TypeOK /\ HeaderTracksSize /\ TableClosed /\ StoredIntact /\ StoredInside

(* StoredIntact as the reader sees it: a scan from any offset handed out   *)
(* returns exactly the string, neither shorter nor run into its successor. *)
ReadsBack == \A e \in stored : get_string(data, e[1]) = Chars[e[2]]
=============================================================================
