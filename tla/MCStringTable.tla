--------------------------- MODULE MCStringTable ----------------------------
(* Strings that are prefixes and suffixes of each other, and an empty one. *)
EXTENDS StringTable

CONSTANT MaxBytes     \* bound on the size of the table

MCChars == [e |-> <<>>, a |-> <<97>>, b |-> <<98>>, ab |-> <<97, 98>>, aab |-> <<97, 97, 98>>]
MCString == DOMAIN MCChars

BoundedNext == \E s \in String : /\ Len(data) + Len(Chars[s]) + 2 <= MaxBytes
                                 /\ add_string(s)
BoundedSpec == Init /\ [][BoundedNext]_vars
=============================================================================
