----------------------------- MODULE LabelSpec ------------------------------
(***************************************************************************)
(* What label resolution promises, by name and without hashes: a label is  *)
(* bound at most once; a reference to a label not bound yet waits; and     *)
(* when the input has been read each reference gets, in order, the address *)
(* its own label was bound to, before or after the reference, or 0.        *)
(***************************************************************************)
EXTENDS Naturals, Sequences

CONSTANT Names

VARIABLES bound,    \* label -> address, for the labels bound so far
          waiting,  \* the labels referred to before they were bound
          answers   \* the addresses given to the first of them

vars == <<bound, waiting, answers>>

Init == bound = <<>> /\ waiting = <<>> /\ answers = <<>>

Bind(l) ==
    /\ answers = <<>> /\ l \notin DOMAIN bound
    /\ DOMAIN bound' = DOMAIN bound \cup {l}
    /\ bound'[l] \in Nat /\ \A m \in DOMAIN bound : bound'[m] = bound[m]
    /\ UNCHANGED <<waiting, answers>>

Refer(l) ==
    /\ answers = <<>> /\ l \notin DOMAIN bound
    /\ waiting' = Append(waiting, l)
    /\ UNCHANGED <<bound, answers>>

Answer ==
    /\ Len(answers) < Len(waiting)
    /\ LET l == waiting[Len(answers) + 1]
       IN  answers' = Append(answers, IF l \in DOMAIN bound THEN bound[l] ELSE 0)
    /\ UNCHANGED <<bound, waiting>>

Next == Answer \/ \E l \in Names : Bind(l) \/ Refer(l)

Spec == Init /\ [][Next]_vars
=============================================================================
