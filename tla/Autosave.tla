------------------------------ MODULE Autosave ------------------------------
(***************************************************************************)
(* What an autosaving editor promises: edits are numbered as the user      *)
(* makes them, and what the server keeps only moves forward, to a state    *)
(* the document was really in.  Saves may skip states, fail or come late,  *)
(* but none takes the server back.                                         *)
(***************************************************************************)
EXTENDS Naturals

CONSTANT Documents

VARIABLES
    draft,  \* [Documents -> Nat], the latest edit of each document
    stored  \* [Documents -> Nat], the edit the server has

vars == <<draft, stored>>

Init == draft = [d \in Documents |-> 0] /\ stored = draft

Edit(d) ==
    /\ draft[d]' > draft[d]
    /\ \A e \in Documents \ {d} : draft'[e] = draft[e]
    /\ UNCHANGED stored

Store(d) ==
    /\ \E v \in (stored[d] + 1)..draft[d] : stored' = [stored EXCEPT ![d] = v]
    /\ UNCHANGED draft

Next == \E d \in Documents : Edit(d) \/ Store(d)

Spec == Init /\ [][Next]_vars
=============================================================================
