------------------------------- MODULE Shelf -------------------------------
(***************************************************************************)
(* What readers of published knowledge are promised: each document shows   *)
(* at most one edition, editions only get newer, and a withdrawn document  *)
(* never changes again.                                                    *)
(***************************************************************************)
EXTENDS Naturals

CONSTANT Titles

VARIABLES edition,   \* the version number shown, 0 when none is
          withdrawn  \* titles withdrawn from the readers

vars == <<edition, withdrawn>>

Init == edition = [t \in Titles |-> 0] /\ withdrawn = {}

Show(t) == /\ t \notin withdrawn
           /\ edition' = [edition EXCEPT ![t] = edition'[t]]
           /\ edition'[t] \in Nat /\ edition'[t] > edition[t]
           /\ UNCHANGED withdrawn

Withdraw(t) == /\ withdrawn' = withdrawn \cup {t}
               /\ UNCHANGED edition

Next == \E t \in Titles : Show(t) \/ Withdraw(t)

Spec == Init /\ [][Next]_vars
=============================================================================
