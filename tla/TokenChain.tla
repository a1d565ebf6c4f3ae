----------------------------- MODULE TokenChain -----------------------------
(***************************************************************************)
(* What refresh sessions promise: a family of single-use credentials of    *)
(* which at most one is good at a time, each good once, until the family   *)
(* ends for ever.                                                          *)
(***************************************************************************)
CONSTANTS Families, Serials

VARIABLES
  good,    \* the credentials that may still be exchanged
  past,    \* all credentials ever given out
  ended    \* the families that are over

chainVars == <<good, past, ended>>

Init == good = {} /\ past = {} /\ ended = {}

Fresh(f, i) == <<f, i>> \notin past

Begin(f) ==
  /\ \A j \in Serials : Fresh(f, j)
  /\ \E i \in Serials : good' = good \cup {<<f, i>>} /\ past' = past \cup {<<f, i>>}
  /\ UNCHANGED ended

Exchange(c) ==
  /\ c \in good /\ c[1] \notin ended
  /\ \E j \in Serials : /\ Fresh(c[1], j)
                        /\ good' = (good \ {c}) \cup {<<c[1], j>>} /\ past' = past \cup {<<c[1], j>>}
  /\ UNCHANGED ended

End(f) ==
  /\ f \notin ended /\ ended' = ended \cup {f}
  /\ good' = {c \in good : c[1] # f}
  /\ UNCHANGED past

Next == \/ \E c \in good : Exchange(c)
        \/ \E f \in Families : Begin(f) \/ End(f)

Spec == Init /\ [][Next]_chainVars
=============================================================================
