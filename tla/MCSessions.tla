----------------------------- MODULE MCSessions -----------------------------
(***************************************************************************)
(* A small instance of Sessions for TLC. A session rotated again and again *)
(* and sign-ins one after another are explored side by side: a behaviour   *)
(* keeps to the one it focuses on, since their product is out of reach.    *)
(***************************************************************************)
EXTENDS Sessions, TLC

CONSTANT MaxShared  \* bound: tokens of a family while there are several

VARIABLE focus      \* "rotations" or "signins"

MCInit == Init /\ focus \in {"rotations", "signins"}
Bound(f) == CASE focus = "signins" -> MaxShared [] f = 1 -> MaxTokens [] OTHER -> 0
Within == issued' # issued => \A f \in Families : issued'[f] <= Bound(f)
MCNext == Next /\ UNCHANGED focus /\ Within
MCSpec == MCInit /\ [][MCNext]_<<vars, focus>>

TabSymmetry == Permutations(Tabs)
=============================================================================
