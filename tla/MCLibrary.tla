----------------------------- MODULE MCLibrary ------------------------------
(***************************************************************************)
(* Small instances of Library for TLC. Bringing bytes into the library and *)
(* publishing what was brought are explored side by side: a behaviour      *)
(* keeps to the one it focuses on, since their product is out of reach.    *)
(***************************************************************************)
EXTENDS Library, TLC

CONSTANTS d1, b1, old1
VARIABLE focus       \* "sourcing" or "publication"

OneLegacyDocument == [v \in Legacy |-> d1]
OneLegacySource   == [v \in Legacy |-> b1]

\* Everything that may befall requests; versions are prepared when they have
\* their bytes, and nothing is published or archived.
Sourcings ==
  \/ \E k \in Keys : Bring(k)
  \/ \E k \in Uploads : UploadStep(k)
  \/ \E k \in Imports : ImportStep(k)
  \/ \E v \in Versions : Claim(v) \/ Prepare(v) \/ MissSource(v)
  \/ \E u \in Users : ChangeRole(u)

\* Requests that end well or find their bytes known; attempts that fail, and
\* editors who publish, archive and lose their role.
Publications ==
  \/ \E k \in Keys : Put(k) \/ Discard(k)
  \/ \E k \in Uploads : UploadStep(k) /\ task'[k].pc # "check"
  \/ \E k \in Imports : ImportStep(k) /\ task'[k].pc # "check"
  \/ \E v \in Versions : Work(v)
  \/ \E u \in Users : Edit(u)

PartsInit == Init /\ focus \in {"sourcing", "publication"}
PartsNext == /\ UNCHANGED focus
             /\ \/ focus = "sourcing" /\ Sourcings
                \/ focus = "publication" /\ Publications
PartsSpec == PartsInit /\ [][PartsNext]_<<vars, focus>>

Symmetry == Permutations(Uploads)
=============================================================================
