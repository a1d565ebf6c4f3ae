------------------------------- MODULE MCLab --------------------------------
(* A small instance of Lab for TLC.                                        *)
EXTENDS Lab, TLC

CONSTANTS d1, d2

\* A document with a candidate, and another that may be archived.
TwoDocuments == {<<d1, 1>>, <<d1, 2>>, <<d2, 1>>}

Symmetry == Permutations(Processes) \cup Permutations(Experiments)
=============================================================================
