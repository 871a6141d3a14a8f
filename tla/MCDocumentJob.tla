--------------------------- MODULE MCDocumentJob ---------------------------
(* Instances of DocumentJob for TLC. *)
EXTENDS DocumentJob, TLC

\* Children, and callers, are interchangeable in the safety runs.
ChildSymmetry == Permutations(Children)
ClientSymmetry == Permutations(Clients)
Symmetry == Permutations(Children) \cup Permutations(Clients)
=============================================================================
