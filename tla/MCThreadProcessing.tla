------------------------- MODULE MCThreadProcessing -------------------------
(* Instances of ThreadProcessing for TLC. *)
EXTENDS ThreadProcessing, TLC

\* Queries, candidates and worker slots are each interchangeable.
Symmetry ==
  Permutations(Queries) \cup Permutations(Candidates) \cup Permutations(Workers)
=============================================================================
