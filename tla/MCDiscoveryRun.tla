--------------------------- MODULE MCDiscoveryRun ---------------------------
(* Instances of DiscoveryRun for TLC. *)
EXTENDS DiscoveryRun, TLC

\* Planned queries and worker slots are interchangeable in the safety runs.
Symmetry == Permutations(Planned) \cup Permutations(Workers)

\* One representative of each class the roll-up tells apart.
ThreeClasses == {"success", "incomplete", "failed"}
=============================================================================
