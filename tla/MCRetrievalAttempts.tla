------------------------ MODULE MCRetrievalAttempts -------------------------
(* Instances of RetrievalAttempts for TLC. *)
EXTENDS RetrievalAttempts, TLC

CONSTANTS q1, q2, q3

\* The ids of a plan that go together: none is the beginning of another one.
Distinct == {<<q1, q1>>, <<q2, q2>>}

\* "q1" and "q1_site": the directories of q3 begin with the safe name of q1.
Colliding == {<<q1, q1>>, <<q2, q2>>, <<q3, q3>>, <<q1, q3>>}

Symmetry == Permutations(Attempts) \cup Permutations(Contents)
=============================================================================
