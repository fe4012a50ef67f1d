--------------------------- MODULE MCKeyedWrites ----------------------------
(* Instances of KeyedWrites for TLC. *)
EXTENDS KeyedWrites, TLC

Update(edits, to) == [op |-> "update", edits |-> edits, to |-> to]

\* A creation, a start, an edit, and the transitions on which they depend, one
\* of them together with an edit.
SomeRequests ==
  {Create, Start, Update(TRUE, "same"), Update(FALSE, "active"),
   Update(TRUE, "paused"), Update(FALSE, "archived")}

Symmetry == Permutations(Clients) \cup Permutations(Keys)
=============================================================================
