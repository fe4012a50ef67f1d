--------------------------- MODULE MCViewerStream ---------------------------
(* Instances of ViewerStream for TLC: its only constant is a number. *)
EXTENDS ViewerStream
=============================================================================
