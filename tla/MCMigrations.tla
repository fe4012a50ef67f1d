---------------------------- MODULE MCMigrations ----------------------------
(* Instances of Migrations for TLC. *)
EXTENDS Migrations

\* Databases without legacy rows, of releases whose rows some later revision
\* refuses, and of one whose rows are carried along.
Of(kinds) == {[kind |-> k, run |-> r] : k \in kinds, r \in Runs}
SomeLegacies ==
  {<<0, {}>>, <<Newest, {}>>,
   <<3, Of({"pending"})>>,
   <<7, Of({"run", "run audit", "unreadable"})>>,
   <<8, Of({"run", "odd class"})>>,
   <<10, Of({"foreign run", "run audit", "foreign"})>>,
   <<10, Of({"other audit"})>>,
   <<10, Of({"foreign run", "run audit"})>>,
   <<10, Of({"run", "run audit", "legacy"})>>}
=============================================================================
