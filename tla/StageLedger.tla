---------------------------- MODULE StageLedger -----------------------------
(***************************************************************************)
(* What the stage after a discovery run promises to whoever follows it:    *)
(* candidates are expected only while the run goes on; a row is written    *)
(* once and stays as it is; conversations restate rows, and analysis is    *)
(* asked about conversations; the end of the stage is told when it has     *)
(* come, and what has come to an end stays there. Queues, offers, fetches, *)
(* replays and lost workers do not show.                                   *)
(***************************************************************************)
CONSTANTS
  Ids,         \* the ids that rows are kept under
  Candidates,  \* those that a run may find
  Entries,     \* what a row may say: the id it names, and a content
  NoEntry,     \* there is no row
  NoContent    \* the content of a row that records a failure

VARIABLES
  over,      \* the run has ended
  expected,  \* the candidates found
  rows,      \* the rows of the stage, by id
  versions,  \* the conversations made of them: pairs <<id named, content>>
  asked,     \* the versions whose analysis was asked for
  told       \* the end of the stage was announced

vars == <<over, expected, rows, versions, asked, told>>

Written  == {c \in Ids : rows[c] # NoEntry}
Complete == over /\ expected \subseteq {rows[c].names : c \in Written}

Init ==
  /\ over = FALSE
  /\ expected = {}
  /\ rows = [c \in Ids |-> NoEntry]
  /\ versions = {}
  /\ asked = {}
  /\ told = FALSE

\* The run goes on, perhaps to its end.
Discover(some) ==
  /\ ~ over
  /\ over' \in BOOLEAN
  /\ expected' = expected \cup some
  /\ UNCHANGED <<rows, versions, asked, told>>

Write(ids) ==
  /\ ids \cap Written = {}
  /\ \E new \in [ids -> Entries] :
       rows' = [c \in Ids |-> IF c \in ids THEN new[c] ELSE rows[c]]
  /\ UNCHANGED <<over, expected, versions, asked, told>>

Restate(c) ==
  /\ c \in Written
  /\ rows[c].content # NoContent
  /\ versions' = versions \cup {<<rows[c].names, rows[c].content>>}
  /\ UNCHANGED <<over, expected, rows, asked, told>>

Ask(version) ==
  /\ asked' = asked \cup {version}
  /\ UNCHANGED <<over, expected, rows, versions, told>>

Tell ==
  /\ Complete
  /\ told' = TRUE
  /\ UNCHANGED <<over, expected, rows, versions, asked>>

Next ==
  \/ \E some \in SUBSET Candidates : Discover(some)
  \/ \E ids \in SUBSET Ids : Write(ids)
  \/ \E c \in Ids : Restate(c)
  \/ \E version \in versions : Ask(version)
  \/ Tell

Spec == Init /\ [][Next]_vars
=============================================================================
