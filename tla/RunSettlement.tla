---------------------------- MODULE RunSettlement ----------------------------
(***************************************************************************)
(* What the stages behind a discovery run take for granted of it: its      *)
(* planned queries are settled one at a time and once each, the run closes *)
(* with the last of them or is written off, and a closed run settles       *)
(* nothing more. DiscoveryRun implements it; ThreadProcessing, which takes *)
(* a settle for one step, lets its run do nothing else.                    *)
(***************************************************************************)
CONSTANT Queries  \* the planned queries of the run

VARIABLES
  terminal,  \* the run is closed
  settled    \* queries with a row

vars == <<terminal, settled>>

Init ==
  /\ terminal = FALSE
  /\ settled = {}

Settle(q) ==
  /\ ~ terminal
  /\ q \notin settled
  /\ settled' = settled \cup {q}
  /\ terminal' = (settled' = Queries)

WriteOff ==
  /\ ~ terminal
  /\ terminal' = TRUE
  /\ UNCHANGED settled

Next == WriteOff \/ \E q \in Queries : Settle(q)
Spec == Init /\ [][Next]_vars
=============================================================================
