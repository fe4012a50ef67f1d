------------------------------ MODULE ScoreBoard ------------------------------
(***************************************************************************)
(* What a campaign may rely on of the scores of one conversation, whoever  *)
(* computes them: every payment for a version stays on record, and it may  *)
(* be paid for again; but it is scored once, after a payment; its Analysis *)
(* and the score of the Opportunity change together; and nothing is        *)
(* announced before it is there.                                           *)
(***************************************************************************)
EXTENDS Naturals

CONSTANTS Versions, NoVersion

VARIABLES
  modelRuns,    \* how often a model was paid for every version
  analyses,     \* versions with a score of their own
  opportunity,  \* the version whose score the campaign shows
  completed     \* versions announced

vars == <<modelRuns, analyses, opportunity, completed>>

Init ==
  /\ modelRuns = [v \in Versions |-> 0]
  /\ analyses = {}
  /\ opportunity = NoVersion
  /\ completed = {}

Pay(v) ==
  /\ modelRuns' = [modelRuns EXCEPT ![v] = @ + 1]
  /\ UNCHANGED <<analyses, opportunity, completed>>

Score(v) ==
  /\ modelRuns[v] > 0
  /\ v \notin analyses
  /\ analyses' = analyses \cup {v}
  /\ opportunity' = v
  /\ UNCHANGED <<modelRuns, completed>>

Announce(v) ==
  /\ v \in analyses
  /\ completed' = completed \cup {v}
  /\ UNCHANGED <<modelRuns, analyses, opportunity>>

Next == \E v \in Versions : Pay(v) \/ Score(v) \/ Announce(v)
Spec == Init /\ [][Next]_vars
=============================================================================
