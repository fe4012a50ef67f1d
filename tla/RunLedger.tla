----------------------------- MODULE RunLedger -----------------------------
(***************************************************************************)
(* What a discovery run promises to whoever reads it: answers to its       *)
(* planned queries are entered one at a time and never revised, the run    *)
(* closes exactly with the last of them and with the verdict they add up   *)
(* to, or is written off as failed; a closed run never changes again.      *)
(* Queues, workers, retries and crashes do not show.                       *)
(***************************************************************************)
CONSTANTS
  Planned,    \* the queries of the plan
  Answers,    \* what an answer may be
  Verdict(_)  \* what a set of answered queries adds up to

VARIABLES
  status,     \* the run's status
  ledger,     \* the answers entered so far: pairs <<query, answer>>
  writtenOff  \* the run was failed without waiting for the rest

vars == <<status, ledger, writtenOff>>

Open     == status \in {"queued", "running"}
Answered(entries) == {e[1] : e \in entries}

Init ==
  /\ status = "queued"
  /\ ledger = {}
  /\ writtenOff = FALSE

Begin ==
  /\ status = "queued"
  /\ status' = "running"
  /\ UNCHANGED <<ledger, writtenOff>>

Enter(q, a) ==
  /\ status = "running"
  /\ q \notin Answered(ledger)
  /\ ledger' = ledger \cup {<<q, a>>}
  /\ status' = IF Answered(ledger') = Planned THEN Verdict(ledger') ELSE status
  /\ UNCHANGED writtenOff

WriteOff ==
  /\ status = "running"
  /\ status' = "failed"
  /\ writtenOff' = TRUE
  /\ UNCHANGED ledger

Next == Begin \/ WriteOff \/ \E q \in Planned, a \in Answers : Enter(q, a)

Spec == Init /\ [][Next]_vars
=============================================================================
