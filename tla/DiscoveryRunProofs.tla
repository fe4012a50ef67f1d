------------------------- MODULE DiscoveryRunProofs -------------------------
(***************************************************************************)
(* What DiscoveryRun guarantees for every plan, worker pool and payload.   *)
(*                                                                         *)
(* The roll-up compares two counts: rows of planned queries, and planned   *)
(* queries. RecountIsExact says when that comparison is right, namely as   *)
(* long as no query has two rows; so the uniqueness of observations comes  *)
(* first and the correctness of a closed run rests on it.                  *)
(***************************************************************************)
EXTENDS DiscoveryRun, FiniteSetTheorems, TLAPS


-----------------------------------------------------------------------------
(* Lemmas about the operators of the roll-up. *)

\* A verdict is one of three terminal statuses (the if-chain of _roll_up_run).
LEMMA VerdictIsTerminal ==
  ASSUME NEW rows
  PROVE  Verdict(rows) \in {"succeeded", "failed", "partial"}
  BY DEF Verdict

\* The counts of a finite table are natural numbers (run.metrics["counts"]).
LEMMA CountsAreNatural ==
  ASSUME NEW rows, IsFiniteSet(rows)
  PROVE  CountsOf(rows) \in Counts
<1>1. ASSUME NEW s \in Statuses
      PROVE  Cardinality({r \in PlannedRows(rows) : r.status = s}) \in Nat
  <2>1. {r \in PlannedRows(rows) : r.status = s} \in SUBSET rows
    BY DEF PlannedRows
  <2>2. IsFiniteSet({r \in PlannedRows(rows) : r.status = s})
    BY <2>1, FS_Subset
  <2>3. QED BY <2>2, FS_CardinalityType
<1>2. QED BY <1>1 DEF CountsOf, Counts

\* The recount is exact when no query has two rows: comparing the two counts
\* under the lock decides whether every planned query is recorded.
LEMMA RecountIsExact ==
  ASSUME NEW rows, IsFiniteSet(rows),
         \A r1, r2 \in rows : r1.query = r2.query => r1 = r2
  PROVE  AllRecorded(rows) <=> \A q \in Planned : \E r \in rows : r.query = q
<1> DEFINE P == PlannedRows(rows)
           f == [r \in P |-> r.query]
<1>1. IsFiniteSet(P) /\ P \subseteq rows
  <2>1. P \in SUBSET rows  BY DEF PlannedRows
  <2>2. QED BY <2>1, FS_Subset
<1>2. /\ Cardinality(P) \in Nat
      /\ Cardinality(Planned) \in Nat
  BY <1>1, FS_CardinalityType, PlanAssumption
<1>3. f \in Injection(P, Planned)
  <2>1. f \in [P -> Planned]  BY DEF PlannedRows
  <2>2. \A a, b \in P : f[a] = f[b] => a = b  BY <1>1
  <2>3. QED BY <2>1, <2>2 DEF Injection, IsInjective
<1>4. /\ Cardinality(P) <= Cardinality(Planned)
      /\ Cardinality(P) = Cardinality(Planned) <=> f \in Surjection(P, Planned)
  BY <1>3, FS_Injection, PlanAssumption
<1>5. f \in Surjection(P, Planned) <=> \A q \in Planned : \E r \in P : f[r] = q
  BY <1>3 DEF Injection, Surjection
<1>6. (\A q \in Planned : \E r \in P : f[r] = q)
        <=> \A q \in Planned : \E r \in rows : r.query = q
  BY DEF PlannedRows
<1>7. QED BY <1>2, <1>4, <1>5, <1>6 DEF AllRecorded

-----------------------------------------------------------------------------
(* Type correctness. *)

\* A transaction that inserts a row and rolls up keeps the tables well typed.
LEMMA InsertKeepsTypes ==
  ASSUME TypeOK, NEW row \in Rows, NEW from \in {"queued", "running"},
         NEW trail \in Seq(AuditEvents), InsertAndRollUp(row, from, trail)
  PROVE  /\ status' \in RunStatuses
         /\ metrics' \in [reaped : BOOLEAN, counts : Counts]
         /\ observations' \subseteq Rows
         /\ IsFiniteSet(observations')
         /\ audit' \in Seq(AuditEvents)
<1> DEFINE rows == observations \cup {row}
<1>1. rows \subseteq Rows /\ IsFiniteSet(rows)
  BY FS_AddElement DEF TypeOK
<1>2. observations' = rows  BY DEF InsertAndRollUp
<1>3. CASE AllRecorded(rows) /\ from \notin TerminalStatuses
  <2>1. Verdict(rows) \in TerminalStatuses
    BY VerdictIsTerminal DEF TerminalStatuses
  <2>2. CountsOf(rows) \in Counts  BY <1>1, CountsAreNatural
  <2>3. /\ status' = Verdict(rows)
        /\ metrics' = [metrics EXCEPT !.counts = CountsOf(rows)]
        /\ audit' = Append(trail, AuditCompleted(from, Verdict(rows)))
    BY <1>3 DEF InsertAndRollUp
  <2>4. AuditCompleted(from, Verdict(rows)) \in AuditEvents
    BY <2>1 DEF AuditCompleted, AuditEvents, RunStatuses
  <2>5. metrics' \in [reaped : BOOLEAN, counts : Counts]
    BY <2>2, <2>3 DEF TypeOK
  <2>6. QED BY <1>1, <1>2, <2>1, <2>3, <2>4, <2>5 DEF RunStatuses
<1>4. CASE ~(AllRecorded(rows) /\ from \notin TerminalStatuses)
  <2>1. status' = from /\ audit' = trail /\ metrics' = metrics
    BY <1>4 DEF InsertAndRollUp
  <2>2. QED BY <1>1, <1>2, <2>1 DEF TypeOK, RunStatuses
<1>5. QED BY <1>3, <1>4

\* What the claim does first keeps the run's row and its audit well typed.
LEMMA BegunIsTyped ==
  ASSUME TypeOK
  PROVE  BegunTrail \in Seq(AuditEvents) /\ Begun \in {"queued", "running"}
<1>1. AuditStarted \in AuditEvents
  BY DEF AuditStarted, AuditEvents, RunStatuses
<1>2. audit \in Seq(AuditEvents)
  BY DEF TypeOK
<1>3. Append(audit, AuditStarted) \in Seq(AuditEvents)
  BY <1>1, <1>2
<1>4. QED BY <1>2, <1>3 DEF BegunTrail, Begun

LEMMA TypesInitially == Init => TypeOK
<1> SUFFICES ASSUME Init PROVE TypeOK
  OBVIOUS
<1>1. NoOutcome \in Outcomes
  BY OutcomeAssumption DEF NoOutcome, Outcomes, UsableStatuses
<1>2. NoMetrics \in [reaped : BOOLEAN, counts : Counts]
  BY DEF NoMetrics, Counts
<1>3. [action |-> "created", before |-> "none", after |-> "queued"]
        \in AuditEvents
  BY DEF AuditEvents, RunStatuses
<1>4. audit \in Seq(AuditEvents)
  BY <1>3 DEF Init
<1>5. IsFiniteSet(observations) /\ observations \subseteq Rows
  BY FS_EmptySet DEF Init
<1>6. pc \in [Workers -> Pcs] /\ outcome \in [Workers -> Outcomes]
  BY <1>1 DEF Init, Pcs
<1>7. QED
  BY <1>2, <1>4, <1>5, <1>6 DEF Init, TypeOK, RunStatuses

LEMMA TypesStep == TypeOK /\ [Next]_vars => TypeOK'
<1> SUFFICES ASSUME TypeOK, [Next]_vars PROVE TypeOK'
  OBVIOUS
<1> USE DEF database
<1>1. ASSUME NEW id \in Ids, Enqueue(id) PROVE TypeOK'
  BY <1>1 DEF TypeOK, Enqueue
<1>2. ASSUME NEW id \in Ids, LeaseExpires(id) PROVE TypeOK'
  BY <1>2 DEF TypeOK, LeaseExpires
<1>3. ASSUME NEW w \in Workers, NEW id \in Ids, TakeJob(w, id) PROVE TypeOK'
  BY <1>3 DEF TypeOK, TakeJob, Pcs
<1>4. ASSUME NEW w \in Workers, Claim(w) PROVE TypeOK'
  <2>1. CASE ClaimTerminal(w)
    BY <2>1 DEF TypeOK, ClaimTerminal, Pcs
  <2>2. CASE ClaimRecorded(w)
    BY <2>2, BegunIsTyped DEF TypeOK, ClaimRecorded, Begin, Begun, RunStatuses, Pcs
  <2>3. CASE ClaimRefused(w)
    <3>1. [query |-> job[w], status |-> "failed", bundle |-> NoBundle] \in Rows
      BY <2>3, OutcomeAssumption DEF ClaimRefused, Rows, Ids
    <3>2. /\ status' \in RunStatuses
          /\ metrics' \in [reaped : BOOLEAN, counts : Counts]
          /\ observations' \subseteq Rows
          /\ IsFiniteSet(observations')
          /\ audit' \in Seq(AuditEvents)
      BY <2>3, <3>1, BegunIsTyped, InsertKeepsTypes DEF ClaimRefused
    <3>3. QED BY <2>3, <3>2 DEF TypeOK, ClaimRefused, Pcs
  <2>4. CASE ClaimOverflows(w)
    BY <2>4 DEF TypeOK, ClaimOverflows, Pcs
  <2>5. CASE ClaimAccepted(w)
    BY <2>5, BegunIsTyped DEF TypeOK, ClaimAccepted, Begin, Begun, RunStatuses, Pcs
  <2>6. QED BY <1>4, <2>1, <2>2, <2>3, <2>4, <2>5 DEF Claim
<1>5. ASSUME NEW w \in Workers, PublishStarted(w) PROVE TypeOK'
  <2>1. wire' \in [started : Nat, observed : SUBSET Ids, completed : Nat]
    BY <1>5 DEF TypeOK, PublishStarted
  <2>2. pc' \in [Workers -> Pcs]
    BY <1>5 DEF TypeOK, PublishStarted, Pcs
  <2>3. \A v \in Workers : pc'[v] # "idle" => job'[v] \in Ids
    BY <1>5 DEF TypeOK, PublishStarted
  <2>4. QED BY <1>5, <2>1, <2>2, <2>3 DEF TypeOK, PublishStarted
<1>6. ASSUME NEW w \in Workers, SpawnAttempt(w) PROVE TypeOK'
  BY <1>6 DEF TypeOK, SpawnAttempt, Outcomes, Pcs
<1>7. ASSUME NEW w \in Workers, SettleSkips(w) PROVE TypeOK'
  <2>1. NoOutcome \in Outcomes
    BY OutcomeAssumption DEF NoOutcome, Outcomes, UsableStatuses
  <2>2. QED BY <1>7, <2>1 DEF TypeOK, SettleSkips, Pcs
<1>8. ASSUME NEW w \in Workers, SettleRecords(w) PROVE TypeOK'
  <2>1. NoOutcome \in Outcomes
    BY OutcomeAssumption DEF NoOutcome, Outcomes, UsableStatuses
  <2>2. job[w] \in Ids /\ outcome[w] \in Outcomes
    BY <1>8 DEF TypeOK, SettleRecords
  <2>3. [query |-> job[w], status |-> outcome[w].status,
         bundle |-> outcome[w].bundle] \in Rows
    BY <2>2 DEF Rows, Outcomes
  <2>4. status \in {"queued", "running"} /\ audit \in Seq(AuditEvents)
    BY <1>8 DEF TypeOK, SettleRecords, RunStatuses
  <2>5. /\ status' \in RunStatuses
        /\ metrics' \in [reaped : BOOLEAN, counts : Counts]
        /\ observations' \subseteq Rows
        /\ IsFiniteSet(observations')
        /\ audit' \in Seq(AuditEvents)
    BY <1>8, <2>3, <2>4, InsertKeepsTypes DEF SettleRecords
  <2>6. bundleRows' \subseteq Contents
    BY <1>8, <2>2 DEF TypeOK, SettleRecords, Outcomes
  <2>7. QED BY <1>8, <2>1, <2>5, <2>6 DEF TypeOK, SettleRecords, Pcs
<1>9. ASSUME NEW w \in Workers, PublishObserved(w) PROVE TypeOK'
  BY <1>9 DEF TypeOK, PublishObserved, Pcs
<1>10. ASSUME NEW w \in Workers, PublishCompleted(w) PROVE TypeOK'
  BY <1>10 DEF TypeOK, PublishCompleted, Pcs
<1>11. ASSUME NEW w \in Workers, FinishJob(w) PROVE TypeOK'
  BY <1>11 DEF TypeOK, FinishJob, Pcs
<1>12. ASSUME NEW w \in Workers, Crash(w) \/ JobRaises(w) PROVE TypeOK'
  <2>1. NoOutcome \in Outcomes
    BY OutcomeAssumption DEF NoOutcome, Outcomes, UsableStatuses
  <2>2. CASE Crash(w)
    BY <2>1, <2>2 DEF TypeOK, Crash, Pcs
  <2>3. CASE JobRaises(w)
    BY <2>1, <2>3 DEF TypeOK, JobRaises, Pcs
  <2>4. QED BY <1>12, <2>2, <2>3
<1>13. CASE GrowStale
  BY <1>13 DEF TypeOK, GrowStale
<1>14. CASE Reap
  <2> DEFINE event == [action |-> "reaped", before |-> "running",
                       after |-> "failed"]
  <2>1. event \in AuditEvents
    BY DEF AuditEvents, RunStatuses, TerminalStatuses
  <2>2. audit' \in Seq(AuditEvents)
    BY <1>14, <2>1 DEF TypeOK, Reap
  <2>3. status' \in RunStatuses
    BY <1>14 DEF Reap, RunStatuses, TerminalStatuses
  <2>4. metrics' \in [reaped : BOOLEAN, counts : Counts]
    BY <1>14 DEF TypeOK, Reap
  <2>5. QED BY <1>14, <2>2, <2>3, <2>4 DEF TypeOK, Reap
<1>15. CASE UNCHANGED vars
  BY <1>15 DEF TypeOK, vars
<1>16. QED
  BY <1>1, <1>2, <1>3, <1>4, <1>5, <1>6, <1>7, <1>8, <1>9, <1>10, <1>11,
     <1>12, <1>13, <1>14, <1>15 DEF Next, Work

\* Every state of a run is well typed: the row only holds statuses its CHECK
\* constraint admits, and a busy worker holds a job.
THEOREM TypeCorrect == Spec => []TypeOK
BY TypesInitially, TypesStep, PTL DEF Spec

-----------------------------------------------------------------------------
(* The steps of Next, as the run's own rows see them. *)

\* A worker past its claim has seen the run leave queued, and works on a
\* planned query: refusals end with the claim.
WorkFollowsClaim ==
  \A w \in Workers :
    pc[w] \in {"started", "claimed", "spawned"} =>
      status # "queued" /\ job[w] \in Planned

\* The claim moves the run out of queued and records nothing.
BeginStep ==
  /\ status = "queued"
  /\ status' = "running"
  /\ audit' = Append(audit, AuditStarted)
  /\ UNCHANGED <<metrics, observations>>

\* A claim or a settle records one row of a query that had none.
InsertStep(row) ==
  /\ status \notin TerminalStatuses
  /\ ~ Recorded(row.query)
  /\ row.query \in Planned => status = "running"
  /\ InsertAndRollUp(row, "running", BegunTrail)

IdleStep == UNCHANGED <<status, metrics, observations, audit>>

RunStep == IdleStep \/ BeginStep \/ Reap \/ (\E row \in Rows : InsertStep(row))

\* Every step of the system is one of four to the run's rows.
LEMMA StepsOfTheRun ==
  ASSUME TypeOK, WorkFollowsClaim, [Next]_vars
  PROVE  RunStep
<1> USE DEF database
<1>1. ASSUME NEW id \in Ids, Enqueue(id) \/ LeaseExpires(id) PROVE IdleStep
  BY <1>1 DEF Enqueue, LeaseExpires, IdleStep
<1>2. ASSUME NEW w \in Workers, NEW id \in Ids, TakeJob(w, id) PROVE IdleStep
  BY <1>2 DEF TakeJob, IdleStep
<1>3. ASSUME NEW w \in Workers, Claim(w) PROVE RunStep
  <2>1. CASE ClaimTerminal(w) \/ ClaimOverflows(w)
    BY <2>1 DEF ClaimTerminal, ClaimOverflows, RunStep, IdleStep
  <2>2. CASE ClaimRecorded(w) \/ ClaimAccepted(w)
    <3>1. Begin /\ UNCHANGED <<metrics, observations>>
          /\ status \in {"queued", "running"}
      BY <2>2 DEF ClaimRecorded, ClaimAccepted, TypeOK, RunStatuses
    <3>2. CASE status = "queued"
      BY <3>1, <3>2 DEF Begin, Begun, BegunTrail, RunStep, BeginStep
    <3>3. CASE status = "running"
      BY <3>1, <3>3 DEF Begin, Begun, BegunTrail, RunStep, IdleStep
    <3>4. QED BY <3>1, <3>2, <3>3
  <2>3. CASE ClaimRefused(w)
    <3> DEFINE row == [query |-> job[w], status |-> "failed", bundle |-> NoBundle]
    <3>1. row \in Rows
      BY <2>3, OutcomeAssumption DEF ClaimRefused, Rows, Ids
    <3>2. InsertStep(row)
      BY <2>3, PlanAssumption DEF ClaimRefused, InsertStep, Begun
    <3>3. QED BY <3>1, <3>2 DEF RunStep
  <2>4. QED BY <1>3, <2>1, <2>2, <2>3 DEF Claim
<1>4. ASSUME NEW w \in Workers,
             \/ PublishStarted(w) \/ SpawnAttempt(w) \/ SettleSkips(w)
             \/ PublishObserved(w) \/ PublishCompleted(w) \/ FinishJob(w)
             \/ Crash(w) \/ JobRaises(w)
      PROVE  IdleStep
  BY <1>4 DEF PublishStarted, SpawnAttempt, SettleSkips, PublishObserved,
              PublishCompleted, FinishJob, Crash, JobRaises, IdleStep
<1>5. ASSUME NEW w \in Workers, SettleRecords(w) PROVE RunStep
  <2> DEFINE row == [query |-> job[w], status |-> outcome[w].status,
                     bundle |-> outcome[w].bundle]
  <2>1. job[w] \in Ids /\ outcome[w] \in Outcomes
    BY <1>5 DEF TypeOK, SettleRecords
  <2>2. row \in Rows
    BY <2>1 DEF Rows, Outcomes
  <2>3. status = "running"
    BY <1>5 DEF SettleRecords, WorkFollowsClaim, TypeOK, RunStatuses
  <2>4. InsertStep(row)
    BY <1>5, <2>3 DEF SettleRecords, InsertStep, BegunTrail
  <2>5. QED BY <2>2, <2>4 DEF RunStep
<1>6. CASE GrowStale
  BY <1>6 DEF GrowStale, RunStep, IdleStep
<1>7. CASE UNCHANGED vars
  BY <1>7 DEF vars, RunStep, IdleStep
<1>8. QED
  BY <1>1, <1>2, <1>3, <1>4, <1>5, <1>6, <1>7 DEF Next, Work, RunStep

-----------------------------------------------------------------------------
(* The invariant of the run's rows. *)

\* No open run carries the reaper's mark.
OpenIsUnreaped == status \notin TerminalStatuses => ~ metrics.reaped

IInv ==
  /\ TypeOK
  /\ WorkFollowsClaim
  /\ OneObservationPerQuery
  /\ OpenIsUnreaped
  /\ OpenMeansUnanswered
  /\ ClosedOnTheRows

LEMMA WorkFollowsClaimStep ==
  TypeOK /\ WorkFollowsClaim /\ [Next]_vars => WorkFollowsClaim'
<1> SUFFICES ASSUME TypeOK, WorkFollowsClaim, [Next]_vars
             PROVE  WorkFollowsClaim'
  OBVIOUS
<1> USE DEF database
<1>1. RunStep  BY StepsOfTheRun
\* The status never returns to queued.
<1>2. status # "queued" => status' # "queued"
  <2>1. CASE IdleStep  BY <2>1 DEF IdleStep
  <2>2. CASE BeginStep  BY <2>2 DEF BeginStep
  <2>3. CASE Reap  BY <2>3 DEF Reap
  <2>4. ASSUME NEW row \in Rows, InsertStep(row) PROVE status' # "queued"
    BY <2>4, VerdictIsTerminal DEF InsertStep, InsertAndRollUp
  <2>5. QED BY <1>1, <2>1, <2>2, <2>3, <2>4 DEF RunStep
<1>3. ASSUME NEW id \in Ids, Enqueue(id) \/ LeaseExpires(id)
      PROVE  WorkFollowsClaim'
  BY <1>3, <1>2 DEF Enqueue, LeaseExpires, WorkFollowsClaim
<1>4. ASSUME NEW w \in Workers, NEW id \in Ids, TakeJob(w, id)
      PROVE  WorkFollowsClaim'
  BY <1>4, <1>2 DEF TakeJob, WorkFollowsClaim, TypeOK
<1>5. ASSUME NEW w \in Workers, ClaimAccepted(w) PROVE WorkFollowsClaim'
  <2>1. status' = "running" /\ job[w] \in Planned /\ UNCHANGED job
    BY <1>5 DEF ClaimAccepted, Begin, Begun
  <2>2. \A v \in Workers \ {w} : pc'[v] = pc[v]
    BY <1>5 DEF ClaimAccepted, TypeOK
  <2>3. QED BY <2>1, <2>2 DEF WorkFollowsClaim
<1>6. ASSUME NEW w \in Workers,
             \/ ClaimTerminal(w) \/ ClaimRecorded(w) \/ ClaimRefused(w)
             \/ ClaimOverflows(w) \/ SettleSkips(w) \/ SettleRecords(w)
             \/ PublishObserved(w) \/ PublishCompleted(w) \/ JobRaises(w)
      PROVE  WorkFollowsClaim'
  <2>1. /\ UNCHANGED job
        /\ pc'[w] \in {"done", "settled", "settledLast", "closing"}
        /\ \A v \in Workers \ {w} : pc'[v] = pc[v]
    BY <1>6 DEF ClaimTerminal, ClaimRecorded, ClaimRefused, ClaimOverflows,
       SettleSkips, SettleRecords, PublishObserved, PublishCompleted, JobRaises,
       TypeOK
  <2>2. QED BY <2>1, <1>2 DEF WorkFollowsClaim
<1>7. ASSUME NEW w \in Workers, PublishStarted(w) \/ SpawnAttempt(w)
      PROVE  WorkFollowsClaim'
  <2>1. /\ UNCHANGED job
        /\ pc[w] \in {"started", "claimed"}
        /\ \A v \in Workers \ {w} : pc'[v] = pc[v]
    BY <1>7 DEF PublishStarted, SpawnAttempt, TypeOK
  <2>2. QED BY <2>1, <1>2 DEF WorkFollowsClaim
<1>8. ASSUME NEW w \in Workers, FinishJob(w) \/ Crash(w) PROVE WorkFollowsClaim'
  <2>1. /\ pc'[w] = "idle"
        /\ \A v \in Workers \ {w} : pc'[v] = pc[v] /\ job'[v] = job[v]
    BY <1>8 DEF FinishJob, Crash, TypeOK
  <2>2. QED BY <2>1, <1>2 DEF WorkFollowsClaim
<1>9. CASE GrowStale \/ Reap
  BY <1>9, <1>2 DEF GrowStale, Reap, WorkFollowsClaim
<1>10. CASE UNCHANGED vars
  BY <1>10 DEF vars, WorkFollowsClaim
<1>11. QED
  BY <1>3, <1>4, <1>5, <1>6, <1>7, <1>8, <1>9, <1>10 DEF Next, Work, Claim

\* Recording one more query of an open run keeps the whole invariant: the
\* recount decides, exactly, whether the run is now answered.
LEMMA InsertKeepsTheRows ==
  ASSUME IInv, TypeOK', NEW row \in Rows, InsertStep(row)
  PROVE  /\ OneObservationPerQuery'
         /\ OpenIsUnreaped'
         /\ OpenMeansUnanswered'
         /\ ClosedOnTheRows'
<1> DEFINE rows == observations \cup {row}
<1>1. observations' = rows
  BY DEF InsertStep, InsertAndRollUp
<1>2. \A r1, r2 \in rows : r1.query = r2.query => r1 = r2
  BY DEF InsertStep, Recorded, IInv, OneObservationPerQuery
<1>3. IsFiniteSet(rows)
  BY FS_AddElement DEF IInv, TypeOK
<1>4. AllRecorded(rows) <=> \A q \in Planned : \E r \in rows : r.query = q
  BY <1>2, <1>3, RecountIsExact
<1>5. ~ metrics.reaped
  BY DEF IInv, OpenIsUnreaped, InsertStep
<1>6. CASE AllRecorded(rows)
  <2>1. /\ status' = Verdict(rows)
        /\ metrics' = [metrics EXCEPT !.counts = CountsOf(rows)]
    BY <1>6 DEF InsertStep, InsertAndRollUp, TerminalStatuses
  <2>2. status' \in TerminalStatuses
    BY <2>1, VerdictIsTerminal DEF TerminalStatuses
  <2>3. metrics'.counts = CountsOf(rows)
    BY <2>1 DEF IInv, TypeOK
  <2>4. ClosedOnTheRows'
    BY <1>1, <1>4, <1>6, <2>1, <2>3 DEF ClosedOnTheRows, Recorded
  <2>5. QED
    BY <1>1, <1>2, <2>2, <2>4
       DEF OneObservationPerQuery, OpenIsUnreaped, OpenMeansUnanswered
<1>7. CASE ~ AllRecorded(rows)
  <2>1. status' = "running" /\ metrics' = metrics
    BY <1>7 DEF InsertStep, InsertAndRollUp
  <2>2. \E q \in Planned : ~ Recorded(q)'
    BY <1>1, <1>4, <1>7 DEF Recorded
  <2>3. QED
    BY <1>1, <1>2, <1>5, <2>1, <2>2
       DEF OneObservationPerQuery, OpenIsUnreaped, OpenMeansUnanswered,
           ClosedOnTheRows, TerminalStatuses
<1>8. QED BY <1>6, <1>7

LEMMA IInvInitially == Init => IInv
<1> SUFFICES ASSUME Init PROVE IInv
  OBVIOUS
<1>1. TypeOK  BY TypesInitially
<1>2. status \notin TerminalStatuses
  BY DEF Init, TerminalStatuses
<1>3. WorkFollowsClaim /\ OneObservationPerQuery
  BY DEF Init, WorkFollowsClaim, OneObservationPerQuery
<1>4. OpenIsUnreaped /\ OpenMeansUnanswered
  BY PlanAssumption
     DEF Init, NoMetrics, OpenIsUnreaped, OpenMeansUnanswered, Recorded
<1>5. QED BY <1>1, <1>2, <1>3, <1>4 DEF IInv, ClosedOnTheRows

LEMMA IInvStep == IInv /\ [Next]_vars => IInv'
<1> SUFFICES ASSUME IInv, [Next]_vars PROVE IInv'
  OBVIOUS
<1>1. TypeOK' /\ WorkFollowsClaim'
  BY TypesStep, WorkFollowsClaimStep DEF IInv
<1>2. RunStep
  BY StepsOfTheRun DEF IInv
<1>3. CASE IdleStep
  BY <1>1, <1>3 DEF IInv, IdleStep, OneObservationPerQuery, OpenIsUnreaped,
     OpenMeansUnanswered, ClosedOnTheRows, Recorded
<1>4. CASE BeginStep
  <2>1. status \notin TerminalStatuses /\ status' \notin TerminalStatuses
    BY <1>4 DEF BeginStep, TerminalStatuses
  <2>2. QED
    BY <1>1, <1>4, <2>1 DEF IInv, BeginStep, OneObservationPerQuery,
       OpenIsUnreaped, OpenMeansUnanswered, ClosedOnTheRows, Recorded
<1>5. CASE Reap
  <2>1. status' \in TerminalStatuses /\ metrics'.reaped
    BY <1>5 DEF Reap, TerminalStatuses, IInv, TypeOK
  <2>2. QED
    BY <1>1, <1>5, <2>1 DEF IInv, Reap, OneObservationPerQuery,
       OpenIsUnreaped, OpenMeansUnanswered, ClosedOnTheRows
<1>6. ASSUME NEW row \in Rows, InsertStep(row) PROVE IInv'
  BY <1>1, <1>6, InsertKeepsTheRows DEF IInv
<1>7. QED BY <1>2, <1>3, <1>4, <1>5, <1>6 DEF RunStep

\* The run's rows are consistent in every reachable state.
THEOREM RowsAreConsistent == Spec => []IInv
BY IInvInitially, IInvStep, PTL DEF Spec

\* However often a query's job is redelivered or overlaps itself, the run
\* keeps one observation of it.
THEOREM OneObservation == Spec => []OneObservationPerQuery
<1>1. IInv => OneObservationPerQuery  BY DEF IInv
<1>2. QED BY <1>1, RowsAreConsistent, PTL

\* A run closed by its roll-up answers every planned query, with the verdict
\* and the counts of exactly its rows.
THEOREM ClosedRunsAreExact == Spec => []ClosedOnTheRows
<1>1. IInv => ClosedOnTheRows  BY DEF IInv
<1>2. QED BY <1>1, RowsAreConsistent, PTL

\* An open run has an unanswered planned query: the last settle closes it.
THEOREM OpenRunsAreUnanswered == Spec => []OpenMeansUnanswered
<1>1. IInv => OpenMeansUnanswered  BY DEF IInv
<1>2. QED BY <1>1, RowsAreConsistent, PTL

\* No step changes the status, the metrics, the observations or the audit
\* trail of a terminal run.
THEOREM TerminalRunsAreFrozen == Spec => TerminalIsFrozen
<1>1. IInv /\ [Next]_vars
        => [(status \in TerminalStatuses) =>
              UNCHANGED <<status, metrics, observations, audit>>]_vars
  <2> SUFFICES ASSUME IInv, [Next]_vars, status \in TerminalStatuses
               PROVE  UNCHANGED <<status, metrics, observations, audit>>
    OBVIOUS
  <2>1. RunStep  BY StepsOfTheRun DEF IInv
  <2>2. ~ BeginStep /\ ~ Reap /\ \A row \in Rows : ~ InsertStep(row)
    BY DEF BeginStep, Reap, InsertStep, TerminalStatuses
  <2>3. QED BY <2>1, <2>2 DEF RunStep, IdleStep
<1>2. QED BY <1>1, RowsAreConsistent, PTL DEF Spec, TerminalIsFrozen

-----------------------------------------------------------------------------
(* The audit trail. *)

\* Appending an event that starts where the trail ends extends the history.
LEMMA TrailGrows ==
  ASSUME NEW trail \in Seq(AuditEvents), NEW s, s \notin TerminalStatuses,
         LeadsTo(trail, s), NEW e \in AuditEvents, e.before = s
  PROVE  LeadsTo(Append(trail, e), e.after)
<1> DEFINE longer == Append(trail, e)
<1>1. /\ Len(longer) = Len(trail) + 1
      /\ Len(trail) \in Nat \ {0}
      /\ longer[Len(trail) + 1] = e
      /\ \A i \in 1 .. Len(trail) : longer[i] = trail[i]
  BY DEF LeadsTo
<1>2. longer # <<>> /\ longer[Len(longer)].after = e.after
  BY <1>1
<1>3. ASSUME NEW i \in 1 .. Len(longer)
      PROVE  longer[i].before \notin TerminalStatuses
  BY <1>1, <1>3 DEF LeadsTo
<1>4. ASSUME NEW i \in 2 .. Len(longer)
      PROVE  longer[i].before = longer[i - 1].after
  <2>1. CASE i = Len(longer)
    BY <1>1, <2>1 DEF LeadsTo
  <2>2. CASE i # Len(longer)
    BY <1>1, <1>4, <2>2 DEF LeadsTo
  <2>3. QED BY <2>1, <2>2
<1>5. QED BY <1>2, <1>3, <1>4 DEF LeadsTo

\* The claim's first write leaves a trail that leads to a running run.
LEMMA BegunTrailLeadsToRunning ==
  ASSUME TypeOK, AuditIsTheHistory, status \notin TerminalStatuses
  PROVE  LeadsTo(BegunTrail, "running")
<1>1. CASE status = "queued"
  <2>1. AuditStarted \in AuditEvents
    BY DEF AuditStarted, AuditEvents, RunStatuses
  <2>2. LeadsTo(Append(audit, AuditStarted), AuditStarted.after)
    BY <1>1, <2>1, TrailGrows
       DEF TypeOK, AuditIsTheHistory, AuditStarted, TerminalStatuses
  <2>3. QED BY <1>1, <2>2 DEF BegunTrail, AuditStarted
<1>2. CASE status = "running"
  BY <1>2 DEF BegunTrail, AuditIsTheHistory
<1>3. QED BY <1>1, <1>2 DEF TypeOK, RunStatuses

\* The audit trail is the history of the run's status, whoever wrote to it.
THEOREM AuditTellsTheHistory == Spec => []AuditIsTheHistory
<1>1. Init => AuditIsTheHistory
  BY DEF Init, AuditIsTheHistory, LeadsTo, TerminalStatuses
<1>2. IInv /\ AuditIsTheHistory /\ [Next]_vars => AuditIsTheHistory'
  <2> SUFFICES ASSUME IInv, AuditIsTheHistory, [Next]_vars
               PROVE  AuditIsTheHistory'
    OBVIOUS
  <2>1. TypeOK /\ RunStep  BY StepsOfTheRun DEF IInv
  <2>2. CASE IdleStep
    BY <2>2 DEF IdleStep, AuditIsTheHistory
  <2>3. CASE BeginStep
    <3>1. audit' = BegunTrail /\ status' = "running"
      BY <2>3 DEF BeginStep, BegunTrail
    <3>2. status \notin TerminalStatuses
      BY <2>3 DEF BeginStep, TerminalStatuses
    <3>3. QED
      BY <2>1, <3>1, <3>2, BegunTrailLeadsToRunning DEF AuditIsTheHistory
  <2>4. CASE Reap
    <3> DEFINE e == [action |-> "reaped", before |-> "running",
                     after |-> "failed"]
    <3>1. e \in AuditEvents
      BY DEF AuditEvents, RunStatuses, TerminalStatuses
    <3>2. audit' = Append(audit, e) /\ status = "running" /\ status' = "failed"
      BY <2>4 DEF Reap
    <3>3. LeadsTo(Append(audit, e), e.after)
      BY <2>1, <3>1, <3>2, TrailGrows
         DEF TypeOK, AuditIsTheHistory, TerminalStatuses
    <3>4. QED BY <3>2, <3>3 DEF AuditIsTheHistory
  <2>5. ASSUME NEW row \in Rows, InsertStep(row) PROVE AuditIsTheHistory'
    <3> DEFINE rows == observations \cup {row}
               e == AuditCompleted("running", Verdict(rows))
    <3>1. LeadsTo(BegunTrail, "running") /\ BegunTrail \in Seq(AuditEvents)
      BY <2>1, <2>5, BegunTrailLeadsToRunning, BegunIsTyped DEF InsertStep
    <3>2. e \in AuditEvents /\ e.before = "running" /\ e.after = Verdict(rows)
      BY VerdictIsTerminal
         DEF AuditCompleted, AuditEvents, RunStatuses, TerminalStatuses
    <3>3. LeadsTo(Append(BegunTrail, e), Verdict(rows))
      BY <3>1, <3>2, TrailGrows DEF TerminalStatuses
    <3>4. \/ status' = Verdict(rows) /\ audit' = Append(BegunTrail, e)
          \/ status' = "running" /\ audit' = BegunTrail
      BY <2>5 DEF InsertStep, InsertAndRollUp
    <3>5. QED BY <3>1, <3>3, <3>4 DEF AuditIsTheHistory
  <2>6. QED BY <2>1, <2>2, <2>3, <2>4, <2>5 DEF RunStep
<1>3. QED BY <1>1, <1>2, RowsAreConsistent, PTL DEF Spec

-----------------------------------------------------------------------------
(* Evidence. *)

\* What a worker brings to its settle has been published, and if it is usable
\* it names a bundle.
SpawnedIsPublished ==
  \A w \in Workers :
    pc[w] = "spawned" => outcome[w].bundle \in published \cup {NoBundle}

\* A row never outlives or precedes its evidence: bundle, manifest row and
\* observation appear in that order, and none is taken back.
THEOREM ObservationsAreBacked == Spec => []EvidenceBacked
<1> DEFINE EInv == SpawnedIsPublished /\ EvidenceBacked
<1>1. Init => EInv
  BY DEF Init, SpawnedIsPublished, EvidenceBacked
<1>2. IInv /\ EInv /\ [Next]_vars => EInv'
  <2> SUFFICES ASSUME IInv, SpawnedIsPublished, EvidenceBacked, [Next]_vars
               PROVE  SpawnedIsPublished' /\ EvidenceBacked'
    OBVIOUS
  <2> USE DEF database
  <2>1. ASSUME NEW id \in Ids, Enqueue(id) \/ LeaseExpires(id)
        PROVE  SpawnedIsPublished' /\ EvidenceBacked'
    BY <2>1 DEF Enqueue, LeaseExpires, SpawnedIsPublished, EvidenceBacked
  <2>2. ASSUME NEW w \in Workers,
               \/ (\E id \in Ids : TakeJob(w, id))
               \/ ClaimTerminal(w) \/ ClaimRecorded(w) \/ ClaimOverflows(w)
               \/ ClaimAccepted(w) \/ PublishStarted(w) \/ SettleSkips(w)
               \/ PublishObserved(w) \/ PublishCompleted(w) \/ FinishJob(w)
               \/ Crash(w) \/ JobRaises(w)
        PROVE  SpawnedIsPublished' /\ EvidenceBacked'
    <3>1. UNCHANGED <<observations, bundleRows, published>>
      BY <2>2 DEF TakeJob, ClaimTerminal, ClaimRecorded, ClaimOverflows,
         ClaimAccepted, PublishStarted, SettleSkips, PublishObserved,
         PublishCompleted, FinishJob, Crash, JobRaises
    <3>2. /\ pc'[w] # "spawned"
          /\ \A v \in Workers \ {w} : pc'[v] = pc[v] /\ outcome'[v] = outcome[v]
      BY <2>2 DEF TakeJob, ClaimTerminal, ClaimRecorded, ClaimOverflows,
         ClaimAccepted, PublishStarted, SettleSkips, PublishObserved,
         PublishCompleted, FinishJob, Crash, JobRaises, IInv, TypeOK
    <3>3. QED BY <3>1, <3>2 DEF SpawnedIsPublished, EvidenceBacked
  <2>3. ASSUME NEW w \in Workers, ClaimRefused(w)
        PROVE  SpawnedIsPublished' /\ EvidenceBacked'
    <3> DEFINE row == [query |-> job[w], status |-> "failed", bundle |-> NoBundle]
    <3>1. observations' = observations \cup {row}
      BY <2>3 DEF ClaimRefused, InsertAndRollUp
    <3>2. /\ UNCHANGED <<bundleRows, published, outcome>>
          /\ pc'[w] = "done"
          /\ \A v \in Workers \ {w} : pc'[v] = pc[v]
      BY <2>3 DEF ClaimRefused, IInv, TypeOK
    <3>3. QED
      BY <3>1, <3>2 DEF SpawnedIsPublished, EvidenceBacked, UsableStatuses
  <2>4. ASSUME NEW w \in Workers, SpawnAttempt(w)
        PROVE  SpawnedIsPublished' /\ EvidenceBacked'
    <3>1. PICK o \in Outcomes :
            /\ outcome' = [outcome EXCEPT ![w] = o]
            /\ published' = published \cup ({o.bundle} \ {NoBundle})
      BY <2>4 DEF SpawnAttempt
    <3>2. UNCHANGED <<observations, bundleRows>>
          /\ \A v \in Workers \ {w} : pc'[v] = pc[v]
      BY <2>4 DEF SpawnAttempt, IInv, TypeOK
    <3>3. /\ outcome'[w] = o
          /\ \A v \in Workers \ {w} : outcome'[v] = outcome[v]
      BY <3>1 DEF IInv, TypeOK
    <3>4. SpawnedIsPublished'
      BY <3>1, <3>2, <3>3 DEF SpawnedIsPublished
    <3>5. EvidenceBacked'
      BY <3>1, <3>2 DEF EvidenceBacked
    <3>6. QED BY <3>4, <3>5
  <2>5. ASSUME NEW w \in Workers, SettleRecords(w)
        PROVE  SpawnedIsPublished' /\ EvidenceBacked'
    <3> DEFINE row == [query |-> job[w], status |-> outcome[w].status,
                       bundle |-> outcome[w].bundle]
    <3>1. /\ observations' = observations \cup {row}
          /\ bundleRows' = bundleRows \cup ({row.bundle} \ {NoBundle})
          /\ UNCHANGED published
      BY <2>5 DEF SettleRecords, InsertAndRollUp
    <3>2. /\ pc'[w] # "spawned"
          /\ \A v \in Workers \ {w} : pc'[v] = pc[v] /\ outcome'[v] = outcome[v]
      BY <2>5 DEF SettleRecords, IInv, TypeOK
    <3>3. outcome[w] \in Outcomes /\ outcome[w].bundle \in published \cup {NoBundle}
      BY <2>5 DEF SettleRecords, SpawnedIsPublished, IInv, TypeOK
    <3>4. /\ row.bundle # NoBundle => row.bundle \in bundleRows' \cap published'
          /\ row.status \in UsableStatuses => row.bundle # NoBundle
      BY <3>1, <3>3 DEF Outcomes
    <3>5. EvidenceBacked'
      BY <3>1, <3>4 DEF EvidenceBacked
    <3>6. QED BY <3>1, <3>2, <3>5 DEF SpawnedIsPublished
  <2>6. CASE GrowStale \/ Reap \/ UNCHANGED vars
    BY <2>6 DEF GrowStale, Reap, vars, SpawnedIsPublished, EvidenceBacked
  <2>7. QED BY <2>1, <2>2, <2>3, <2>4, <2>5, <2>6 DEF Next, Work, Claim
<1>3. EInv => EvidenceBacked  OBVIOUS
<1>4. QED BY <1>1, <1>2, <1>3, RowsAreConsistent, PTL DEF Spec

-----------------------------------------------------------------------------
(* Announcements. *)

\* The start is announced by the one worker that moved the run out of queued.
StartsOnce ==
  /\ wire.started \in {0, 1}
  /\ status = "queued" =>
       wire.started = 0 /\ \A w \in Workers : pc[w] # "started"
  /\ \A w \in Workers : pc[w] = "started" =>
       wire.started = 0 /\ \A v \in Workers \ {w} : pc[v] # "started"

\* What is announced next, or has been, is recorded.
ObservedAreRecorded ==
  /\ \A w \in Workers : pc[w] \in {"settled", "settledLast"} => Recorded(job[w])
  /\ \A id \in wire.observed : Recorded(id)

\* The completion is announced by the one worker whose settle closed the run.
Closing == {"settledLast", "closing"}
CompletesOnce ==
  /\ wire.completed \in {0, 1}
  /\ wire.completed = 1 => status \in TerminalStatuses /\ ~ metrics.reaped
  /\ \A w \in Workers : pc[w] \in Closing =>
       /\ status \in TerminalStatuses /\ ~ metrics.reaped /\ wire.completed = 0
       /\ \A v \in Workers \ {w} : pc[v] \notin Closing

WireInv == StartsOnce /\ ObservedAreRecorded /\ CompletesOnce

\* The rows only grow, the status does not return to queued, and an end stays.
LEMMA RowsAreKept ==
  ASSUME IInv, [Next]_vars
  PROVE  /\ \A id : Recorded(id) => Recorded(id)'
         /\ status # "queued" => status' # "queued"
         /\ status \in TerminalStatuses => status' = status /\ metrics' = metrics
<1>1. RunStep
  BY StepsOfTheRun DEF IInv
<1>2. CASE IdleStep
  BY <1>2 DEF IdleStep, Recorded
<1>3. CASE BeginStep
  BY <1>3 DEF BeginStep, Recorded, TerminalStatuses
<1>4. CASE Reap
  BY <1>4 DEF Reap, Recorded, TerminalStatuses
<1>5. ASSUME NEW row \in Rows, InsertStep(row)
      PROVE  /\ \A id : Recorded(id) => Recorded(id)'
             /\ status' # "queued" /\ status \notin TerminalStatuses
  BY <1>5, VerdictIsTerminal DEF InsertStep, InsertAndRollUp, Recorded
<1>6. QED BY <1>1, <1>2, <1>3, <1>4, <1>5 DEF RunStep

\* A worker that comes neither to an announcement nor to its end announces
\* nothing out of turn.
LEMMA QuietStep ==
  ASSUME IInv, WireInv, [Next]_vars, UNCHANGED wire,
         \A w \in Workers :
           \/ pc'[w] = pc[w] /\ (pc[w] # "idle" => job'[w] = job[w])
           \/ pc'[w] \notin {"started", "settled", "settledLast", "closing"}
  PROVE  WireInv'
<1>1. StartsOnce'
  BY RowsAreKept DEF WireInv, StartsOnce
<1>2. ObservedAreRecorded'
  BY RowsAreKept DEF WireInv, ObservedAreRecorded
<1>3. CompletesOnce'
  BY RowsAreKept DEF WireInv, CompletesOnce, Closing
<1>4. QED BY <1>1, <1>2, <1>3 DEF WireInv

LEMMA WireInvStep == IInv /\ WireInv /\ [Next]_vars => WireInv'
<1> SUFFICES ASSUME IInv, WireInv, [Next]_vars PROVE WireInv'
  OBVIOUS
<1> USE DEF database
<1>1. ASSUME NEW id \in Ids, Enqueue(id) \/ LeaseExpires(id) PROVE WireInv'
  BY <1>1, QuietStep DEF Enqueue, LeaseExpires
<1>2. ASSUME NEW w \in Workers,
             \/ (\E id \in Ids : TakeJob(w, id))
             \/ ClaimTerminal(w) \/ ClaimRecorded(w) \/ ClaimRefused(w)
             \/ ClaimOverflows(w) \/ SpawnAttempt(w) \/ SettleSkips(w)
             \/ FinishJob(w) \/ Crash(w) \/ JobRaises(w)
      PROVE  WireInv'
  <2>1. /\ UNCHANGED wire
        /\ pc'[w] \notin {"started", "settled", "settledLast", "closing"}
        /\ \A v \in Workers \ {w} : pc'[v] = pc[v] /\ job'[v] = job[v]
    BY <1>2 DEF TakeJob, ClaimTerminal, ClaimRecorded, ClaimRefused, ClaimOverflows,
       SpawnAttempt, SettleSkips, FinishJob, Crash, JobRaises, IInv, TypeOK
  <2>2. QED BY <2>1, QuietStep
<1>3. ASSUME NEW w \in Workers, ClaimAccepted(w) PROVE WireInv'
  <2>1. /\ UNCHANGED <<wire, job>>
        /\ pc'[w] = IF status = "queued" THEN "started" ELSE "claimed"
        /\ \A v \in Workers \ {w} : pc'[v] = pc[v]
        /\ status' = "running"
    BY <1>3 DEF ClaimAccepted, Begin, Begun, IInv, TypeOK
  <2>2. CASE status = "queued"
    <3>1. StartsOnce'
      BY <2>1, <2>2 DEF WireInv, StartsOnce
    <3>2. ObservedAreRecorded' /\ CompletesOnce'
      BY <2>1, <2>2, RowsAreKept DEF WireInv, ObservedAreRecorded, CompletesOnce, Closing
    <3>3. QED BY <3>1, <3>2 DEF WireInv
  <2>3. CASE status # "queued"
    BY <2>1, <2>3, QuietStep
  <2>4. QED BY <2>2, <2>3
<1>4. ASSUME NEW w \in Workers, PublishStarted(w) PROVE WireInv'
  <2>1. /\ pc[w] = "started" /\ pc'[w] = "claimed"
        /\ \A v \in Workers \ {w} : pc'[v] = pc[v]
        /\ UNCHANGED <<status, metrics, observations, job>>
    BY <1>4 DEF PublishStarted, IInv, TypeOK
  <2>2. /\ wire'.started = wire.started + 1 /\ wire'.observed = wire.observed
        /\ wire'.completed = wire.completed
    BY <1>4 DEF PublishStarted, IInv, TypeOK
  <2>3. StartsOnce'
    BY <2>1, <2>2 DEF WireInv, StartsOnce
  <2>4. ObservedAreRecorded' /\ CompletesOnce'
    BY <2>1, <2>2 DEF WireInv, ObservedAreRecorded, CompletesOnce, Closing, Recorded
  <2>5. QED BY <2>3, <2>4 DEF WireInv
<1>5. ASSUME NEW w \in Workers, SettleRecords(w) PROVE WireInv'
  <2>1. /\ UNCHANGED <<wire, job>> /\ status \notin TerminalStatuses
        /\ pc'[w] = IF status' \in TerminalStatuses THEN "settledLast" ELSE "settled"
        /\ \A v \in Workers \ {w} : pc'[v] = pc[v]
    BY <1>5 DEF SettleRecords, IInv, TypeOK
  <2>2. Recorded(job[w])'
    <3> DEFINE row == [query |-> job[w], status |-> outcome[w].status,
                       bundle |-> outcome[w].bundle]
    <3>1. observations' = observations \cup {row} /\ row.query = job[w]
      BY <1>5 DEF SettleRecords, InsertAndRollUp
    <3> HIDE DEF row
    <3>2. QED BY <2>1, <3>1 DEF Recorded
  <2>3. ~ metrics'.reaped
    BY <1>5 DEF SettleRecords, InsertAndRollUp, IInv, OpenIsUnreaped, TypeOK
  <2>4. StartsOnce'
    BY <2>1, RowsAreKept DEF WireInv, StartsOnce
  <2>5. ObservedAreRecorded'
    BY <2>1, <2>2, RowsAreKept DEF WireInv, ObservedAreRecorded
  <2>6. CompletesOnce'
    BY <2>1, <2>3 DEF WireInv, CompletesOnce, Closing
  <2>7. QED BY <2>4, <2>5, <2>6 DEF WireInv
<1>6. ASSUME NEW w \in Workers, PublishObserved(w) PROVE WireInv'
  <2>1. /\ pc[w] \in {"settled", "settledLast"}
        /\ pc'[w] = IF pc[w] = "settledLast" THEN "closing" ELSE "done"
        /\ \A v \in Workers \ {w} : pc'[v] = pc[v]
        /\ UNCHANGED <<status, metrics, observations, job>>
    BY <1>6 DEF PublishObserved, IInv, TypeOK
  <2>2. /\ wire'.started = wire.started /\ wire'.completed = wire.completed
        /\ wire'.observed = wire.observed \cup {job[w]}
    BY <1>6 DEF PublishObserved, IInv, TypeOK
  <2>3. StartsOnce'
    BY <2>1, <2>2 DEF WireInv, StartsOnce
  <2>4. ObservedAreRecorded'
    BY <2>1, <2>2 DEF WireInv, ObservedAreRecorded, Recorded
  <2>5. CompletesOnce'
    BY <2>1, <2>2 DEF WireInv, CompletesOnce, Closing
  <2>6. QED BY <2>3, <2>4, <2>5 DEF WireInv
<1>7. ASSUME NEW w \in Workers, PublishCompleted(w) PROVE WireInv'
  <2>1. /\ pc[w] = "closing" /\ pc'[w] = "done"
        /\ \A v \in Workers \ {w} : pc'[v] = pc[v]
        /\ UNCHANGED <<status, metrics, observations, job>>
    BY <1>7 DEF PublishCompleted, IInv, TypeOK
  <2>2. /\ wire'.started = wire.started /\ wire'.observed = wire.observed
        /\ wire'.completed = wire.completed + 1
    BY <1>7 DEF PublishCompleted, IInv, TypeOK
  <2>3. StartsOnce' /\ ObservedAreRecorded'
    BY <2>1, <2>2 DEF WireInv, StartsOnce, ObservedAreRecorded, Recorded
  <2>4. CompletesOnce'
    BY <2>1, <2>2 DEF WireInv, CompletesOnce, Closing
  <2>5. QED BY <2>3, <2>4 DEF WireInv
<1>8. CASE GrowStale \/ Reap \/ UNCHANGED vars
  BY <1>8, QuietStep DEF GrowStale, Reap, vars
<1>9. QED
  BY <1>1, <1>2, <1>3, <1>4, <1>5, <1>6, <1>7, <1>8 DEF Next, Work, Claim

\* Nothing is announced before it is committed, the start and the end at most
\* once, whatever crashes, overlaps or is reaped.
THEOREM AnnouncementsFollowCommits == Spec => []WireFollowsCommits
<1>1. Init => WireInv
  BY DEF Init, WireInv, StartsOnce, ObservedAreRecorded, CompletesOnce, Closing
<1>2. WireInv => WireFollowsCommits
  BY DEF WireInv, StartsOnce, ObservedAreRecorded, CompletesOnce, WireFollowsCommits
<1>3. QED BY <1>1, <1>2, WireInvStep, RowsAreConsistent, PTL DEF Spec

-----------------------------------------------------------------------------
(* Attempts of a query, as long as no lease is lost. *)

\* A busy worker has the lease of its job to itself, and until its settle the
\* query has no row.
Leased ==
  \A w \in Workers :
    /\ pc[w] = "idle" => job[w] = NoJob
    /\ pc[w] # "idle" =>
         /\ jobs[job[w]] = "leased"
         /\ \A v \in Workers \ {w} : pc[v] # "idle" => job[v] # job[w]
    /\ pc[w] \in {"started", "claimed", "spawned"} => ~ Recorded(job[w])

LEMMA LeasedStep == ~ Faulty /\ IInv /\ Leased /\ [Next]_vars => Leased'
<1> SUFFICES ASSUME ~ Faulty, IInv, Leased, [Next]_vars PROVE Leased'
  OBVIOUS
<1> USE DEF database
<1>1. \A w \in Workers : pc[w] # "idle" => job[w] \in Ids
  BY DEF IInv, TypeOK
<1>2. ASSUME NEW id \in Ids, Enqueue(id) PROVE Leased'
  <2>1. /\ UNCHANGED <<pc, job, observations>> /\ jobs[id] = "absent"
        /\ \A i \in Ids : i # id => jobs'[i] = jobs[i]
    BY <1>2 DEF Enqueue, IInv, TypeOK
  <2>2. QED BY <1>1, <2>1 DEF Leased, Recorded
<1>3. ASSUME NEW w \in Workers, NEW id \in Ids, TakeJob(w, id) PROVE Leased'
  <2>1. /\ UNCHANGED observations /\ jobs[id] = "queued" /\ jobs'[id] = "leased"
        /\ pc'[w] = "taken" /\ job'[w] = id
        /\ \A i \in Ids : i # id => jobs'[i] = jobs[i]
        /\ \A v \in Workers : v # w => pc'[v] = pc[v] /\ job'[v] = job[v]
    BY <1>3 DEF TakeJob, IInv, TypeOK
  <2>2. \A v \in Workers : pc[v] # "idle" => job[v] # id
    BY <2>1 DEF Leased
  <2>3. QED BY <1>1, <2>1, <2>2 DEF Leased, Recorded
<1>4. ASSUME NEW w \in Workers, FinishJob(w) PROVE Leased'
  <2>1. /\ UNCHANGED observations /\ pc[w] # "idle"
        /\ pc'[w] = "idle" /\ job'[w] = NoJob
        /\ \A i \in Ids : i # job[w] => jobs'[i] = jobs[i]
        /\ \A v \in Workers : v # w => pc'[v] = pc[v] /\ job'[v] = job[v]
    BY <1>4 DEF FinishJob, IInv, TypeOK
  <2>2. QED BY <1>1, <2>1 DEF Leased, Recorded
<1>5. ASSUME NEW w \in Workers,
             \/ Claim(w) \/ PublishStarted(w) \/ SpawnAttempt(w) \/ SettleSkips(w)
             \/ SettleRecords(w) \/ PublishObserved(w) \/ PublishCompleted(w)
      PROVE  Leased'
  <2>1. /\ UNCHANGED <<job, jobs>> /\ pc[w] # "idle" /\ pc'[w] # "idle"
        /\ \A v \in Workers : v # w => pc'[v] = pc[v]
    BY <1>5 DEF Claim, ClaimTerminal, ClaimRecorded, ClaimRefused, ClaimOverflows,
       ClaimAccepted, PublishStarted, SpawnAttempt, SettleSkips, SettleRecords,
       PublishObserved, PublishCompleted, IInv, TypeOK
  <2>2. \/ UNCHANGED observations
        \/ /\ pc'[w] \in {"done", "settled", "settledLast"}
           /\ \E row : row.query = job[w] /\ observations' = observations \cup {row}
    <3>1. CASE ClaimRefused(w)
      <4> DEFINE row == [query |-> job[w], status |-> "failed", bundle |-> NoBundle]
      <4>1. row.query = job[w] /\ observations' = observations \cup {row}
            /\ pc'[w] = "done"
        BY <3>1 DEF ClaimRefused, InsertAndRollUp, IInv, TypeOK
      <4>2. QED BY <4>1
    <3>2. CASE SettleRecords(w)
      <4> DEFINE row == [query |-> job[w], status |-> outcome[w].status,
                         bundle |-> outcome[w].bundle]
      <4>1. row.query = job[w] /\ observations' = observations \cup {row}
            /\ pc'[w] \in {"settled", "settledLast"}
        BY <3>2 DEF SettleRecords, InsertAndRollUp, IInv, TypeOK
      <4>2. QED BY <4>1
    <3>3. QED
      BY <1>5, <3>1, <3>2 DEF Claim, ClaimTerminal, ClaimRecorded, ClaimOverflows,
         ClaimAccepted, PublishStarted, SpawnAttempt, SettleSkips, PublishObserved,
         PublishCompleted
  <2>3. UNCHANGED observations /\ pc'[w] \in {"started", "claimed", "spawned"} =>
          ~ Recorded(job[w])
    BY <1>5 DEF Claim, ClaimTerminal, ClaimRecorded, ClaimRefused, ClaimOverflows,
       ClaimAccepted, PublishStarted, SpawnAttempt, SettleSkips, SettleRecords,
       PublishObserved, PublishCompleted, Leased, IInv, TypeOK
  <2>4. \A v \in Workers : v # w /\ pc[v] # "idle" => (Recorded(job[v])' <=> Recorded(job[v]))
    BY <2>1, <2>2 DEF Recorded, Leased
  <2>5. QED BY <2>1, <2>2, <2>3, <2>4 DEF Leased, Recorded
<1>6. CASE GrowStale \/ Reap \/ UNCHANGED vars
  BY <1>6 DEF GrowStale, Reap, vars, Leased, Recorded
<1>7. ASSUME NEW w \in Workers PROVE ~ Crash(w) /\ ~ JobRaises(w)
  BY DEF Crash, JobRaises
<1>8. ASSUME NEW id \in Ids PROVE ~ LeaseExpires(id)
  BY DEF LeaseExpires
<1>9. QED BY <1>2, <1>3, <1>4, <1>5, <1>6, <1>7, <1>8 DEF Next, Work

\* As long as no lease is lost, one attempt at a time works on a query, and
\* only while it is unanswered.
THEOREM AttemptsAreSole == ~ Faulty => (Spec => []SoleAttempt)
<1> SUFFICES ASSUME ~ Faulty PROVE Spec => []SoleAttempt
  OBVIOUS
<1>1. Init => Leased
  BY DEF Init, Leased
<1>2. IInv /\ Leased => SoleAttempt
  BY PlanAssumption DEF IInv, TypeOK, Leased, SoleAttempt
<1>3. IInv /\ Leased /\ [Next]_vars => Leased'
  BY LeasedStep
<1>4. QED BY <1>1, <1>2, <1>3, RowsAreConsistent, PTL DEF Spec

-----------------------------------------------------------------------------
(* What is left to do has somebody to do it, as long as nobody dies.       *)

\* The end of a run that its roll-up closed has been announced, or the worker
\* that closed it is on its way to announce it.
CompletionIsInHand ==
  status \in TerminalStatuses /\ ~ metrics.reaped =>
    wire.completed = 1 \/ \E w \in Workers : pc[w] \in Closing

\* The step that closes a run leaves its worker to announce the end, but for a
\* refusal: its row is never the last one, since it is of no planned query.
LEMMA ClosedByASettle ==
  ASSUME IInv, NEW w \in Workers, ClaimRefused(w)
  PROVE  status' \notin TerminalStatuses
<1> DEFINE row == [query |-> job[w], status |-> "failed", bundle |-> NoBundle]
<1>1. /\ status \notin TerminalStatuses /\ row.query \notin Planned
      /\ InsertAndRollUp(row, Begun, BegunTrail)
  BY PlanAssumption DEF ClaimRefused
<1>2. PICK q \in Planned : ~ Recorded(q)
  BY <1>1 DEF IInv, OpenMeansUnanswered
<1> DEFINE rows == observations \cup {row}
<1>3. /\ IsFiniteSet(rows)
      /\ \A r1, r2 \in rows : r1.query = r2.query => r1 = r2
  BY FS_AddElement DEF IInv, TypeOK, OneObservationPerQuery, ClaimRefused,
     Recorded
<1>4. ~ \E r \in rows : r.query = q
  BY <1>1, <1>2 DEF Recorded
<1>5. ~ AllRecorded(rows)
  BY <1>3, <1>4, RecountIsExact
<1>6. QED
  BY <1>1, <1>5 DEF InsertAndRollUp, Begun, TerminalStatuses

LEMMA CompletionStaysInHand ==
  ASSUME ~ Faulty, IInv, WireInv, CompletionIsInHand, [Next]_vars
  PROVE  CompletionIsInHand'
<1> USE DEF database
<1>1. CASE UNCHANGED <<status, metrics, wire, pc>>
  BY <1>1 DEF CompletionIsInHand
<1>2. ASSUME NEW w \in Workers,
             \/ \E id \in Ids : TakeJob(w, id)
             \/ ClaimTerminal(w) \/ ClaimOverflows(w) \/ PublishStarted(w)
             \/ SpawnAttempt(w) \/ SettleSkips(w) \/ FinishJob(w)
      PROVE  CompletionIsInHand'
  <2>1. /\ UNCHANGED <<status, metrics>> /\ wire'.completed = wire.completed
        /\ pc[w] \notin Closing
        /\ \A v \in Workers \ {w} : pc'[v] = pc[v]
    BY <1>2 DEF TakeJob, ClaimTerminal, ClaimOverflows, PublishStarted,
       SpawnAttempt, SettleSkips, FinishJob, IInv, TypeOK, Closing
  <2>2. QED BY <2>1 DEF CompletionIsInHand
<1>3. ASSUME NEW w \in Workers, ClaimRecorded(w) \/ ClaimAccepted(w)
      PROVE  CompletionIsInHand'
  BY <1>3 DEF ClaimRecorded, ClaimAccepted, Begin, Begun, CompletionIsInHand,
              TerminalStatuses
<1>4. ASSUME NEW w \in Workers, ClaimRefused(w) PROVE CompletionIsInHand'
  BY <1>4, ClosedByASettle DEF CompletionIsInHand
<1>5. ASSUME NEW w \in Workers, SettleRecords(w) PROVE CompletionIsInHand'
  <2>1. status' \in TerminalStatuses => pc'[w] = "settledLast"
    BY <1>5 DEF SettleRecords, IInv, TypeOK
  <2>2. QED BY <2>1 DEF CompletionIsInHand, Closing
<1>6. ASSUME NEW w \in Workers, PublishObserved(w) PROVE CompletionIsInHand'
  <2>1. /\ UNCHANGED <<status, metrics>> /\ wire'.completed = wire.completed
        /\ pc[w] \in Closing => pc'[w] \in Closing
        /\ \A v \in Workers \ {w} : pc'[v] = pc[v]
    BY <1>6 DEF PublishObserved, IInv, TypeOK, Closing
  <2>2. QED BY <2>1 DEF CompletionIsInHand
<1>7. ASSUME NEW w \in Workers, PublishCompleted(w) PROVE CompletionIsInHand'
  <2>1. wire.completed = 0
    BY <1>7 DEF PublishCompleted, WireInv, CompletesOnce, Closing
  <2>2. wire'.completed = 1
    BY <1>7, <2>1 DEF PublishCompleted, IInv, TypeOK
  <2>3. QED BY <2>2 DEF CompletionIsInHand
<1>8. CASE Reap
  BY <1>8 DEF Reap, CompletionIsInHand, IInv, TypeOK
<1>9. ASSUME NEW id \in Ids, Enqueue(id) \/ LeaseExpires(id)
      PROVE  CompletionIsInHand'
  BY <1>1, <1>9 DEF Enqueue, LeaseExpires
<1>10. CASE GrowStale \/ UNCHANGED vars
  BY <1>1, <1>10 DEF GrowStale, vars
<1>11. ASSUME NEW w \in Workers PROVE ~ Crash(w) /\ ~ JobRaises(w)
  BY DEF Crash, JobRaises
<1>12. QED
  BY <1>2, <1>3, <1>4, <1>5, <1>6, <1>7, <1>8, <1>9, <1>10, <1>11
     DEF Next, Work, Claim

\* As long as no worker dies, the end of a closed run is never left to nobody:
\* the one worker whose settle closed it has yet to announce it, or has
\* (_settle_run returns the terminal status to that worker only).
THEOREM CompletionIsNeverDropped ==
  ~ Faulty => (Spec => []CompletionIsInHand)
<1> SUFFICES ASSUME ~ Faulty PROVE Spec => []CompletionIsInHand
  OBVIOUS
<1>1. Init => WireInv /\ CompletionIsInHand
  BY DEF Init, WireInv, StartsOnce, ObservedAreRecorded, CompletesOnce, Closing,
         CompletionIsInHand, TerminalStatuses
<1>2. IInv /\ WireInv /\ CompletionIsInHand /\ [Next]_vars
        => WireInv' /\ CompletionIsInHand'
  BY WireInvStep, CompletionStaysInHand
<1>3. QED BY <1>1, <1>2, RowsAreConsistent, PTL DEF Spec

\* A worker lets go of a planned query only when it is answered or the run has
\* ended, and only a run gone stale ends without all its answers.
LetGoInv ==
  /\ metrics.reaped => stale
  /\ \A w \in Workers :
       /\ pc[w] \in {"settled", "settledLast", "closing", "done"}
       /\ job[w] \in Planned
       => Recorded(job[w]) \/ status \in TerminalStatuses

LEMMA LetGoStep ==
  ASSUME ~ Faulty, IInv, LetGoInv, [Next]_vars
  PROVE  LetGoInv'
<1> USE DEF database
<1>1. metrics'.reaped => stale'
  <2>1. CASE Reap
    BY <2>1 DEF Reap
  <2>2. CASE GrowStale
    BY <2>2 DEF GrowStale
  <2>3. ASSUME ~ Reap, ~ GrowStale PROVE stale' = stale
    BY <2>3 DEF Next, vars, Enqueue, LeaseExpires, TakeJob, Work, Claim,
       ClaimTerminal, ClaimRecorded, ClaimRefused, ClaimOverflows,
       ClaimAccepted, PublishStarted, SpawnAttempt, SettleSkips, SettleRecords,
       PublishObserved, PublishCompleted, FinishJob, Crash, JobRaises
  <2>4. ASSUME ~ Reap PROVE metrics'.reaped = metrics.reaped
    <3>1. RunStep
      BY StepsOfTheRun DEF IInv
    <3>2. metrics \in [reaped : BOOLEAN, counts : Counts]
      BY DEF IInv, TypeOK
    <3>3. ASSUME NEW row \in Rows, InsertStep(row)
          PROVE  metrics'.reaped = metrics.reaped
      BY <3>2, <3>3 DEF InsertStep, InsertAndRollUp
    <3>4. QED
      BY <2>4, <3>1, <3>3 DEF RunStep, IdleStep, BeginStep
  <2>5. QED BY <2>1, <2>2, <2>3, <2>4 DEF LetGoInv
<1> DEFINE Over(w) == Recorded(job[w]) \/ status \in TerminalStatuses
           Later   == {"settled", "settledLast", "closing", "done"}
<1>2. ASSUME NEW w \in Workers, pc'[w] \in Later, job'[w] \in Planned
      PROVE  Over(w)'
  <2>1. CASE job'[w] = job[w] /\ Over(w)
    BY <2>1, RowsAreKept
  <2>2. CASE pc[w] \in Later /\ job'[w] = job[w]
    BY <1>2, <2>1, <2>2 DEF LetGoInv
  <2>3. CASE Work(w) /\ pc[w] \notin Later
    <3>1. job'[w] = job[w] /\ pc'[w] \in {"settled", "settledLast", "done"}
      BY <1>2, <2>3
         DEF Work, Claim, ClaimTerminal, ClaimRecorded, ClaimRefused,
             ClaimOverflows, ClaimAccepted, PublishStarted, SpawnAttempt,
             SettleSkips, SettleRecords, PublishObserved, PublishCompleted,
             FinishJob, IInv, TypeOK
    <3>2. CASE ClaimTerminal(w) \/ ClaimRecorded(w) \/ SettleSkips(w)
      BY <2>1, <3>1, <3>2 DEF ClaimTerminal, ClaimRecorded, SettleSkips
    <3>3. CASE ClaimRefused(w) \/ ClaimOverflows(w)
      BY <1>2, <3>1, <3>3, PlanAssumption DEF ClaimRefused, ClaimOverflows
    <3>4. CASE SettleRecords(w)
      <4> DEFINE row == [query |-> job[w], status |-> outcome[w].status,
                         bundle |-> outcome[w].bundle]
      <4>1. observations' = observations \cup {row} /\ row.query = job[w]
        BY <3>4 DEF SettleRecords, InsertAndRollUp
      <4> HIDE DEF row
      <4>2. QED BY <3>1, <4>1 DEF Recorded
    <3>5. CASE ClaimAccepted(w) \/ PublishStarted(w) \/ SpawnAttempt(w)
      BY <1>2, <3>5
         DEF ClaimAccepted, PublishStarted, SpawnAttempt, IInv, TypeOK
    <3>6. CASE PublishObserved(w) \/ PublishCompleted(w) \/ FinishJob(w)
      BY <2>3, <3>6 DEF PublishObserved, PublishCompleted, FinishJob
    <3>7. QED BY <2>3, <3>2, <3>3, <3>4, <3>5, <3>6 DEF Work, Claim
  <2>4. CASE pc'[w] = pc[w] /\ job'[w] = job[w]
    BY <1>2, <2>2, <2>4
  <2>5. ASSUME ~ Work(w)
        PROVE  pc'[w] = pc[w] /\ job'[w] = job[w]
    <3>1. ASSUME NEW v \in Workers, v # w,
                 Work(v) \/ \E id \in Ids : TakeJob(v, id)
          PROVE  pc'[w] = pc[w] /\ job'[w] = job[w]
      BY <3>1
         DEF Work, TakeJob, Claim, ClaimTerminal, ClaimRecorded, ClaimRefused,
             ClaimOverflows, ClaimAccepted, PublishStarted, SpawnAttempt,
             SettleSkips, SettleRecords, PublishObserved, PublishCompleted,
             FinishJob, IInv, TypeOK
    <3>2. ASSUME NEW id \in Ids, TakeJob(w, id) PROVE FALSE
      BY <1>2, <3>2 DEF TakeJob, IInv, TypeOK
    <3>3. ASSUME NEW v \in Workers PROVE ~ Crash(v) /\ ~ JobRaises(v)
      BY DEF Crash, JobRaises
    <3>4. ASSUME ~ \E v \in Workers : Work(v) \/ \E id \in Ids : TakeJob(v, id)
          PROVE  UNCHANGED <<pc, job>>
      BY <3>3, <3>4 DEF Next, vars, Enqueue, LeaseExpires, GrowStale, Reap
    <3>5. QED BY <2>5, <3>1, <3>2, <3>4
  <2>6. ASSUME Work(w), pc[w] \in Later PROVE job'[w] = job[w]
    BY <1>2, <2>6
       DEF Work, Claim, ClaimTerminal, ClaimRecorded, ClaimRefused,
           ClaimOverflows, ClaimAccepted, PublishStarted, SpawnAttempt,
           SettleSkips, SettleRecords, PublishObserved, PublishCompleted,
           FinishJob, IInv, TypeOK
  <2>7. QED BY <2>2, <2>3, <2>4, <2>5, <2>6
<1>3. QED BY <1>1, <1>2 DEF LetGoInv

\* As long as no worker dies, arq lets go of an accepted job of the plan only
\* when its query is answered, unless the run has grown stale: with fair
\* workers that is all AcceptedIsAnswered needs.
AcceptedIsNotDropped ==
  [][\A q \in Planned :
       jobs[q] # "absent" /\ jobs'[q] = "absent" => Recorded(q) \/ stale]_vars

THEOREM NoJobIsDropped == ~ Faulty => (Spec => AcceptedIsNotDropped)
<1> SUFFICES ASSUME ~ Faulty PROVE Spec => AcceptedIsNotDropped
  OBVIOUS
<1>1. Init => LetGoInv
  BY DEF Init, LetGoInv, NoMetrics
<1>2. IInv /\ LetGoInv /\ [Next]_vars => LetGoInv'
  BY LetGoStep
<1> DEFINE Kept == \A q \in Planned :
              jobs[q] # "absent" /\ jobs'[q] = "absent" => Recorded(q) \/ stale
<1>3. IInv /\ LetGoInv /\ [Next]_vars => [Kept]_vars
  <2> SUFFICES ASSUME IInv, LetGoInv, Next,
                      NEW q \in Planned, jobs[q] # "absent", jobs'[q] = "absent"
               PROVE  Recorded(q) \/ stale
    OBVIOUS
  <2> USE DEF database
  <2>1. PICK w \in Workers : FinishJob(w)
    <3>1. ASSUME NEW id \in Ids PROVE ~ LeaseExpires(id)
      BY DEF LeaseExpires
    <3>2. ASSUME NEW id \in Ids, Enqueue(id) PROVE FALSE
      BY <3>2 DEF Enqueue, IInv, TypeOK, Ids
    <3>3. ASSUME NEW w \in Workers, NEW id \in Ids, TakeJob(w, id) PROVE FALSE
      BY <3>3 DEF TakeJob, IInv, TypeOK, Ids
    <3>4. ASSUME ~ \E w \in Workers : FinishJob(w) PROVE jobs' = jobs
      BY <3>1, <3>2, <3>3, <3>4
         DEF Next, Work, Claim, ClaimTerminal, ClaimRecorded, ClaimRefused,
             ClaimOverflows, ClaimAccepted, PublishStarted, SpawnAttempt,
             SettleSkips, SettleRecords, PublishObserved, PublishCompleted,
             GrowStale, Reap, Crash, JobRaises
    <3>5. QED BY <3>4
  <2>2. job[w] = q /\ pc[w] = "done"
    BY <2>1 DEF FinishJob, IInv, TypeOK, Ids
  <2>3. Recorded(q) \/ status \in TerminalStatuses
    BY <2>2 DEF LetGoInv
  <2>4. status \in TerminalStatuses /\ ~ metrics.reaped => Recorded(q)
    BY DEF IInv, ClosedOnTheRows
  <2>5. QED BY <2>3, <2>4 DEF LetGoInv
<1>4. QED BY <1>1, <1>2, <1>3, RowsAreConsistent, PTL
          DEF Spec, AcceptedIsNotDropped

-----------------------------------------------------------------------------
(* Refinement: DiscoveryRun keeps the promises of RunLedger. *)

\* The refinement mapping of the table: the answers to planned queries.
Answers(rows) == {<<r.query, r.status>> : r \in PlannedRows(rows)}

\* The verdict over rows is the ledger's verdict over the answers they map to.
LEMMA VerdictOfAnswers ==
  ASSUME NEW rows
  PROVE  Verdict(rows) = LedgerVerdict(Answers(rows))
<1>1. ASSUME NEW s
      PROVE  s \in {r.status : r \in PlannedRows(rows)}
               <=> s \in {e[2] : e \in Answers(rows)}
  <2>1. ASSUME NEW r \in PlannedRows(rows), s = r.status
        PROVE  \E e \in Answers(rows) : s = e[2]
    <3>1. <<r.query, r.status>> \in Answers(rows)  BY DEF Answers
    <3>2. QED BY <2>1, <3>1
  <2>2. ASSUME NEW e \in Answers(rows), s = e[2]
        PROVE  \E r \in PlannedRows(rows) : s = r.status
    BY <2>2 DEF Answers
  <2>3. QED BY <2>1, <2>2
<1>2. {r.status : r \in PlannedRows(rows)} = {e[2] : e \in Answers(rows)}
  BY <1>1
<1>3. QED BY <1>2 DEF Verdict, LedgerVerdict

LEMMA AnsweredQueries ==
  ASSUME NEW rows
  PROVE  Ledger!Answered(Answers(rows)) = {r.query : r \in PlannedRows(rows)}
<1>1. ASSUME NEW q
      PROVE  q \in {r.query : r \in PlannedRows(rows)}
               <=> q \in {e[1] : e \in Answers(rows)}
  <2>1. ASSUME NEW r \in PlannedRows(rows), q = r.query
        PROVE  \E e \in Answers(rows) : q = e[1]
    <3>1. <<r.query, r.status>> \in Answers(rows)  BY DEF Answers
    <3>2. QED BY <2>1, <3>1
  <2>2. ASSUME NEW e \in Answers(rows), q = e[1]
        PROVE  \E r \in PlannedRows(rows) : q = r.query
    BY <2>2 DEF Answers
  <2>3. QED BY <2>1, <2>2
<1>2. QED BY <1>1 DEF Ledger!Answered

\* Recording the row of a planned query enters its answer; recording any other
\* row does not touch the ledger and, as an open run is unanswered, cannot
\* close the run.
LEMMA InsertIsEntry ==
  ASSUME IInv, NEW row \in Rows, InsertStep(row)
  PROVE  \/ \E q \in Planned, a \in Statuses : Ledger!Enter(q, a)
         \/ Ledger!Begin
         \/ UNCHANGED Ledger!vars
<1> DEFINE rows == observations \cup {row}
<1>1. observations' = rows /\ IsFiniteSet(rows)
  BY FS_AddElement DEF InsertStep, InsertAndRollUp, IInv, TypeOK
<1>2. \A r1, r2 \in rows : r1.query = r2.query => r1 = r2
  BY DEF InsertStep, Recorded, IInv, OneObservationPerQuery
<1>3. AllRecorded(rows) <=> \A q \in Planned : \E r \in rows : r.query = q
  BY <1>1, <1>2, RecountIsExact
<1>4. AllRecorded(rows)
        <=> Ledger!Answered(Answers(rows)) = Planned
  <2>1. Ledger!Answered(Answers(rows)) = {r.query : r \in PlannedRows(rows)}
    BY AnsweredQueries
  <2>2. {r.query : r \in PlannedRows(rows)} = Planned
          <=> \A q \in Planned : \E r \in rows : r.query = q
    BY DEF PlannedRows
  <2>3. QED BY <1>3, <2>1, <2>2
<1>5. metrics'.reaped = metrics.reaped
  BY DEF InsertStep, InsertAndRollUp, IInv, TypeOK
<1>6. status' = IF AllRecorded(rows) THEN Verdict(rows) ELSE "running"
  BY DEF InsertStep, InsertAndRollUp, TerminalStatuses
<1>7. CASE row.query \in Planned
  <2>1. status = "running"
    BY <1>7 DEF InsertStep
  <2>2. row.query \notin Ledger!Answered(Answers(observations))
    BY AnsweredQueries DEF InsertStep, Recorded, PlannedRows
  <2>3. Answers(rows) = Answers(observations) \cup {<<row.query, row.status>>}
    BY <1>7 DEF Answers, PlannedRows
  <2>4. status' = IF Ledger!Answered(Answers(rows)) = Planned
                  THEN LedgerVerdict(Answers(rows)) ELSE status
    BY <1>4, <1>6, <2>1, VerdictOfAnswers
  <2>5. Ledger!Enter(row.query, row.status)
    BY <1>1, <1>5, <2>1, <2>2, <2>3, <2>4 DEF Ledger!Enter, Answers
  <2>6. row.status \in Statuses  BY DEF Rows
  <2>7. QED BY <1>7, <2>5, <2>6
<1>8. CASE row.query \notin Planned
  <2>1. PlannedRows(rows) = PlannedRows(observations)
    BY <1>8 DEF PlannedRows
  <2>2. ~ AllRecorded(rows)
    BY <1>3, <1>8 DEF IInv, OpenMeansUnanswered, InsertStep, Recorded
  <2>3. status' = "running"
    BY <1>6, <2>2
  <2>4. status \in {"queued", "running"}
    BY DEF InsertStep, IInv, TypeOK, RunStatuses
  <2>5. QED BY <1>1, <1>5, <2>1, <2>3, <2>4 DEF Ledger!Begin, Ledger!vars
<1>9. QED BY <1>7, <1>8

\* Every behaviour of a discovery run is one its ledger promises: the answers
\* are entered once, the run closes with the last of them and its verdict, or
\* is written off, and then never changes.
THEOREM KeepsTheLedger == Spec => KeepsLedger
<1>1. Init => Ledger!Init
  BY DEF Init, Ledger!Init, PlannedRows, NoMetrics
<1>2. IInv /\ [Next]_vars => [Ledger!Next]_(Ledger!vars)
  <2> SUFFICES ASSUME IInv, [Next]_vars
               PROVE  Ledger!Next \/ UNCHANGED Ledger!vars
    OBVIOUS
  <2>1. RunStep  BY StepsOfTheRun DEF IInv
  <2>2. CASE IdleStep
    BY <2>2 DEF IdleStep, Ledger!vars, PlannedRows
  <2>3. CASE BeginStep
    BY <2>3 DEF BeginStep, Ledger!Next, Ledger!Begin, PlannedRows
  <2>4. CASE Reap
    <3>1. metrics'.reaped = TRUE  BY <2>4 DEF Reap, IInv, TypeOK
    <3>2. QED
      BY <2>4, <3>1 DEF Reap, Ledger!Next, Ledger!WriteOff,
                        PlannedRows
  <2>5. ASSUME NEW row \in Rows, InsertStep(row)
        PROVE  Ledger!Next \/ UNCHANGED Ledger!vars
    BY <2>5, InsertIsEntry DEF Ledger!Next
  <2>6. QED BY <2>1, <2>2, <2>3, <2>4, <2>5 DEF RunStep
<1>3. QED
  BY <1>1, <1>2, RowsAreConsistent, PTL DEF Spec, KeepsLedger, Ledger!Spec

-----------------------------------------------------------------------------
(* Refinement: DiscoveryRun implements RunSettlement.                       *)

\* Recording the row of a planned query settles it, and closes the run just with
\* the last one; any other row leaves the settlement as it is.
LEMMA InsertIsSettle ==
  ASSUME IInv, NEW row \in Rows, InsertStep(row)
  PROVE  Settlement!Next \/ UNCHANGED Settlement!vars
<1> DEFINE rows     == observations \cup {row}
           planned  == {q \in Planned : Recorded(q)}
           over     == status \in TerminalStatuses
<1>1. observations' = rows /\ IsFiniteSet(rows)
  BY FS_AddElement DEF InsertStep, InsertAndRollUp, IInv, TypeOK
<1>2. \A r1, r2 \in rows : r1.query = r2.query => r1 = r2
  BY DEF InsertStep, Recorded, IInv, OneObservationPerQuery
<1>3. AllRecorded(rows) <=> \A q \in Planned : \E r \in rows : r.query = q
  BY <1>1, <1>2, RecountIsExact
<1>4. planned' = planned \cup ({row.query} \cap Planned)
  BY <1>1 DEF Recorded
<1>5. AllRecorded(rows) <=> planned' = Planned
  BY <1>1, <1>3 DEF Recorded
<1>6. over' <=> AllRecorded(rows)
  BY VerdictIsTerminal DEF InsertStep, InsertAndRollUp, TerminalStatuses
<1>7. ~ over /\ row.query \notin planned
  BY DEF InsertStep
<1>8. CASE row.query \in Planned
  <2>1. planned' = planned \cup {row.query}
    BY <1>4, <1>8
  <2>2. over' = (planned' = Planned)
    BY <1>5, <1>6
  <2>3. Settlement!Settle(row.query)
    BY <1>7, <2>1, <2>2 DEF Settlement!Settle
  <2>4. QED BY <1>8, <2>3 DEF Settlement!Next
<1>9. CASE row.query \notin Planned
  <2>1. planned' = planned
    BY <1>4, <1>9
  <2>2. planned # Planned
    BY <1>7 DEF IInv, OpenMeansUnanswered
  <2>3. over' = over
    BY <1>5, <1>6, <1>7, <2>1, <2>2
  <2>4. QED BY <2>1, <2>3 DEF Settlement!vars
<1>10. QED BY <1>8, <1>9

\* Whatever workers, queue and reaper do, the stages behind the run see queries
\* settled one by one and the run close with the last of them, or written off
\* (_settle_run, reap_stale_running_runs).
THEOREM SettlementIsKept == Spec => SettlesOneByOne
<1>1. Init => Settlement!Init
  BY DEF Init, Settlement!Init, Recorded, TerminalStatuses
<1>2. IInv /\ [Next]_vars => [Settlement!Next]_(Settlement!vars)
  <2> SUFFICES ASSUME IInv, [Next]_vars
               PROVE  Settlement!Next \/ UNCHANGED Settlement!vars
    OBVIOUS
  <2>1. RunStep  BY StepsOfTheRun DEF IInv
  <2>2. CASE IdleStep
    BY <2>2 DEF IdleStep, Settlement!vars, Recorded
  <2>3. CASE BeginStep
    BY <2>3 DEF BeginStep, Settlement!vars, Recorded, TerminalStatuses
  <2>4. CASE Reap
    BY <2>4 DEF Reap, Settlement!Next, Settlement!WriteOff, Recorded,
                TerminalStatuses
  <2>5. ASSUME NEW row \in Rows, InsertStep(row)
        PROVE  Settlement!Next \/ UNCHANGED Settlement!vars
    BY <2>5, InsertIsSettle
  <2>6. QED BY <2>1, <2>2, <2>3, <2>4, <2>5 DEF RunStep
<1>3. QED
  BY <1>1, <1>2, RowsAreConsistent, PTL
     DEF Spec, SettlesOneByOne, Settlement!Spec
=============================================================================
