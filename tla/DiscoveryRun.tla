---------------------------- MODULE DiscoveryRun ----------------------------
(***************************************************************************)
(* One discovery run, from the moment its row is queued to its terminal    *)
(* status: the arq jobs of its queries, the workers that claim, spawn,     *)
(* settle and publish (backend/app/discovery/runner.py), and the cron that *)
(* fails stale runs (backend/app/discovery/worker.py).                     *)
(*                                                                         *)
(* An action is one database transaction, one subprocess attempt or one    *)
(* publication; between two actions any other worker, the reaper or a      *)
(* crash may step in. A transaction is one action because every one of     *)
(* them begins by locking the run's row (SELECT ... FOR UPDATE).           *)
(***************************************************************************)
EXTENDS Naturals, Sequences, FiniteSets

CONSTANTS
  Planned,    \* the query ids frozen in the run's method plan
  Unplanned,  \* ids of jobs that are not in the plan, short enough for a row
  Overlong,   \* ids of jobs longer than the query_id column (String(200))
  Workers,    \* slots of the worker pool
  Contents,   \* digests of raw payloads an attempt may retain
  Statuses,   \* the observation statuses attempts report in this instance
  Faulty      \* whether workers crash, jobs raise and leases expire

AllStatuses == {"success", "no_results", "incomplete", "blocked",
                "rate_limited", "auth_required", "forbidden",
                "upstream_unavailable", "parse_failed", "transport_failed",
                "runtime_verification_failed", "failed"}

\* What the run's roll-up makes of a status.
SucceededStatuses == {"success", "no_results"}
UsableStatuses    == {"success", "no_results", "incomplete"}
NativeNoEvidence  == AllStatuses \ UsableStatuses

TerminalStatuses == {"succeeded", "partial", "failed", "cancelled"}
RunStatuses      == {"queued", "running"} \cup TerminalStatuses

Ids   == Planned \cup Unplanned \cup Overlong
NoJob == "no job"
NoBundle == "no bundle"

ASSUME PlanAssumption ==
  /\ IsFiniteSet(Planned)
  /\ Planned # {}       \* load_frozen_plan refuses an empty query list
  /\ Planned \cap (Unplanned \cup Overlong) = {}
  /\ Unplanned \cap Overlong = {}
  /\ NoJob \notin Ids
ASSUME OutcomeAssumption ==
  /\ Statuses \subseteq AllStatuses
  /\ "failed" \in Statuses
  /\ NoBundle \notin Contents
ASSUME FaultAssumption == Faulty \in BOOLEAN

VARIABLES
  status,        \* discovery_runs.status
  metrics,       \* discovery_runs.metrics
  stale,         \* started_at lies before the reaper's cutoff
  observations,  \* rows of retrieval_observations of this run
  bundleRows,    \* rows of evidence_bundles
  published,     \* bundles under the evidence root
  audit,         \* audit events of the run, in commit order
  jobs,          \* arq's job key of every query: absent, queued or leased
  pc,            \* where each worker stands in run_discovery_query
  job,           \* the query each worker executes
  outcome,       \* the attempt outcome a worker carries from spawn to settle
  wire           \* notifications published on the run's channel

database == <<status, metrics, observations, bundleRows, audit>>
vars == <<status, metrics, stale, observations, bundleRows, published, audit,
          jobs, pc, job, outcome, wire>>

Rows == [query : Ids, status : Statuses, bundle : Contents \cup {NoBundle}]

\* Mutant: a document without a raw artifact is taken at its word.
OutcomesUnbacked == [status : Statuses, bundle : Contents \cup {NoBundle}]

\* A usable document is evidence-bound; a native failure may have no payload,
\* and every other attempt is recorded as failed without a bundle.
Outcomes ==
  {o \in [status : Statuses, bundle : Contents \cup {NoBundle}] :
     o.status \in UsableStatuses => o.bundle # NoBundle}
NoOutcome == [status |-> "failed", bundle |-> NoBundle]


Counts    == [Statuses -> Nat]
NoMetrics == [reaped |-> FALSE, counts |-> [s \in Statuses |-> 0]]

AuditEvents ==
  [action : {"created", "started", "completed", "reaped"},
   before : RunStatuses \cup {"none"}, after : RunStatuses]

Pcs == {"idle", "taken", "started", "claimed", "spawned", "settled",
        "settledLast", "closing", "done"}

TypeOK ==
  /\ status \in RunStatuses
  /\ metrics \in [reaped : BOOLEAN, counts : Counts]
  /\ stale \in BOOLEAN
  /\ observations \subseteq Rows
  /\ IsFiniteSet(observations)
  /\ bundleRows \subseteq Contents
  /\ published \subseteq Contents
  /\ audit \in Seq(AuditEvents)
  /\ jobs \in [Ids -> {"absent", "queued", "leased"}]
  /\ pc \in [Workers -> Pcs]
  /\ job \in [Workers -> Ids \cup {NoJob}]
  /\ \A w \in Workers : pc[w] # "idle" => job[w] \in Ids
  /\ outcome \in [Workers -> Outcomes]
  /\ wire \in [started : Nat, observed : SUBSET Ids, completed : Nat]

(***************************************************************************)
(* The roll-up                                                             *)
(***************************************************************************)
\* Mutant: a refused query's row counts towards the plan.
AllRows(rows) == rows

PlannedRows(rows) == {r \in rows : r.query \in Planned}

\* Mutant: the replay guard overlooks rows without usable content.
RecordedUsably(id) ==
  \E r \in observations : r.query = id /\ r.status \in UsableStatuses

Recorded(id) == \E r \in observations : r.query = id

\* Mutants: the recount is off by one, in either direction.
AllRecordedEarly(rows) ==
  Cardinality(PlannedRows(rows)) + 1 >= Cardinality(Planned)
AllRecordedLate(rows) == Cardinality(PlannedRows(rows)) > Cardinality(Planned)

AllRecorded(rows) == Cardinality(PlannedRows(rows)) >= Cardinality(Planned)

\* Mutants: partial content counts as success; a status the column's CHECK
\* does not know.
VerdictLenient(rows) ==
  IF {r.status : r \in PlannedRows(rows)} \subseteq UsableStatuses
  THEN "succeeded" ELSE "failed"
VerdictUnknown(rows) == "completed"

Verdict(rows) ==
  LET reported == {r.status : r \in PlannedRows(rows)}
  IN  IF reported \subseteq SucceededStatuses THEN "succeeded"
      ELSE IF reported \cap UsableStatuses = {} THEN "failed" ELSE "partial"

CountsOf(rows) ==
  [s \in Statuses |-> Cardinality({r \in PlannedRows(rows) : r.status = s})]

AuditStarted == [action |-> "started", before |-> "queued", after |-> "running"]
AuditCompleted(from, to) ==
  [action |-> "completed", before |-> from, after |-> to]

\* Insert a row and recount: the run closes when every planned query has one.
\* "from" and "trail" are the status and the audit the transaction has reached.
InsertAndRollUp(row, from, trail) ==
  LET rows == observations \cup {row}
  IN  /\ observations' = rows
      /\ IF AllRecorded(rows) /\ from \notin TerminalStatuses
         THEN /\ status' = Verdict(rows)
              /\ metrics' = [metrics EXCEPT !.counts = CountsOf(rows)]
              /\ audit' = Append(trail, AuditCompleted(from, Verdict(rows)))
         ELSE /\ status' = from
              /\ audit' = trail
              /\ UNCHANGED metrics

(***************************************************************************)
(* The queue                                                               *)
(***************************************************************************)

\* Mutant: job ids are not deterministic, so a running job is queued again.
EnqueueTwice(id) ==
  /\ jobs[id] # "queued"
  /\ jobs' = [jobs EXCEPT ![id] = "queued"]
  /\ UNCHANGED <<database, stale, published, pc, job, outcome, wire>>

\* start_discovery_run, fresh or replayed under the same key: one query's job
\* is offered to arq, which ignores it while a job of that id exists. A refused
\* offer changes nothing. Jobs outside the plan come from elsewhere.
Enqueue(id) ==
  /\ jobs[id] = "absent"
  /\ jobs' = [jobs EXCEPT ![id] = "queued"]
  /\ UNCHANGED <<database, stale, published, pc, job, outcome, wire>>

\* A free worker takes a queued job and leases it.
TakeJob(w, id) ==
  /\ pc[w] = "idle"
  /\ jobs[id] = "queued"
  /\ jobs' = [jobs EXCEPT ![id] = "leased"]
  /\ pc' = [pc EXCEPT ![w] = "taken"]
  /\ job' = [job EXCEPT ![w] = id]
  /\ UNCHANGED <<database, stale, published, outcome, wire>>

\* The handler returned or raised: keep_result = 0 and max_tries = 1, so the
\* job id is free again and nobody re-runs it.
FinishJob(w) ==
  /\ pc[w] = "done"
  /\ jobs' = [jobs EXCEPT ![job[w]] = "absent"]
  /\ pc' = [pc EXCEPT ![w] = "idle"]
  /\ job' = [job EXCEPT ![w] = NoJob]
  /\ UNCHANGED <<database, stale, published, outcome, wire>>

(***************************************************************************)
(* Phase 1, CLAIM: one short transaction                                   *)
(***************************************************************************)

\* What the claim does first to a run that is not terminal.
Begun == "running"

\* Mutant: the start is not audited.
BegunSilently == audit

BegunTrail == IF status = "queued" THEN Append(audit, AuditStarted) ELSE audit
Begin ==
  /\ status' = Begun
  /\ audit' = BegunTrail

ClaimTerminal(w) ==
  /\ pc[w] = "taken"
  /\ status \in TerminalStatuses
  /\ pc' = [pc EXCEPT ![w] = "done"]
  /\ UNCHANGED <<database, stale, published, jobs, job, outcome, wire>>

\* A redelivered job whose observation exists runs nothing again.
ClaimRecorded(w) ==
  /\ pc[w] = "taken"
  /\ status \notin TerminalStatuses
  /\ Recorded(job[w])
  /\ Begin
  /\ pc' = [pc EXCEPT ![w] = "done"]
  /\ UNCHANGED <<metrics, stale, observations, bundleRows, published, jobs,
                 job, outcome, wire>>

\* An id outside the plan becomes a contract_violation row and spawns nothing.
ClaimRefused(w) ==
  /\ pc[w] = "taken"
  /\ status \notin TerminalStatuses
  /\ ~ Recorded(job[w])
  /\ job[w] \in Unplanned
  /\ InsertAndRollUp([query |-> job[w], status |-> "failed",
                      bundle |-> NoBundle], Begun, BegunTrail)
  /\ pc' = [pc EXCEPT ![w] = "done"]
  /\ UNCHANGED <<stale, bundleRows, published, jobs, job, outcome, wire>>

\* The row of an over-length id does not fit its column: the INSERT raises and
\* the whole claim, queued -> running included, is rolled back.
ClaimOverflows(w) ==
  /\ pc[w] = "taken"
  /\ status \notin TerminalStatuses
  /\ ~ Recorded(job[w])
  /\ job[w] \in Overlong
  /\ pc' = [pc EXCEPT ![w] = "done"]
  /\ UNCHANGED <<database, stale, published, jobs, job, outcome, wire>>

ClaimAccepted(w) ==
  /\ pc[w] = "taken"
  /\ status \notin TerminalStatuses
  /\ ~ Recorded(job[w])
  /\ job[w] \in Planned
  /\ Begin
  /\ pc' = [pc EXCEPT ![w] = IF status = "queued" THEN "started" ELSE "claimed"]
  /\ UNCHANGED <<metrics, stale, observations, bundleRows, published, jobs,
                 job, outcome, wire>>

(***************************************************************************)
(* Phase 2, SPAWN: no transaction is open                                  *)
(***************************************************************************)

\* Only the invocation that moved the run out of queued announces the start.
PublishStarted(w) ==
  /\ pc[w] = "started"
  /\ wire' = [wire EXCEPT !.started = @ + 1]
  /\ pc' = [pc EXCEPT ![w] = "claimed"]
  /\ UNCHANGED <<database, stale, published, jobs, job, outcome>>

\* The subprocess ends, is killed or cannot start; whatever it left is
\* classified, and a retained payload is finalized into the evidence store.
SpawnAttempt(w) ==
  /\ pc[w] = "claimed"
  /\ \E o \in Outcomes :
       /\ outcome' = [outcome EXCEPT ![w] = o]
       /\ published' = published \cup ({o.bundle} \ {NoBundle})
  /\ pc' = [pc EXCEPT ![w] = "spawned"]
  /\ UNCHANGED <<database, stale, jobs, job, wire>>

(***************************************************************************)
(* Phase 3, SETTLE: the final transaction                                  *)
(***************************************************************************)

\* A late arrival inserts nothing: the run is terminal, or another invocation
\* has recorded this query.
SettleSkips(w) ==
  /\ pc[w] = "spawned"
  /\ status \in TerminalStatuses \/ Recorded(job[w])
  /\ pc' = [pc EXCEPT ![w] = "done"]
  /\ outcome' = [outcome EXCEPT ![w] = NoOutcome]
  /\ UNCHANGED <<database, stale, published, jobs, job, wire>>

SettleRecords(w) ==
  /\ pc[w] = "spawned"
  /\ status \notin TerminalStatuses
  /\ ~ Recorded(job[w])
  /\ bundleRows' = bundleRows \cup ({outcome[w].bundle} \ {NoBundle})
  /\ InsertAndRollUp([query |-> job[w], status |-> outcome[w].status,
                      bundle |-> outcome[w].bundle], status, audit)
  /\ pc' = [pc EXCEPT ![w] =
              IF status' \in TerminalStatuses THEN "settledLast" ELSE "settled"]
  /\ outcome' = [outcome EXCEPT ![w] = NoOutcome]
  /\ UNCHANGED <<stale, published, jobs, job, wire>>

(***************************************************************************)
(* After the commit: best-effort notifications, in this order              *)
(***************************************************************************)
\* Mutants: whoever sees a terminal run announces its completion; nobody does.
PublishWheneverTerminal(w) ==
  /\ pc[w] \in {"settled", "settledLast"}
  /\ wire' = [wire EXCEPT !.observed = @ \cup {job[w]}]
  /\ pc' = [pc EXCEPT ![w] =
              IF status \in TerminalStatuses THEN "closing" ELSE "done"]
  /\ UNCHANGED <<database, stale, published, jobs, job, outcome>>
PublishNoCompletion(w) ==
  /\ pc[w] \in {"settled", "settledLast"}
  /\ wire' = [wire EXCEPT !.observed = @ \cup {job[w]}]
  /\ pc' = [pc EXCEPT ![w] = "done"]
  /\ UNCHANGED <<database, stale, published, jobs, job, outcome>>

PublishObserved(w) ==
  /\ pc[w] \in {"settled", "settledLast"}
  /\ wire' = [wire EXCEPT !.observed = @ \cup {job[w]}]
  /\ pc' = [pc EXCEPT ![w] = IF @ = "settledLast" THEN "closing" ELSE "done"]
  /\ UNCHANGED <<database, stale, published, jobs, job, outcome>>

PublishCompleted(w) ==
  /\ pc[w] = "closing"
  /\ wire' = [wire EXCEPT !.completed = @ + 1]
  /\ pc' = [pc EXCEPT ![w] = "done"]
  /\ UNCHANGED <<database, stale, published, jobs, job, outcome>>

(***************************************************************************)
(* The reaper                                                              *)
(***************************************************************************)

\* Time passes: started_at falls behind the cutoff. Nothing resets it.
GrowStale ==
  /\ status = "running"
  /\ ~ stale
  /\ stale' = TRUE
  /\ UNCHANGED <<database, published, jobs, pc, job, outcome, wire>>

\* Mutant: only runs without any observation are reaped.
ReapUnanswered ==
  /\ status = "running"
  /\ stale
  /\ observations = {}
  /\ status' = "failed"
  /\ metrics' = [metrics EXCEPT !.reaped = TRUE]
  /\ audit' = Append(audit, [action |-> "reaped", before |-> "running",
                             after |-> "failed"])
  /\ UNCHANGED <<stale, observations, bundleRows, published, jobs, pc, job,
                 outcome, wire>>

\* reap_stale_running_runs: fail a stale running run under its row lock.
\* A queued run is left alone, and nothing is published.
Reap ==
  /\ status = "running"
  /\ stale
  /\ status' = "failed"
  /\ metrics' = [metrics EXCEPT !.reaped = TRUE]
  /\ audit' = Append(audit, [action |-> "reaped", before |-> "running",
                             after |-> "failed"])
  /\ UNCHANGED <<stale, observations, bundleRows, published, jobs, pc, job,
                 outcome, wire>>

(***************************************************************************)
(* Faults                                                                  *)
(***************************************************************************)

\* The worker process dies: its job stays leased until arq's lease expires.
Crash(w) ==
  /\ Faulty
  /\ pc[w] # "idle"
  /\ pc' = [pc EXCEPT ![w] = "idle"]
  /\ job' = [job EXCEPT ![w] = NoJob]
  /\ outcome' = [outcome EXCEPT ![w] = NoOutcome]
  /\ UNCHANGED <<database, stale, published, jobs, wire>>

\* The handler raises, the job timeout cancels it, or its transaction fails
\* and rolls back: the job is over, and max_tries = 1 forbids another try.
JobRaises(w) ==
  /\ Faulty
  /\ pc[w] \notin {"idle", "done"}
  /\ pc' = [pc EXCEPT ![w] = "done"]
  /\ outcome' = [outcome EXCEPT ![w] = NoOutcome]
  /\ UNCHANGED <<database, stale, published, jobs, job, wire>>

\* The lease of a job runs out: its worker died, or hangs and will go on
\* later. arq drops the job, so the same id can be enqueued and taken again.
LeaseExpires(id) ==
  /\ Faulty
  /\ jobs[id] = "leased"
  /\ jobs' = [jobs EXCEPT ![id] = "absent"]
  /\ UNCHANGED <<database, stale, published, pc, job, outcome, wire>>

-----------------------------------------------------------------------------
\* The row as start_discovery_run commits it.
Init ==
  /\ status = "queued"
  /\ metrics = NoMetrics
  /\ stale = FALSE
  /\ observations = {}
  /\ bundleRows = {}
  /\ published = {}
  /\ audit = <<[action |-> "created", before |-> "none", after |-> "queued"]>>
  /\ jobs = [id \in Ids |-> "absent"]
  /\ pc = [w \in Workers |-> "idle"]
  /\ job = [w \in Workers |-> NoJob]
  /\ outcome = [w \in Workers |-> NoOutcome]
  /\ wire = [started |-> 0, observed |-> {}, completed |-> 0]

Claim(w) ==
  \/ ClaimTerminal(w)
  \/ ClaimRecorded(w)
  \/ ClaimRefused(w)
  \/ ClaimOverflows(w)
  \/ ClaimAccepted(w)

\* What a live worker does with the job it has taken.
Work(w) ==
  \/ Claim(w)
  \/ PublishStarted(w)
  \/ SpawnAttempt(w)
  \/ SettleSkips(w)
  \/ SettleRecords(w)
  \/ PublishObserved(w)
  \/ PublishCompleted(w)
  \/ FinishJob(w)

Next ==
  \/ \E id \in Ids : Enqueue(id) \/ LeaseExpires(id)
  \/ \E w \in Workers :
       \/ \E id \in Ids : TakeJob(w, id)
       \/ Work(w) \/ Crash(w) \/ JobRaises(w)
  \/ GrowStale
  \/ Reap

\* A live worker goes on, and arq hands out its jobs in the order they were
\* queued, so a waiting job is not passed over for ever. Nobody has to call
\* start_discovery_run again: Enqueue is not fair.
WorkFairness ==
  /\ \A w \in Workers : WF_vars(Work(w))
  /\ \A id \in Ids : SF_vars(\E w \in Workers : TakeJob(w, id))

\* Time passes and arq runs its cron.
CronFairness == WF_vars(GrowStale) /\ WF_vars(Reap)

\* Each liveness property names the fairness it needs, and no other: workers
\* may stop for ever where only the cron is fair, and a run need not grow stale
\* where only the workers are.
Spec == Init /\ [][Next]_vars

-----------------------------------------------------------------------------
(***************************************************************************)
(* Safety                                                                  *)
(***************************************************************************)

\* Two executions of one query may overlap (a lease lost while the worker
\* hangs, then a replayed start); the run still holds one observation of it.
OneObservationPerQuery ==
  \A r1, r2 \in observations : r1.query = r2.query => r1 = r2

\* A run closed by its roll-up has an answer to every planned query, the
\* status they add up to, and metrics that count exactly those rows, also
\* after whatever arrived later.
ClosedOnTheRows ==
  status \in TerminalStatuses /\ ~ metrics.reaped =>
    /\ \A q \in Planned : Recorded(q)
    /\ status = Verdict(observations)
    /\ metrics.counts = CountsOf(observations)

\* A run never keeps waiting once its last planned query is recorded: each
\* settle recounts under the lock, so no pair of them can both see one missing.
OpenMeansUnanswered ==
  status \notin TerminalStatuses => \E q \in Planned : ~ Recorded(q)

\* The audit trail is the history of the status: each event starts where the
\* previous one ended, none leaves a terminal status, and the last one ends
\* at the status of the row.
LeadsTo(trail, s) ==
  /\ trail # <<>>
  /\ trail[Len(trail)].after = s
  /\ \A i \in 1 .. Len(trail) : trail[i].before \notin TerminalStatuses
  /\ \A i \in 2 .. Len(trail) : trail[i].before = trail[i - 1].after
AuditIsTheHistory == LeadsTo(audit, status)

\* Whatever crashed in between, a row that names a bundle names one whose
\* manifest row exists and whose files are published, and a usable row names
\* a bundle.
EvidenceBacked ==
  \A r \in observations :
    /\ r.bundle # NoBundle => r.bundle \in bundleRows \cap published
    /\ r.status \in UsableStatuses => r.bundle # NoBundle

\* Nothing is announced before it is committed; the start and the completion
\* are announced at most once, and never the completion of a reaped run.
WireFollowsCommits ==
  /\ wire.started <= 1 /\ wire.completed <= 1
  /\ wire.started = 1 => status # "queued"
  /\ \A id \in wire.observed : Recorded(id)
  /\ wire.completed = 1 => status \in TerminalStatuses /\ ~ metrics.reaped

\* Without lost leases arq never runs a query twice at a time, and no
\* retrieval is paid for whose answer is already recorded.
SoleAttempt ==
  \A w \in Workers : pc[w] \in {"started", "claimed", "spawned"} =>
    /\ ~ Recorded(job[w])
    /\ \A v \in Workers \ {w} : job[v] # job[w]

\* No step changes a terminal run: neither a late settle, nor a redelivered
\* job, nor the reaper.
TerminalIsFrozen ==
  [][(status \in TerminalStatuses) =>
       UNCHANGED <<status, metrics, observations, audit>>]_vars

(***************************************************************************)
(* Liveness                                                                *)
(***************************************************************************)

\* A run that has begun reaches a terminal status, however many workers die
\* or hang: the reaper's cron is enough.
RunningEnds ==
  CronFairness => (status = "running" ~> status \in TerminalStatuses)

\* With workers that neither die nor raise, every accepted job is answered,
\* unless the run has grown stale first: no other row, a refused one included,
\* closes the run before it.
AcceptedIsAnswered ==
  WorkFairness =>
    \A q \in Planned : jobs[q] = "queued" ~> (Recorded(q) \/ stale)

\* With the same workers, the completion of a run is announced.
CompletionIsAnnounced ==
  WorkFairness =>
    (status \in TerminalStatuses /\ ~ metrics.reaped ~> wire.completed = 1)

(***************************************************************************)
(* The run keeps the promises of RunLedger                                 *)
(***************************************************************************)
LedgerVerdict(entries) ==
  LET reported == {e[2] : e \in entries}
  IN  IF reported \subseteq SucceededStatuses THEN "succeeded"
      ELSE IF reported \cap UsableStatuses = {} THEN "failed" ELSE "partial"

Ledger == INSTANCE RunLedger WITH
  Answers    <- Statuses,
  Verdict    <- LedgerVerdict,
  ledger     <- {<<r.query, r.status>> : r \in PlannedRows(observations)},
  writtenOff <- metrics.reaped

KeepsLedger == Ledger!Spec

\* ... and those of RunSettlement, on which the stages behind it rely.
Settlement == INSTANCE RunSettlement WITH
  Queries  <- Planned,
  terminal <- status \in TerminalStatuses,
  settled  <- {q \in Planned : Recorded(q)}

SettlesOneByOne == Settlement!Spec
=============================================================================
