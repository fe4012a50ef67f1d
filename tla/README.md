# Aptori outreach: a TLA+ verification project

Aptori outreach finds public discussions that fit a marketing campaign. A *campaign* starts a
*discovery run*; the run executes the queries of a frozen method plan through a Node retrieval
CLI; every result row names *candidates*; each candidate's thread is fetched and normalized into
a versioned *conversation*; a model analyses the version, and a score makes it an *opportunity*
for an operator. This directory models the backend that does so (FastAPI, PostgreSQL, arq on
Redis), the boundary of the retrieval package, and the page that follows a run.

The paths below are relative to `src/`; `backend/app` is the Python application.

## 1. Inventory

### The parts, what they keep, what they do

| Part | State | Operations | What makes it correct |
|---|---|---|---|
| Discovery run execution (`discovery/runner.py`, `discovery/worker.py`) | `discovery_runs.status`, `metrics`, rows of `retrieval_observations`, `evidence_bundles`, the audit trail | claim, refuse, spawn, settle and roll up, publish; the reaper's cron | one observation per query; a run closes exactly with the last one and on what the rows say; a closed run never changes; a begun run ends |
| Queue (`discovery/queue.py`, arq) | one job key per deterministic id, leases | three enqueue functions | a job runs alone unless its lease is lost; nothing is dropped silently |
| Retrieval CLI adapter (`discovery/cli.py`) and the Node package (`packages/obscura-retrieval`) | a staging tree of attempt directories, process groups | spawn, write payload and document, exit, time out, recover from disk, cancel, clean up | an attempt takes no other query's payload and leaves nothing behind |
| Evidence store (`evidence/store.py`) | content-addressed bundles, temporary bundles beside them | copy, finalize, reuse, verify | what a row names is published, sound, and what was retrieved; no temporary bundle stays |
| Thread fetch (`conversations/runner.py`) | `thread_fetch` rows, fetch jobs | claim, fetch, settle, normalize, hand on | rows are never rewritten, no candidate is forgotten, the end of the stage is announced when it is reached and not before |
| Conversations (`conversations/service.py`, `identity.py`, `normalizer.py`) | conversations, versions, provenance | get or create under deterministic ids | a version restates a committed row |
| Analysis and scoring (`analysis/runner.py`, `opportunities/models.py`) | model runs, analyses, one opportunity per campaign and conversation | load, call the model, persist and score, publish | a score is backed by a committed analysis; no analysis is lost; no needless spend |
| Campaigns and audit (`campaigns/service.py`, `auditing/service.py`) | `campaigns.status`, audit events | create, PATCH, transition | a legal walk, completely audited |
| Idempotent writes (`idempotency/service.py`) | `idempotency_events` | find or claim the key, run the operation, record its answer | one effect and one answer per key |
| Event stream (`discovery/events.py`, `discovery/router.py`) | a Redis subscription per stream, the stream's own snapshot | publish, subscribe, heartbeat, end | it never ends before the stage has |
| Run page (`frontend/src/routes/campaigns/[campaignId]/runs/[runId]`) | EventSource, sticky liveness, what the last load showed | load, open, event, error, poll | it ends up showing what the database says |
| LLM runner, scoring formula, prompt task (`llm`, `analysis/scoring.py`, `analysis/task.py`) | none of their own | one call, one Model Run; pure functions | every call leaves its Model Run |
| Migrations (`backend/alembic`) | the schema's revision, the rows a revision rewrites or drops | `upgrade`, `downgrade`, each one transaction beside the program's | a downgrade destroys no evidence; a migration that cannot go on stops for a reason it can name, and every one ends |
| Opportunity queue, other pages, authentication, pagination, settings | none, or read-only | reads | - |

### How they interact

* HTTP requests write through `idempotency.execute`. The start of a run commits the queued run
  and *then* enqueues one arq job per planned query.
* A worker's job for a query claims, spawns the CLI with no transaction open, settles under the
  run's row lock, and after its commit enqueues one fetch job per candidate and publishes events.
* A fetch job does the same without any row lock: unique keys and deterministic ids are what
  separates concurrent executions. It ends by normalizing and enqueueing an analysis job.
* An analysis job calls the model with no transaction open, commits the Model Run on its own, and
  then analysis and opportunity together.
* Every publication is best effort, on a Redis channel per run; the stream endpoint forwards what
  it hears, and reads the database before it subscribes, after a completion and in silences.
* The staging tree of a run and the evidence root are shared by all workers, outside any
  transaction.
* An operator's migration meets the program only in PostgreSQL: in table locks and in rows.

### What is hard

Jobs run once (`max_tries = 1`), so a crash is never retried by the queue; a job whose lease is
lost may be queued and run again while the first execution goes on; transactions read before they
write and are separated by subprocesses of minutes; publication and enqueueing come after the
commit and may be lost; two processes count the same rows to decide who announces an end; the
reaper closes runs by age, whoever is alive; requests are retried, reused and cut off anywhere;
the page sees the system through a lossy channel; a downgrade counts rows and drops their table
later, with the program at work in between. `PROJECT.json` lists these hazards at their lines,
each with the properties that would catch it going wrong or a note on why none does.

## 2. Modules

```
 abstract              implemented by       what the detailed one models              proofs
 RunLedger        <--  DiscoveryRun         claim / spawn / settle / publish / reap   DiscoveryRunProofs
 RunSettlement    <--  DiscoveryRun
 RunSettlement    <--  ThreadProcessing
 StageLedger      <--  ThreadProcessing     offers, fetches, rows, normalization      ThreadProcessingProofs
 ScoreBoard       <--  OpportunityScoring   analysis jobs, the scoring transaction    OpportunityScoringProofs
 SerialWrites     <--  KeyedWrites          campaigns, keys, starts                   KeyedWritesProofs
 AttemptResults   <--  RetrievalAttempts    CLI, staging tree, evidence store         RetrievalAttemptsProofs
                       ViewerStream         events, stream, page                      ViewerStreamProofs
                       Migrations           revisions beside the transactions above   MigrationsProofs,
                                                                                      MigrationsFitProofs
```

The abstract modules say what a component promises, without workers, locks, leases or faults:

* `RunLedger`: a run goes from queued to an end on what its rows say, and is frozen there.
* `RunSettlement`: planned queries are settled one at a time and once each, the run closes with the
  last or is written off.
* `StageLedger`: rows are written once; conversations restate rows, and analysis is asked about
  conversations; the end of the stage is told when it has come, and stays.
* `ScoreBoard`: payments for a version are only added, and there may be several; it is scored once,
  after one of them; its Analysis and the Opportunity's score change in one step; what is announced
  is there.
* `SerialWrites`: requests take effect one after the other, each on what the ones before have left,
  once per key; every answer given is the one recorded then.
* `AttemptResults`: an attempt hands over one result, in one step with the bundle it names.

Each detailed module models one boundary of the pipeline in full and takes its neighbour for one
step. Where it can, an abstract module stands between the two: `ThreadProcessing` takes a settle for
one step, and both it and `DiscoveryRun` implement `RunSettlement`; `DiscoveryRun` takes an attempt
for one step that returns a published bundle or none (`SpawnAttempt`), and `RetrievalAttempts`
implements just that (`AttemptResults`), with `OwnEvidence` for which bundle it may be.
`ViewerStream` takes the run and its stage for one variable that only advances: `TerminalIsFrozen`
and `CompletionIsStable` (both theorems; the second is a consequence of `StageLedger` too). `MC*`
modules give instances; the `.cfg` files are named after the module and the question.

### DiscoveryRun

An action is one transaction, one subprocess attempt or one publication. A transaction may be one
action because each begins with `SELECT ... FOR UPDATE` of the run's row. `pc` is where a worker
stands in `run_discovery_query`: `taken -> (started ->) claimed -> spawned -> settled ->
(closing ->) done`. The claim has five outcomes (`ClaimTerminal`, `ClaimRecorded`, `ClaimRefused`,
`ClaimOverflows`, `ClaimAccepted`); `SettleRecords` inserts the row and performs the roll-up of
`_roll_up_run` in the same step (`InsertAndRollUp`); `SettleSkips` is the late arrival. `Reap` and
`GrowStale` are the cron. `Crash`, `JobRaises` and `LeaseExpires` are faults, enabled by `Faulty`.
`Overlong` ids do not fit their column: the INSERT raises and the claim rolls back.

### ThreadProcessing

`publisher[q]` follows the worker that settled query `q` through `_publish_attempt_progress`:
opening the queue, offering each candidate, reading and inserting the rows of refused ones,
announcing, and closing the stage. `pc[w]` follows `run_thread_fetch`. The fetch side locks
nothing, so a transaction that reads and then inserts is two actions (`ReadRow`/`InsertRow`,
`ClaimRefused`/`InsertRow`, `ReadRefused`/`InsertRefused`), with the unique key on the second; and
the two reads of `list_run_transitions` are `ReadRun` and `CountFetches`. `Faults` is a set of fault kinds.

*Complete* is the code's notion: the run is terminal and every candidate has a fetch row. Rows
commit before they are normalized, so it says nothing of conversations.

### OpportunityScoring

All analysis jobs of one conversation in one campaign. `_persist_scored` is one transaction of
three statements at READ COMMITTED, and each statement is an action: `InsertAnalysis` waits for an
open transaction with the same identity, `SelectOpportunity` waits for the row's lock and sees only
committed rows, `CreateOpportunity` or `RescoreOpportunity` write and commit. The worker's `marker`
is what the job returns. `modelRuns` counts the Model Runs of each version, since every call of a
model commits a new one (`AskModel`): after a lost lease, a death or a lost race a version is paid
for again.

### KeyedWrites

A request is `finding -> inserting -> locking -> staged -> answering (-> enqueueing)` in
`idempotency.execute`. It holds its key from the insert, and the campaign's row from the read, to
the end of its transaction; `Result` is the operation's outcome on the locked campaign, domain
errors included, and `Commit` makes key, mutation, audit events and answer visible together.
`Dies` is a refused queue, a plan that cannot be loaded, a dropped connection or a stopped server.

### RetrievalAttempts

The CLI's process (`node`), its directory (`staging`) and its worker (`pc`) for several attempts
on one tree. `Prefixes` says which directories begin with which query's safe name: with ids such
as `q1` and `q1_site` a query takes another's directories for its own. A document is one of four
classes, those which classification tells apart. Removing a directory and writing a document are
single steps. `finalize_bundle` is not: `MakeBundle` (the checks of the source and `mkdtemp`),
`CopyRaw` (which fails if the source has gone meanwhile), `FindBundle` (a directory of this digest is
taken if it verifies) and `Publish` (the rename), with `temp` for the temporary bundle, which
`finally` removes on every path but a crash. `spoiled` are the bundles damaged before; nothing
repairs one.

### ViewerStream

One page and its one connection. `server` is the generator of `stream_discovery_events`, `source`
the page's EventSource, `load` the two sequential reads of its server load, `live` the page's
`effectiveLive`. A page that disconnects abandons its generator. The run may be opened at any
stage, the reaper announces nothing, and every event may be lost.

### Migrations

`env.py` runs all revisions on the way in one transaction, so `tx` is the transaction and, per
revision, `Count` (the refusals: a downgrade's row counts, the preflight of 0011),
`QueueForLock` (its first `ALTER` or `DROP`) and `Alter` (the locks are granted, rows are rewritten,
constraints are validated over the rows that stay, or the statement fails). A row is its table, the
constraints that reject it (`kind`) and the run it goes back to; every revision is a few sets over
these: the tables it creates and alters, the kinds it counts, the kinds its constraints admit.
`work` is a session of the program: the tables that its transaction reaches, in the code's order
(`Path`). One revision's locks are granted in one step, although its statements ask for them one
after the other; the locks of a whole migration are still taken revision by revision. The row locks
that foreign keys take on `workspaces`, a table that is as old as the first of the others, are left
out. Newcomers wait behind a queued lock, deadlocks are detected (`Deadlocked`), and today's
program writes only to a schema that lets it (`Serves`).

## 3. Runs

TLC checks each run exhaustively; times are for two workers.

| Run | Question | Bounds | Shows |
|---|---|---|---|
| `run_safety` | Do the run's tables stay consistent under every fault? | 2 planned queries, 2 workers, 1 payload, one status of each class | types, one observation per query, closed runs exact, open runs unanswered, the audit chain, evidence, notifications, `RunLedger` implemented |
| `run_live` | What must happen in the end? | 2 planned queries, one unplanned and one over-length job, 2 workers | no double execution; a begun run ends if only the cron is fair, every accepted job is answered (no unplanned row closes the run first) and completion announced if workers are |
| `processing_safety` | Is the stage safe under every fault? | 1 query, 2 candidates, 1 stranger, 2 workers, 6 fault kinds | `StageLedger` implemented, announcements true |
| `processing_live` | Is every candidate fetched and the stage announced? | 2 queries that may find the same 2 candidates, 1 worker, no faults | accounted for, never left to nobody, fetched, announced |
| `processing_pool` | *violation* | 1 query, 1 candidate, the queue cannot be reached | finding 1 |
| `scoring_scored` | Does the scoring transaction score each version once, and is no model paid needlessly? | 3 versions, one undated, 2 workers, 2 Model Runs of each version, with and without faults | `ScoreBoard` implemented, no needless spend without faults, an opportunity appears |
| `scoring_race` | *violation* | 2 versions, 2 workers | finding 2 |
| `writes_safety` | Does a key act once, and is the campaign's walk legal? | 2 requests in flight, 3 keys, 6 kinds of request | once per key, legal audited walk, started means offered, `SerialWrites` implemented |
| `attempts_safety` | Do attempts on one tree keep apart? | 2 attempts of any of 3 queries, two of them with colliding names, 2 payloads, any of them published or damaged before | own evidence, losses only to overlap, nothing left behind |
| `attempts_rename` | *violation* | 2 attempts, 2 queries, 1 payload | finding 3 |
| `viewer_catchup` | Does the page end up with the truth? | 2 events besides the two that end a phase | neither side gives up early, a page that is behind has a way to learn of the end, it catches up |
| `migrations_live` | What do migrations do to evidence, and do they end? | 2 sessions, 2 runs, 4 target revisions, 9 databases to begin with | evidence lost in the gap only, failures and refusals explained, every migration ends |

**Why these bounds.** The races are between two actors over one row, so two workers, two requests or
two attempts reach every order of their steps. Two planned queries are the least with which one
settle sees the other missing; three versions let one race for the opportunity and another
re-score it or be unscorable; a third key lets a run start under one key while two others move the
campaign; a third query gives a colliding name beside a distinct one. Two sessions let one commit in
the gap while the other holds or wants a lock; the targets 3, 7, 14 and 16 lie on either side of
every revision that refuses, narrows or drops, and `SomeLegacies` has, for each kind of old row, a
database of a release that could write it. One query suffices for
`processing_safety` because a run that is terminal by its last settle and one that was reaped
differ only in `terminal`; `processing_live` has two. Jobs outside the plan take part in
`run_live`, where a row of theirs that counted would leave an accepted job unanswered; that they
change nothing under faults either is left to the theorems of `DiscoveryRunProofs`, which hold for any
`Unplanned`. `Statuses` holds one representative of each
class the roll-up tells apart. Two counters are bounded by guards: `notes` (`Notes = 2`), since
events that end nothing only prompt a load; and the Model Runs of a version (`MaxSpend = 2`), since
without faults nobody stands before a third (`SpendIsNeeded` would see it), and with faults nothing
tells a third from a second. Retries need no bound: job keys are `absent` again, keys are
submitted again, and the state space is finite.

**Symmetry** is used in safety runs only, over sets whose elements are interchangeable.
`CHECK_DEADLOCK FALSE` is stated where the system really stops: every candidate fetched and every
slot idle (`ThreadProcessing`), every attempt over, a page that has stopped.

**Rigid variables.** `faulty` (`OpportunityScoring`), `queryOf` and `spoiled` (`RetrievalAttempts`) are
chosen initially and never change: one run covers several settings.

**Fairness, and why the code has it.**
* `DiscoveryRun` states its fairness inside the properties, so that each names what it needs.
  `CronFairness` (`RunningEnds`): time passes and arq runs its cron (`worker.py:111`). Workers have
  none: they may stop for ever, and the run still ends.
* `WorkFairness` of `DiscoveryRun`, `FairSpec` of `ThreadProcessing` and `OpportunityScoring`: a worker
  that is alive goes on, since its subprocess, its model call and its statements all have time-outs
  (weak fairness), and arq polls its queue in the order of enqueueing, so a waiting job is not
  passed over for ever (strong fairness of taking it, since slots become free and busy again).
  Nobody is obliged to start a run, settle a query or ask for an analysis.
* `FairSpec` of `Migrations`: statements go on unless they wait for a lock, and PostgreSQL detects
  deadlocks (weak fairness of both). Nobody has to begin, abandon or interrupt anything.
* `FairSpec` of `ViewerStream`: the event loops, the heartbeat of 15 s and the poll timer go on. A
  single read of the page may fail any number of times but not for ever, hence strong fairness of
  the two reads' success; a poll starts a new load, and its back-off grows to 15 s, beyond a load's
  time-outs, so that loads are not overtaken for ever. Workers, Redis and the stream's own health
  are assumed nothing of.

Every property has a mutant in `PROJECT.json`: a plausible bug in a mapped definition under which
TLC finds it violated. Mutants stand in the modules next to what they alter, marked as such.

## 4. Proofs

TLAPS checks them for all values of the constants, from the modules' named assumptions alone:
the plan is finite and not empty, as `load_frozen_plan` demands; ids, contents and the markers of
absence are distinct; the fault switches are Booleans or sets of known kinds.

* **`DiscoveryRunProofs`.** `TypeCorrect`, then `RowsAreConsistent`: the inductive invariant `IInv`
  is the type invariant with `OneObservationPerQuery`, `ClosedOnTheRows` and `OpenMeansUnanswered`.
  They are inductive only together: the roll-up compares *counts* of rows and planned queries
  (`_roll_up_run`), which decides whether every query is recorded only as long as no query has
  two rows. That is `RecountIsExact`, by injections between finite sets. `OneObservation`,
  `ClosedRunsAreExact`, `OpenRunsAreUnanswered` follow; so do `TerminalRunsAreFrozen`,
  `AuditTellsTheHistory` (a chain, extended by one or two events), and `ObservationsAreBacked`, which
  needs to know what a worker between spawn and settle carries. `AnnouncementsFollowCommits` adds that
  one worker at most is to announce the start, and one the completion, of a run that it has begun or
  closed itself. `AttemptsAreSole` assumes no faults: then a worker's job is leased to it
  alone (`Leased`). `CompletionIsNeverDropped` and `NoJobIsDropped`, also without faults, are the
  safety halves of `CompletionIsAnnounced` and `AcceptedIsAnswered`: a run closed by a settle has
  been announced or the worker that closed it is on its way (the row of a refusal never closes a
  run, `ClosedByASettle`), and a job of the plan is let go only with its query answered, unless the
  run grew stale. What remains of the liveness is that workers go on. `KeepsTheLedger` and
  `SettlementIsKept` are the refinements: every step is one of `RunLedger`, or of `RunSettlement`,
  or a stutter under the mapping.
* **`ThreadProcessingProofs`.** `StageIsConsistent` adds to the types what each fetch worker carries
  (`CarriesItsRow`): a worker that counts has read a terminal run, and a terminal run stays so and
  gains no candidates (`RunStep`), so that its later count is of the right set. Hence
  `AnnouncementIsTrue`, `EvidenceComesFirst`, `RowsStay`, `CompletionStays`, and with them, action by
  action, `StageKeepsItsLedger`, under every fault. `CandidatesAccounted` holds for faults that lose
  no worker, no lease and no offer; finding 1 shows what happens otherwise. `SomeoneIsLeftToTell` is
  the safety half of `StageIsAnnounced`: whoever completes the stage, with the last row or with the
  end of the run, has yet to look. It assumes `FaultsSparePublishers` (time-outs and lost leases
  only), and has to: a publisher that did not close the run writes the rows of refused offers, which
  may be the last, and does not count; a lost worker counts no more; the reaper announces nothing.
  In these cases the stream finds the end in the database (`CatchesUp`). `TheRunIsSettledOneByOne` is
  the other side of `SettlementIsKept`.
* **`KeyedWritesProofs`.** The argument has two locks: a key is held by one transaction and only while
  it is unknown; the campaign's row is held by one, so `Result` at the check is `Result` at the
  commit. `IInv` states both (`LocksAreExclusive`, `CarriesItsPart`) with the records they protect.
  `KeysActOnce`, `RetriesAgree`, `AuditWalksLegally`, `RunsStartWhileActive`, `StartsAreOffered`
  follow, and the refinement `WritesActSerially`: the commit is the one step of `SerialWrites`, at
  which what the request staged is still what it would compute from the committed campaign.
* **`OpportunityScoringProofs`.** Three arguments. That scores are backed (`EveryScoreIsBacked`) rests
  on the order of a job's transactions: the Model Run commits first, the Analysis with the score, and
  nothing is taken back; crashes and lost leases do not matter. That models are asked only where it
  is needed (`SpendingIsNeeded`, without faults) rests on one job per version (`Alone`) and on
  `SpendCounted`: a version that has its Model Run and neither Analysis nor a job at its result lost
  the race for an Opportunity that is there, so its next job re-scores that one and cannot lose
  again. Under faults a version is paid for any number of times, and nothing more is claimed of it
  than that it is scored once: `BoardIsKept` is the refinement, with any faults. Only the committing
  statement scores, and the unique indexes see to it that a version is scored once. Finding 2 shows
  that a job may settle as `already_done` without an Analysis of its version; `GivingWayLeavesAScore`
  proves what remains, that the campaign then shows some committed score. `RequestsAreKept` is the
  safety half of `OpportunityAppears`.
* **`RetrievalAttemptsProofs`.** `IInv` follows a payload: what lies in a directory was retrieved by the
  directory's own CLI (`Directories`), what a worker holds is what lies there as long as the directory
  does (`Holdings`), a temporary bundle has what was held (`Bundles`), and an outcome what was in it or
  in a sound bundle of the same digest (`Outcomes`). `UsableIsOwnEvidence`, `EndedAttemptsLeaveNothing`
  and `PayloadsAreLostToOverlapOnly` follow, the last with `Undisturbed`: until it is copied, a payload
  stays where it is unless another attempt with a claim on it has cleaned up. `AttemptsHandOverOnce`
  is the refinement of `AttemptResults`: copies, renames, recoveries and clean-ups are stutters, and a
  result appears in one step with its bundle.
* **`ViewerStreamProofs`.** `Announced`: that all candidates are fetched is announced after it is so, and
  the stream ends only on that. `WatchersStayToTheEnd` needs nothing of the channel. `LivePagesHearOfTheEnd` is the
  safety half of `CatchesUp`: a live page that does not show the end yet polls, or has a load, an event
  or a stream before it that will tell. It needs that whatever makes the stream set `completion_sent`
  also sends the event (`StreamKeepsComing`), that an event starts the load anew even if one is under
  way (`PageKeepsComing`), and that a load that cannot read the run closes the source, so that polling
  takes over (`SourceIsOwned`).
* **`MigrationsProofs`.** A row from the count to the lock: whatever evidence a migration has removed is
  in `late` (`RemovedIsLate`), because a downgrade drops only what it has counted, and what it finds
  of that later was committed after the count (`CountedIsLate`). `EvidenceIsLostOnlyInTheGap` holds for
  any writers and any order of migrations.
* **`MigrationsFitProofs`.** A second invariant, `FitInv`, says that whatever is committed fits its
  revision (`RowsFit`) and whatever a migration sees fits the revision it has reached (`ViewFits`).
  Each kind of row is admitted by an unbroken span of revisions (`AdmittedSpan`), so what fits a
  revision fails the next only at 0008, 0009 and 0011 (`FitsAbove`), and the one before only where its
  downgrade counts it or drops its table (`FitsBelow`). A session's rows fit on both sides: between a
  revision that serves it and one that does not lies one that locks a table on its way
  (`CrossingLocksPath`), and the migration keeps that lock (`LocksKept`). `DatabaseFitsItsRevision` and
  `CrossedTablesAreShut` state these two for the committed rows and the locks, and `MigrationsEndForAReason`
  follows; its part about refusals rests on `AuditsRemembered`: an audit event loses its run only to a
  downgrade that is on record.

Every invariant, action property and refinement of the passing runs has its theorem. **Only model-checked:** liveness under fairness
and everything about ENABLED (`RunningEnds`, `AcceptedIsAnswered`, `CompletionIsAnnounced`,
`CandidatesAreFetched`, `StageIsAnnounced`, `OpportunityAppears`, `CatchesUp`, `MigrationEnds`), which the
prover does not reach, as it does not reach induction over data or RECURSIVE operators.

## 5. Findings

1. `processing_pool`: `_enqueue_all`'s refusals become durable rows so that "processing could never
   complete" does not come about (`discovery/runner.py:1102`), but an exception of `create_pool`
   (`discovery/queue.py:110`) is no refusal: nobody catches it, and the candidates of a settled
   query have neither a job nor a row.
2. `scoring_race`: `run_conversation_analysis` takes every `IntegrityError` for a concurrent replay
   whose "row is canonical" (`analysis/runner.py:328`). Two versions that race to create the
   opportunity break another unique key; the loser's analysis is rolled back and its job settles as
   `already_done`.
3. `attempts_rename`: attempts with the same payload mean to share its bundle, but `os.rename` onto a
   directory that is not empty raises ENOTEMPTY, not `FileExistsError` (`evidence/store.py:820`), and
   the loser's attempt is recorded as failed.

A migration has no run of its own that fails, but one remark of the source is stated as far as it
goes: "A downgrade must never silently destroy immutable evidence"
(`backend/alembic/versions/0006_discovery_runs.py:207`) holds for what the counts see, and
`LostOnlyInTheGap` says exactly what they do not.

## 6. Not modelled

* Bytes: size limits, the validation of manifests and names, hashing, page parsing, browser
  automation, canonical ids and the normalizer's tree walk. Ids and payloads are atomic values, so
  truncation of long ids is not seen.
* Pure functions of one document: the scoring formula (binary floating point and an exponential
  decay, which TLC has no numbers for), the analysis task's prompt, failure classes, keyset cursors
  (encodings of the last row read). They keep no state, meet no other actor, and the repository's
  unit tests reach their boundaries.
* That the JavaScript and Python versions of the safe name agree: a query is assumed to recognise
  its own directories.
* `cancelled` runs: the status exists, no code sets it.
* The observations the run page shows: they steer nothing.
* Reads, authentication, settings, other pages.
* Columns, indexes and triggers of the migrations, except for the tables locked to make them; a
  program of an earlier release at work during a migration (only the rows it left).
* Database failures other than rolled-back transactions; clocks.

## 7. Plan

Order: the run and its ledger, since all else hangs on it; then the stage after it; then scoring;
then the writes that begin it; then the boundary under `SpawnAttempt`; then the viewer; then the
migrations under all of them. All seven stand, with proofs of their invariants. Left:

1. An abstract specification of the pipeline, every candidate once from found to scored, over
   `RunSettlement`, `StageLedger` and `ScoreBoard`.
2. The viewer over `StageLedger` instead of a variable of its own, and with observations, to relate
   the last load to the last event.
