----------------------------- MODULE Migrations -----------------------------
(***************************************************************************)
(* The revisions of the schema (backend/alembic): operators upgrade and    *)
(* downgrade the database while the program goes on writing to it.         *)
(*                                                                         *)
(* env.py runs all revisions on the way in one transaction, DDL included,  *)
(* so a migration is committed as a whole or not at all. A revision first  *)
(* looks at the rows: a downgrade counts those that it would destroy, 0011 *)
(* those that belong to no workspace, and refuses if there are any. Only   *)
(* then do its statements lock the tables they alter: they wait for the    *)
(* transactions at work in them, keep newcomers out until the migration    *)
(* ends, and PostgreSQL checks the rows that stay against the constraints  *)
(* that are added.                                                         *)
(*                                                                         *)
(* A row is what the revisions make of it: its table, the constraints that *)
(* reject it, and the discovery run it goes back to.                       *)
(***************************************************************************)
EXTENDS Naturals, Sequences

CONSTANTS
  Runs,     \* discovery runs
  Writers,  \* database sessions of the program
  Targets,  \* revisions that operators migrate to
  Legacies  \* the databases to begin with: pairs <<revision, rows>>

Newest    == 16
Revisions == 0 .. Newest
NoRun     == "no run"

\* Observations have a directory of files, a bundle, or no evidence: of a
\* classified failure ("failed") or of a native status. The statuses or classes
\* of some with a directory are no longer in the vocabulary, and "foreign" rows
\* belong to another workspace than what they refer to.
DirectoryKinds   == {"legacy", "unreadable", "odd class", "foreign"}
ObservationKinds == DirectoryKinds \cup {"bundled", "failed", "native"}
EvidenceKinds    == ObservationKinds \cup
                    {"bundle", "conversation", "model run", "analysis"}
Kinds == EvidenceKinds \cup
         {"run", "foreign run", "run audit", "other audit", "pending", "reconciled"}
Rows  == [kind : Kinds, run : Runs]

TableOf(kind) ==
  CASE kind \in {"run", "foreign run"}        -> "discovery_runs"
    [] kind \in {"run audit", "other audit"}  -> "audit_events"
    [] kind \in {"pending", "reconciled"}     -> "idempotency_events"
    [] kind \in ObservationKinds              -> "retrieval_observations"
    [] kind = "bundle"                        -> "evidence_bundles"
    [] kind = "conversation"                  -> "conversations"
    [] kind = "model run"                     -> "model_runs"
    [] kind = "analysis"                      -> "analyses"

(***************************************************************************)
(* The revisions                                                           *)
(***************************************************************************)
Tables0002 == {"campaigns", "audit_events"}
Tables0003 == {"idempotency_events"}
Tables0006 == {"discovery_runs", "retrieval_observations"}
Tables0012 == {"evidence_bundles"}
Tables0014 == {"conversations"}            \* with their versions and provenance
Tables0015 == {"model_runs", "analyses"}   \* with the Opportunities

Creates(n) ==
  CASE n = 2  -> Tables0002 [] n = 3  -> Tables0003 [] n = 6  -> Tables0006
    [] n = 12 -> Tables0012 [] n = 14 -> Tables0014 [] n = 15 -> Tables0015
    [] OTHER  -> {}
Existing(rev) == UNION {Creates(n) : n \in 1 .. rev}

\* The other tables that revision n alters, in either direction. Revision 0004
\* locks rows only, which no session of today's program writes.
Alters0005 == {"campaigns", "audit_events"}
Alters0011 == {"campaigns", "audit_events", "discovery_runs",
               "retrieval_observations"}
Alters(n) ==
  CASE n = 5  -> Alters0005
    [] n = 6  -> {"campaigns"}
    [] n = 11 -> Alters0011
    [] n = 15 -> {"campaigns", "conversations"}
    [] n \in {7, 8, 9, 10, 12, 13, 14, 16} -> {"retrieval_observations"}
    [] OTHER  -> {}
Locks(n) == Creates(n) \cup Alters(n)

\* The constraints: the rows that each accepts.
StatusCheck0007       == Kinds
StatusCheck0008       == Kinds \ {"unreadable"}   \* as of 0006
FailureClassCheck0009 == Kinds \ {"odd class"}
Ownership0011         == Kinds \ {"foreign run", "foreign", "other audit"}
DirectoryNotNull      == Kinds \ {"bundled", "failed", "native"}
ReferenceCheck0012    == Kinds \ {"native"}
ReferenceCheck0016    == Kinds

Admits(rev) ==
  {k \in Kinds : TableOf(k) \in Existing(rev)}
    \cap (IF rev = 7 THEN StatusCheck0007 ELSE StatusCheck0008)
    \cap (IF rev < 9 THEN Kinds ELSE FailureClassCheck0009)
    \cap (IF rev < 11 THEN Kinds ELSE Ownership0011)
    \cap (IF rev < 12 THEN DirectoryNotNull
          ELSE IF rev < 16 THEN ReferenceCheck0012 ELSE ReferenceCheck0016)

\* An audit event of a run takes its workspace from the run's row.
Resolved(set) ==
  \A r \in set : r.kind = "run audit" =>
    \E k \in {"run", "foreign run"} : [kind |-> k, run |-> r.run] \in set

Valid(set, rev) ==
  /\ \A r \in set : r.kind \in Admits(rev)
  /\ rev >= 11 => Resolved(set)

\* The check before 0011 is applied.
Preflight0011(set) ==
  /\ \A r \in set : r.kind \notin {"foreign run", "foreign", "other audit"}
  /\ Resolved(set)

\* The rows that a downgrade counts, and refuses to go on with.
Counted0006 == ObservationKinds
Counted0012 == {"bundle", "bundled", "failed", "native"}
Counted0014 == {"conversation"}

\* Mutant: Model Runs without an Analysis are forgotten.
AnalysesCounted0015 == {"analysis"}

Counted0015 == {"model run", "analysis"}

\* Mutant: the constraint is narrowed without looking at the rows.
NoneCounted0016 == {}

Counted0016 == {"native"}
Counted(n) ==
  CASE n = 6  -> Counted0006 [] n = 12 -> Counted0012 [] n = 14 -> Counted0014
    [] n = 15 -> Counted0015 [] n = 16 -> Counted0016 [] OTHER -> {}

\* Keys without an answer are answered as in need of reconciliation, and back.
Rekeyed(set, from, to) ==
  {IF r.kind = from THEN [r EXCEPT !.kind = to] ELSE r : r \in set}

\* What revision n makes of the rows: nothing is rewritten but keys, and a
\* dropped table takes its rows along.
Upgraded(set, n) ==
  IF n = 4 THEN Rekeyed(set, "pending", "reconciled") ELSE set
Downgraded(set, n) ==
  IF n = 4 THEN Rekeyed(set, "reconciled", "pending")
  ELSE {r \in set : TableOf(r.kind) \notin Creates(n)}

ASSUME RunAssumption == NoRun \notin Runs
ASSUME TargetAssumption == Targets \subseteq Revisions
ASSUME LegacyAssumption ==
  \A l \in Legacies : /\ l[1] \in Revisions
                      /\ l[2] \subseteq Rows
                      /\ Valid(l[2], l[1]) /\ Resolved(l[2])

VARIABLES
  revision,  \* alembic_version
  rows,      \* the committed rows
  tx,        \* the migration's transaction: where it stands (pc), the revision
             \* it has reached and the one it goes to, the tables it has locked,
             \* and the kinds of rows it has counted
  removed,   \* the committed rows it has dropped or rewritten
  added,     \* what it has rewritten them to
  work,      \* the transaction of every session: what it does, for which run,
             \* and how many of the tables on its way it has reached
  late,      \* history: rows committed since the migration counted their kind
  dropped    \* history: runs whose rows a downgrade has dropped

vars == <<revision, rows, tx, removed, added, work, late, dropped>>

Busy == {"counting", "counted", "waiting"}
Tables == Existing(Newest)
Jobs == {"nothing", "start", "settle bundled", "settle failed", "settle native",
         "normalize", "ask", "score"}
AtRest == [does |-> "nothing", run |-> NoRun, step |-> 0]

TypeOK ==
  /\ revision \in Revisions
  /\ rows \subseteq Rows
  /\ tx \in [pc : Busy \cup {"none", "committed", "refused", "failed", "killed"},
             at : Revisions, to : Revisions,
             locked : SUBSET Tables, counted : SUBSET Kinds]
  /\ removed \subseteq Rows
  /\ added \subseteq Rows
  /\ work \in [Writers -> [does : Jobs, run : Runs \cup {NoRun}, step : 0 .. 4]]
  /\ late \subseteq Rows
  /\ dropped \subseteq Runs

\* The rows as the migration sees them, whoever commits meanwhile.
View == (rows \ removed) \cup added

Up      == tx.at < tx.to
Crossed == IF Up THEN tx.at + 1 ELSE tx.at
Reached == IF Up THEN tx.at + 1 ELSE tx.at - 1

(***************************************************************************)
(* The program's transactions                                              *)
(***************************************************************************)

\* The tables they reach, in order. A settle ends its run, with an audit event.
Path(does) ==
  CASE does = "start"          -> <<"campaigns", "discovery_runs", "audit_events">>
    [] does = "settle bundled" -> <<"discovery_runs", "retrieval_observations",
                                    "evidence_bundles", "audit_events">>
    [] does \in {"settle failed", "settle native"} ->
                                  <<"discovery_runs", "retrieval_observations",
                                    "audit_events">>
    [] does = "normalize"      -> <<"retrieval_observations", "evidence_bundles",
                                    "conversations">>
    [] does = "ask"            -> <<"model_runs">>
    [] does = "score"          -> <<"analyses", "campaigns", "conversations">>
    [] OTHER                   -> <<>>

\* The rows they leave; audit events of one run are not told apart.
Written(does) ==
  CASE does = "start"          -> {"run", "run audit"}
    [] does = "settle bundled" -> {"bundle", "bundled"}
    [] does = "settle failed"  -> {"failed"}
    [] does = "settle native"  -> {"native"}
    [] does = "normalize"      -> {"conversation"}
    [] does = "ask"            -> {"model run"}
    [] does = "score"          -> {"analysis"}
    [] OTHER                   -> {}

Holds(w)  == {Path(work[w].does)[i] : i \in 1 .. work[w].step}
Ended(w)  == work[w].step = Len(Path(work[w].does))
Wanted(w) == Path(work[w].does)[work[w].step + 1]

\* Tables that newcomers wait for: those locked, and those a lock is queued for.
Closed == tx.locked \cup IF tx.pc = "waiting" THEN Locks(Crossed) ELSE {}

\* Today's program needs the columns of 0011, and constraints that let it write.
Serves(does) == revision >= 11 /\ Written(does) \subseteq Admits(revision)

Has(kind, r) == [kind |-> kind, run |-> r] \in rows
Due(does, r) ==
  CASE does = "start"     -> \A row \in rows : row.run # r
    [] does = "normalize" -> Has("bundled", r) /\ ~ Has("conversation", r)
    [] does = "ask"       -> Has("conversation", r) /\ ~ Has("model run", r)
    [] does = "score"     -> Has("model run", r) /\ ~ Has("analysis", r)
    [] OTHER -> Has("run", r) /\ \A k \in ObservationKinds : ~ Has(k, r)

Set(w, value) == work' = [work EXCEPT ![w] = value]

\* The first statement of a transaction. What concerns one run is one at a time.
BeginWrite(w, does, r) ==
  /\ work[w] = AtRest
  /\ \A v \in Writers : work[v].run # r
  /\ Serves(does) /\ Due(does, r)
  /\ Path(does)[1] \notin Closed
  /\ Set(w, [does |-> does, run |-> r, step |-> 1])
  /\ UNCHANGED <<revision, rows, tx, removed, added, late, dropped>>

\* A later one fails if the schema has changed under the program.
ReachTable(w) ==
  /\ work[w] # AtRest
  /\ ~ Ended(w)
  /\ Wanted(w) \notin Closed
  /\ Set(w, IF Serves(work[w].does) THEN [work[w] EXCEPT !.step = @ + 1]
            ELSE AtRest)
  /\ UNCHANGED <<revision, rows, tx, removed, added, late, dropped>>

CommitWrite(w) ==
  /\ work[w] # AtRest
  /\ Ended(w)
  /\ LET new == {[kind |-> k, run |-> work[w].run] : k \in Written(work[w].does)}
     IN  /\ rows' = rows \cup new
         /\ late' = IF tx.pc \in Busy
                    THEN late \cup {r \in new : r.kind \in tx.counted} ELSE late
  /\ Set(w, AtRest)
  /\ UNCHANGED <<revision, tx, removed, added, dropped>>

\* The request fails, the process dies, or PostgreSQL picks it in a deadlock.
GiveUp(w) ==
  /\ work[w] # AtRest
  /\ Set(w, AtRest)
  /\ UNCHANGED <<revision, rows, tx, removed, added, late, dropped>>

(***************************************************************************)
(* alembic upgrade, alembic downgrade                                      *)
(***************************************************************************)

\* Mutant: the target itself is crossed as well.
BeginMigrationBeyond(target) ==
  /\ tx.pc \notin Busy
  /\ target # revision
  /\ tx' = [pc |-> "counting", at |-> revision, to |-> target + 1,
            locked |-> {}, counted |-> {}]
  /\ late' = {}
  /\ UNCHANGED <<revision, rows, removed, added, work, dropped>>

BeginMigration(target) ==
  /\ tx.pc \notin Busy
  /\ target # revision
  /\ tx' = [pc |-> "counting", at |-> revision, to |-> target,
            locked |-> {}, counted |-> {}]
  /\ late' = {}
  /\ UNCHANGED <<revision, rows, removed, added, work, dropped>>

RollBack(how) ==
  /\ tx' = [tx EXCEPT !.pc = how, !.locked = {}, !.counted = {}]
  /\ removed' = {}
  /\ added' = {}
  /\ UNCHANGED <<revision, rows, work, late, dropped>>

Refused ==
  IF Up THEN Crossed = 11 /\ ~ Preflight0011(View)
  ELSE \E r \in View : r.kind \in Counted(Crossed)

\* SELECT count(*), or the preflight: reads that keep no writer out.
Count ==
  /\ tx.pc = "counting"
  /\ tx.at # tx.to
  /\ IF Refused THEN RollBack("refused")
     ELSE /\ tx' = [tx EXCEPT !.pc = "counted",
                    !.counted = @ \cup (IF Up THEN {} ELSE Counted(Crossed))]
          /\ UNCHANGED <<revision, rows, removed, added, work, late, dropped>>

\* The first statement that alters a table: its lock is queued for.
QueueForLock ==
  /\ tx.pc = "counted"
  /\ tx' = [tx EXCEPT !.pc = "waiting"]
  /\ UNCHANGED <<revision, rows, removed, added, work, late, dropped>>

LocksFree == \A w \in Writers : Holds(w) \cap Locks(Crossed) = {}
Changed   == IF Up THEN Upgraded(View, Crossed) ELSE Downgraded(View, Crossed)

Apply ==
  /\ removed' = (removed \cup View) \ Changed
  /\ added' = Changed \ rows
  /\ tx' = [tx EXCEPT !.pc = "counting", !.at = Reached,
            !.locked = @ \cup Locks(Crossed)]
  /\ UNCHANGED <<revision, rows, work, late, dropped>>

\* Mutant: a statement that fails is tried again in the same transaction.
AlterRetrying ==
  /\ tx.pc = "waiting"
  /\ LocksFree
  /\ Valid(Changed, Reached)
  /\ Apply

\* The locks are granted, and the revision is applied if the rows allow it.
Alter ==
  /\ tx.pc = "waiting"
  /\ LocksFree
  /\ IF Valid(Changed, Reached) THEN Apply ELSE RollBack("failed")

Commit ==
  /\ tx.pc = "counting"
  /\ tx.at = tx.to
  /\ revision' = tx.at
  /\ rows' = View
  /\ dropped' = dropped \cup {r \in Runs : \E k \in {"run", "foreign run"} :
                                               Has(k, r) /\ ~ Has(k, r)'}
  /\ tx' = [tx EXCEPT !.pc = "committed", !.locked = {}, !.counted = {}]
  /\ removed' = {}
  /\ added' = {}
  /\ UNCHANGED <<work, late>>

\* Interrupted, disconnected, or picked in a deadlock.
Kill == tx.pc \in Busy /\ RollBack("killed")

-----------------------------------------------------------------------------
Init ==
  /\ \E l \in Legacies : revision = l[1] /\ rows = l[2]
  /\ tx = [pc |-> "none", at |-> 0, to |-> 0, locked |-> {}, counted |-> {}]
  /\ removed = {}
  /\ added = {}
  /\ work = [w \in Writers |-> AtRest]
  /\ late = {}
  /\ dropped = {}

Migrate  == Count \/ QueueForLock \/ Alter \/ Commit
Write(w) == ReachTable(w) \/ CommitWrite(w)

Next ==
  \/ \E target \in Targets : BeginMigration(target)
  \/ Migrate
  \/ Kill
  \/ \E w \in Writers :
       \/ \E does \in Jobs \ {"nothing"}, r \in Runs : BeginWrite(w, does, r)
       \/ Write(w)
       \/ GiveUp(w)

\* The migration waits for w, and w for a table that the migration has locked
\* or is to lock in the same revision.
Deadlocked(w) ==
  /\ tx.pc = "waiting"
  /\ Holds(w) \cap Locks(Crossed) # {}
  /\ ~ Ended(w) /\ Wanted(w) \in Closed
DetectDeadlock == \E w \in Writers : Deadlocked(w) /\ (Kill \/ GiveUp(w))

\* Statements go on unless they wait for a lock, and PostgreSQL detects
\* deadlocks. Nobody has to begin anything.
Fairness ==
  /\ WF_vars(Migrate)
  /\ \A w \in Writers : WF_vars(Write(w))
  /\ WF_vars(DetectDeadlock)

Spec     == Init /\ [][Next]_vars
FairSpec == Spec /\ Fairness

-----------------------------------------------------------------------------
\* "A downgrade must never silently destroy immutable evidence": none is lost
\* but what was committed after the downgrade had counted its kind and before
\* it locked the table. The count takes no lock, so that much can be lost.
LostOnlyInTheGap ==
  [][\A r \in rows : r.kind \in EvidenceKinds => r \in rows' \cup late]_vars

\* Migrations are stopped by their own checks: a constraint fails only over the
\* vocabulary of 0007 and 0008 or over what was committed in the gap, and an
\* upgrade is refused only over what a release before 0011 has written or over
\* the audit events of dropped runs.
EndsForAReason ==
  [][tx.pc \in Busy =>
       /\ tx'.pc = "failed" =>
            \/ late # {}
            \/ \E r \in rows : r.kind \in {"unreadable", "odd class"}
       /\ tx'.pc = "refused" /\ Up =>
            \/ \E r \in rows : r.kind \in {"foreign run", "foreign", "other audit"}
            \/ \E r \in dropped : Has("run audit", r)]_vars

\* Every migration ends, in a deadlock with the program as well.
MigrationEnds == tx.pc \in Busy ~> tx.pc \notin Busy
=============================================================================
