------------------------- MODULE OpportunityScoring -------------------------
(***************************************************************************)
(* The analysis jobs of one conversation in one campaign                   *)
(* (backend/app/analysis/runner.py): each asks a model about one version,  *)
(* commits the Model Run, and then creates the version's Analysis and      *)
(* creates or re-scores the Opportunity that the campaign keeps of the     *)
(* conversation. Jobs of different versions share only that last row.      *)
(*                                                                         *)
(* _persist_scored is one transaction of three statements, and PostgreSQL  *)
(* runs it at READ COMMITTED, so each statement is an action of its own:   *)
(* an insert waits for an open transaction that has inserted the same key, *)
(* SELECT ... FOR UPDATE waits for the holder of the row, and finds no row *)
(* that is not yet committed.                                              *)
(***************************************************************************)
EXTENDS Naturals

CONSTANTS
  Versions,    \* versions of the conversation
  Undated,     \* those whose content has no usable post time
  Workers,     \* slots of the worker pool
  MaxSpend,    \* bound: Model Runs of one version
  FaultModes   \* the values that faulty may have in this instance

NoVersion == "no version"

ASSUME VersionAssumption ==
  /\ Undated \subseteq Versions
  /\ NoVersion \notin Versions
ASSUME SpendAssumption == MaxSpend \in Nat
ASSUME FaultAssumption == FaultModes \subseteq BOOLEAN

VARIABLES
  analyses,      \* versions with a committed Analysis (uq_analyses_idempotency)
  opportunity,   \* the version the committed Opportunity is scored by, if any
  modelRuns,     \* of every version, how many Model Runs are committed
  completed,     \* versions whose analysis.completed was published
  jobs,          \* arq's job key of every version: absent, queued or leased
  pc,            \* where each worker stands in run_conversation_analysis
  job,           \* the version it analyses
  marker,        \* how its last job settled
  faulty         \* fixed per behaviour: do workers crash, leases expire and
                 \* models fail?

database == <<analyses, opportunity, modelRuns>>
vars == <<database, completed, jobs, pc, job, marker>>

Markers == {"none", "already_done", "unscorable", "analysis_failed", "scored"}
Pcs == {"idle", "taken", "asking", "persisting", "inserted",
        "creating", "rescoring", "committed", "done"}

TypeOK ==
  /\ analyses \subseteq Versions
  /\ opportunity \in Versions \cup {NoVersion}
  /\ modelRuns \in [Versions -> 0 .. MaxSpend]
  /\ completed \subseteq Versions
  /\ jobs \in [Versions -> {"absent", "queued", "leased"}]
  /\ pc \in [Workers -> Pcs]
  /\ job \in [Workers -> Versions \cup {NoVersion}]
  /\ \A w \in Workers : pc[w] # "idle" => job[w] \in Versions
  /\ marker \in [Workers -> Markers]
  /\ faulty \in BOOLEAN

\* The transaction of _persist_scored is open and has inserted its Analysis.
Inserted == {"inserted", "creating", "rescoring"}

Goto(w, place) == pc' = [pc EXCEPT ![w] = place]
Settle(w, as) ==
  /\ Goto(w, "done")
  /\ marker' = [marker EXCEPT ![w] = as]

(***************************************************************************)
(* The queue                                                               *)
(***************************************************************************)

\* Mutant: a job in progress may be queued again.
RequestTwice(v) ==
  /\ jobs[v] # "queued"
  /\ jobs' = [jobs EXCEPT ![v] = "queued"]
  /\ UNCHANGED <<database, completed, pc, job, marker>>

\* Normalizing the version, again or for the first time, asks for its analysis.
Request(v) ==
  /\ jobs[v] = "absent"
  /\ jobs' = [jobs EXCEPT ![v] = "queued"]
  /\ UNCHANGED <<database, completed, pc, job, marker>>

TakeJob(w, v) ==
  /\ pc[w] = "idle"
  /\ jobs[v] = "queued"
  /\ jobs' = [jobs EXCEPT ![v] = "leased"]
  /\ job' = [job EXCEPT ![w] = v]
  /\ marker' = [marker EXCEPT ![w] = "none"]
  /\ Goto(w, "taken")
  /\ UNCHANGED <<database, completed>>

\* Mutant: the slot is not freed.
FinishJobHalf(w) ==
  /\ pc[w] = "done"
  /\ jobs' = [jobs EXCEPT ![job[w]] = "absent"]
  /\ job' = [job EXCEPT ![w] = NoVersion]
  /\ UNCHANGED <<database, completed, pc, marker>>

FinishJob(w) ==
  /\ pc[w] = "done"
  /\ jobs' = [jobs EXCEPT ![job[w]] = "absent"]
  /\ job' = [job EXCEPT ![w] = NoVersion]
  /\ Goto(w, "idle")
  /\ UNCHANGED <<database, completed, marker>>

(***************************************************************************)
(* run_conversation_analysis                                               *)
(***************************************************************************)

\* The checks before any model spend: replay, then a usable post time.
LoadSubject(w) ==
  /\ pc[w] = "taken"
  /\ IF job[w] \in analyses THEN Settle(w, "already_done")
     ELSE IF job[w] \in Undated THEN Settle(w, "unscorable")
     ELSE Goto(w, "asking") /\ UNCHANGED marker
  /\ UNCHANGED <<database, completed, jobs, job>>

\* The model is called with no transaction open; a new Model Run is committed
\* on its own, whether or not there is an output to go on with and to score.
AskModel(w) ==
  /\ pc[w] = "asking"
  /\ modelRuns[job[w]] < MaxSpend
  /\ modelRuns' = [modelRuns EXCEPT ![job[w]] = @ + 1]
  /\ \/ Goto(w, "persisting") /\ UNCHANGED marker
     \/ faulty /\ Settle(w, "analysis_failed")
  /\ UNCHANGED <<analyses, opportunity, completed, jobs, job>>

\* The insert of the Analysis waits for another transaction that has inserted
\* the same identity, and loses to a committed one.
InsertAnalysis(w) ==
  /\ pc[w] = "persisting"
  /\ ~ \E x \in Workers \ {w} : pc[x] \in Inserted /\ job[x] = job[w]
  /\ IF job[w] \in analyses THEN Settle(w, "already_done")
     ELSE Goto(w, "inserted") /\ UNCHANGED marker
  /\ UNCHANGED <<database, completed, jobs, job>>

\* SELECT ... FOR UPDATE: lock the committed Opportunity, or see none.
SelectOpportunity(w) ==
  /\ pc[w] = "inserted"
  /\ IF opportunity = NoVersion THEN Goto(w, "creating")
     ELSE /\ ~ \E x \in Workers : pc[x] = "rescoring"
          /\ Goto(w, "rescoring")
  /\ UNCHANGED <<database, completed, jobs, job, marker>>

\* Mutant: the session is closed without a commit.
CreateUncommitted(w) ==
  /\ pc[w] = "creating"
  /\ Settle(w, "scored")
  /\ UNCHANGED <<database, completed, jobs, job>>

\* Insert the Opportunity and commit. A row that another version's job has
\* committed meanwhile breaks uq_opportunities_campaign_conversation: the
\* Analysis is rolled back with it, and run_conversation_analysis takes the
\* IntegrityError for a lost identity race.
CreateOpportunity(w) ==
  /\ pc[w] = "creating"
  /\ IF opportunity = NoVersion
     THEN /\ analyses' = analyses \cup {job[w]}
          /\ opportunity' = job[w]
          /\ Goto(w, "committed")
          /\ UNCHANGED marker
     ELSE /\ Settle(w, "already_done")
          /\ UNCHANGED <<analyses, opportunity>>
  /\ UNCHANGED <<modelRuns, completed, jobs, job>>

\* Mutant: the new score is committed without its Analysis.
RescoreOnly(w) ==
  /\ pc[w] = "rescoring"
  /\ opportunity' = job[w]
  /\ Goto(w, "committed")
  /\ UNCHANGED <<analyses, modelRuns, completed, jobs, job, marker>>

\* The score of this version replaces the stored one, whichever is newer.
RescoreOpportunity(w) ==
  /\ pc[w] = "rescoring"
  /\ analyses' = analyses \cup {job[w]}
  /\ opportunity' = job[w]
  /\ Goto(w, "committed")
  /\ UNCHANGED <<modelRuns, completed, jobs, job, marker>>

PublishCompleted(w) ==
  /\ pc[w] = "committed"
  /\ completed' = completed \cup {job[w]}
  /\ Settle(w, "scored")
  /\ UNCHANGED <<database, jobs, job>>

(***************************************************************************)
(* Faults                                                                  *)
(***************************************************************************)
\* A worker dies; an open transaction is rolled back and its lease runs on.
Crash(w) ==
  /\ faulty
  /\ pc[w] # "idle"
  /\ job' = [job EXCEPT ![w] = NoVersion]
  /\ Goto(w, "idle")
  /\ UNCHANGED <<database, completed, jobs, marker>>

LeaseExpires(v) ==
  /\ faulty
  /\ jobs[v] = "leased"
  /\ jobs' = [jobs EXCEPT ![v] = "absent"]
  /\ UNCHANGED <<database, completed, pc, job, marker>>

-----------------------------------------------------------------------------
Init ==
  /\ analyses = {}
  /\ opportunity = NoVersion
  /\ modelRuns = [v \in Versions |-> 0]
  /\ completed = {}
  /\ jobs = [v \in Versions |-> "absent"]
  /\ pc = [w \in Workers |-> "idle"]
  /\ job = [w \in Workers |-> NoVersion]
  /\ marker = [w \in Workers |-> "none"]
  /\ faulty \in FaultModes

Work(w) ==
  \/ LoadSubject(w)
  \/ AskModel(w)
  \/ InsertAnalysis(w)
  \/ SelectOpportunity(w)
  \/ CreateOpportunity(w) \/ RescoreOpportunity(w)
  \/ PublishCompleted(w)
  \/ FinishJob(w)

Next ==
  /\ \/ \E v \in Versions : Request(v) \/ LeaseExpires(v)
     \/ \E w \in Workers :
          \/ \E v \in Versions : TakeJob(w, v)
          \/ Work(w) \/ Crash(w)
  /\ UNCHANGED faulty

\* Workers go on, and the queue passes over no waiting job for ever.
Fairness ==
  /\ \A w \in Workers : WF_vars(Work(w))
  /\ \A v \in Versions : SF_vars(\E w \in Workers : TakeJob(w, v))

Spec     == Init /\ [][Next]_<<vars, faulty>>
FairSpec == Spec /\ Fairness

-----------------------------------------------------------------------------
\* An Opportunity is scored by a committed Analysis, and there is no Analysis
\* without an Opportunity; each Analysis has its Model Run, and completion is
\* published only of what is committed. Whatever crashed in between.
ScoresAreBacked ==
  /\ opportunity # NoVersion <=> analyses # {}
  /\ opportunity # NoVersion => opportunity \in analyses
  /\ completed \subseteq analyses
  /\ \A v \in analyses : modelRuns[v] > 0

\* However jobs overlap, die or wait for each other's rows, every payment stays
\* on record, and a version is scored once, after one of its Model Runs; its
\* Analysis changes the Opportunity in the same transaction: none is doubled,
\* or shown without its Analysis.
Board == INSTANCE ScoreBoard
ScoresEachOnce == Board!Spec

\* Without faults, no model is asked about a version that is analysed already,
\* and about none a third time; about one a second time only because another
\* version won the race for the Opportunity and the first result was rolled
\* back.
SpendIsNeeded ==
  ~ faulty =>
    \A w \in Workers :
      /\ pc[w] \in {"asking", "persisting"} => job[w] \notin analyses
      /\ pc[w] = "asking" =>
           modelRuns[job[w]] = 0 \/ (modelRuns[job[w]] = 1 /\ analyses # {})

\* Without faults a requested version that can be scored leads to an
\* Opportunity: whoever gives way in the race for the row gives way to a
\* committed one.
OpportunityAppears ==
  \A v \in Versions \ Undated :
    ~ faulty /\ jobs[v] = "queued" ~> opportunity # NoVersion

\* A job settles as already_done only when the Analysis of its version exists
\* ("A concurrent replay won the identity race; its row is canonical").
AlreadyDoneIsAnalysed ==
  \A w \in Workers :
    pc[w] = "done" /\ marker[w] = "already_done" => job[w] \in analyses
=============================================================================
