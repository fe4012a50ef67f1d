-------------------------- MODULE ThreadProcessing --------------------------
(***************************************************************************)
(* From candidates to conversations, within one discovery run. Once a      *)
(* query is settled its worker offers every candidate of the row to the    *)
(* thread-fetch queue (backend/app/discovery/runner.py, queue.py); fetch   *)
(* workers retrieve each thread, record it, normalize it into a            *)
(* conversation version and hand that to analysis                          *)
(* (backend/app/conversations/runner.py, service.py). The stage is         *)
(* complete when the run is terminal and every candidate has a row.        *)
(*                                                                         *)
(* DiscoveryRun models how the run's own rows are settled; here a settle   *)
(* is one action. The fetch side locks no row, so a transaction that reads *)
(* and then inserts is two actions, with the unique key on the insert.     *)
(***************************************************************************)
EXTENDS Naturals, FiniteSets

CONSTANTS
  Queries,     \* the planned queries of the run
  Candidates,  \* external ids with an http url: both sides skip the others
  Strangers,   \* ids of fetch jobs that are no candidates of the run
  Workers,     \* slots of the worker pool that run fetch jobs
  Contents,    \* normalized contents a fetched thread may have
  Faults       \* the kinds of fault that occur in this instance

FaultKinds == {"crash",    \* a worker dies or its job raises
               "lease",    \* a job's lease expires while its worker goes on
               "pool",     \* no connection to the queue can be opened
               "refusal",  \* one enqueue fails, whether or not it took effect
               "timeout",  \* an attempt is killed and recovered from disk
               "reaper"}   \* the cron fails the run while it is processed

Ids     == Candidates \cup Strangers
NoJob   == "no job"
Nothing == "no content"

ASSUME IdAssumption ==
  /\ Queries # {}
  /\ Candidates \cap Strangers = {}
  /\ NoJob \notin Ids
ASSUME ContentAssumption == Nothing \notin Contents
ASSUME FaultKindAssumption == Faults \subseteq FaultKinds

VARIABLES
  terminal,    \* discovery_runs.status is terminal
  settled,     \* queries with a discovery row
  found,       \* the candidates each discovery row holds
  rows,        \* thread_fetch rows: at most one per id, by the unique key
  versions,    \* conversation versions, as <<conversation, content>>
  analyses,    \* versions whose analysis job was accepted
  jobs,        \* arq's job key of every fetch: absent, queued or leased
  publisher,   \* where the worker that settled each query stands
  toOffer,     \* the candidates it has yet to offer to the queue
  refused,     \* the candidates the queue refused it
  closer,      \* it is the one whose settle closed the run
  pc,          \* where each fetch worker stands in run_thread_fetch
  job,         \* the id each fetch worker works on
  outcome,     \* what its attempt returned
  staging,     \* ids whose attempt directories are on disk
  announced    \* conversation.processing_completed was published

discovery == <<terminal, settled, found>>
publishing == <<publisher, toOffer, refused, closer>>
fetching == <<pc, job, outcome, staging>>
vars == <<discovery, rows, versions, analyses, jobs, publishing, fetching,
          announced>>

\* What a row says: the external id it names and the content it is evidence of.
Entries == [names : Ids, content : Contents \cup {Nothing}]
NoEntry == [names |-> NoJob, content |-> Nothing]
Failure(c) == [names |-> c, content |-> Nothing]

Stored(c) == rows[c] # NoEntry

TypeOK ==
  /\ terminal \in BOOLEAN
  /\ settled \subseteq Queries
  /\ found \in [Queries -> SUBSET Candidates]
  /\ rows \in [Ids -> Entries \cup {NoEntry}]
  /\ versions \subseteq Ids \X Contents
  /\ analyses \subseteq Ids \X Contents
  /\ jobs \in [Ids -> {"absent", "queued", "leased"}]
  /\ publisher \in [Queries -> {"waiting", "opening", "offering", "refusing",
                                "inserting", "announcing", "counting", "done"}]
  /\ toOffer \in [Queries -> SUBSET Candidates]
  /\ refused \in [Queries -> SUBSET Candidates]
  /\ closer \in [Queries -> BOOLEAN]
  /\ pc \in [Workers -> {"idle", "taken", "claimed", "fetched", "inserting",
                         "recorded", "normalized", "checking", "counting",
                         "done"}]
  /\ job \in [Workers -> Ids \cup {NoJob}]
  /\ \A w \in Workers : pc[w] # "idle" => job[w] \in Ids
  /\ outcome \in [Workers -> Entries \cup {NoEntry}]
  /\ staging \subseteq Ids
  /\ announced \in BOOLEAN

(***************************************************************************)
(* The stage, as list_run_transitions reads it                             *)
(***************************************************************************)
Expected == UNION {found[q] : q \in Queries}

Fetched  == {rows[c].names : c \in {i \in Ids : Stored(i)}}

ProcessingComplete == terminal /\ Expected \subseteq Fetched

(***************************************************************************)
(* The discovery side                                                      *)
(***************************************************************************)

\* Mutant: the settle does not look at the run's status again.
SettleQueryLate(q) ==
  /\ q \notin settled
  /\ settled' = settled \cup {q}
  /\ terminal' = (terminal \/ settled' = Queries)
  /\ \E some \in SUBSET Candidates :
       /\ found' = [found EXCEPT ![q] = some]
       /\ toOffer' = [toOffer EXCEPT ![q] = some]
       /\ publisher' = [publisher EXCEPT ![q] =
                          IF some = {} THEN "announcing" ELSE "opening"]
  /\ closer' = [closer EXCEPT ![q] = settled' = Queries]
  /\ UNCHANGED <<rows, versions, analyses, jobs, refused, fetching, announced>>

\* _settle_run inserts the row of a query and closes the run with the last one;
\* a terminal run takes no more rows.
SettleQuery(q) ==
  /\ ~ terminal
  /\ q \notin settled
  /\ settled' = settled \cup {q}
  /\ terminal' = (settled' = Queries)
  /\ \E some \in SUBSET Candidates :
       /\ found' = [found EXCEPT ![q] = some]
       /\ toOffer' = [toOffer EXCEPT ![q] = some]
       /\ publisher' = [publisher EXCEPT ![q] =
                          IF some = {} THEN "announcing" ELSE "opening"]
  /\ closer' = [closer EXCEPT ![q] = terminal']
  /\ UNCHANGED <<rows, versions, analyses, jobs, refused, fetching, announced>>

\* The cron fails a run it takes for stale.
ReapRun ==
  /\ "reaper" \in Faults
  /\ ~ terminal
  /\ terminal' = TRUE
  /\ UNCHANGED <<settled, found, rows, versions, analyses, jobs, publishing,
                 fetching, announced>>

OpenQueue(q) ==
  /\ publisher[q] = "opening"
  /\ publisher' = [publisher EXCEPT ![q] = "offering"]
  /\ UNCHANGED <<discovery, rows, versions, analyses, jobs, toOffer, refused,
                 closer, fetching, announced>>

\* create_pool raises outside the try: not a ThreadFetchQueueError, so nobody
\* catches it and the job of the query ends there.
OpenQueueFails(q) ==
  /\ "pool" \in Faults
  /\ publisher[q] = "opening"
  /\ publisher' = [publisher EXCEPT ![q] = "done"]
  /\ UNCHANGED <<discovery, rows, versions, analyses, jobs, toOffer, refused,
                 closer, fetching, announced>>

\* arq ignores an offer while a job of that id exists.
Queued(c) == [jobs EXCEPT ![c] = IF @ = "absent" THEN "queued" ELSE @]

Offer(q, c) ==
  /\ publisher[q] = "offering"
  /\ c \in toOffer[q]
  /\ jobs' = Queued(c)
  /\ toOffer' = [toOffer EXCEPT ![q] = @ \ {c}]
  /\ UNCHANGED <<discovery, rows, versions, analyses, publisher, refused,
                 closer, fetching, announced>>

\* The enqueue raised; the job may have reached the queue all the same.
OfferRefused(q, c) ==
  /\ "refusal" \in Faults
  /\ publisher[q] = "offering"
  /\ c \in toOffer[q]
  /\ jobs' \in {jobs, Queued(c)}
  /\ toOffer' = [toOffer EXCEPT ![q] = @ \ {c}]
  /\ refused' = [refused EXCEPT ![q] = @ \cup {c}]
  /\ UNCHANGED <<discovery, rows, versions, analyses, publisher, closer,
                 fetching, announced>>

\* Mutant: one candidate is offered, the others forgotten.
OffersCutShort(q) ==
  /\ publisher[q] = "offering"
  /\ Cardinality(toOffer[q]) < 2
  /\ publisher' = [publisher EXCEPT ![q] =
                     IF refused[q] = {} THEN "announcing" ELSE "refusing"]
  /\ UNCHANGED <<discovery, rows, versions, analyses, jobs, toOffer, refused,
                 closer, fetching, announced>>

OffersMade(q) ==
  /\ publisher[q] = "offering"
  /\ toOffer[q] = {}
  /\ publisher' = [publisher EXCEPT ![q] =
                     IF refused[q] = {} THEN "announcing" ELSE "refusing"]
  /\ UNCHANGED <<discovery, rows, versions, analyses, jobs, toOffer, refused,
                 closer, fetching, announced>>

\* _persist_unenqueued_fetches first looks which of the refused have no row.
ReadRefused(q) ==
  /\ publisher[q] = "refusing"
  /\ refused' = [refused EXCEPT ![q] = {c \in @ : ~ Stored(c)}]
  /\ publisher' = [publisher EXCEPT ![q] = "inserting"]
  /\ UNCHANGED <<discovery, rows, versions, analyses, jobs, toOffer, closer,
                 fetching, announced>>

\* Then it inserts a failure for each of them; one that was recorded meanwhile
\* breaks the unique key and takes all of them, and the job, with it.
InsertRefused(q) ==
  /\ publisher[q] = "inserting"
  /\ IF \E c \in refused[q] : Stored(c)
     THEN /\ publisher' = [publisher EXCEPT ![q] = "done"]
          /\ UNCHANGED rows
     ELSE /\ publisher' = [publisher EXCEPT ![q] = "announcing"]
          /\ rows' = [c \in Ids |->
                        IF c \in refused[q] THEN Failure(c) ELSE rows[c]]
  /\ UNCHANGED <<discovery, versions, analyses, jobs, toOffer, refused,
                 closer, fetching, announced>>

\* The notifications of the observation; the closer goes on to close the stage.
AnnounceQuery(q) ==
  /\ publisher[q] = "announcing"
  /\ publisher' = [publisher EXCEPT ![q] =
                     IF closer[q] THEN "counting" ELSE "done"]
  /\ UNCHANGED <<discovery, rows, versions, analyses, jobs, toOffer, refused,
                 closer, fetching, announced>>

\* Mutant: the run's completion leaves the stage to the fetch workers.
LeaveTheStageOpen(q) ==
  /\ publisher[q] = "counting"
  /\ publisher' = [publisher EXCEPT ![q] = "done"]
  /\ UNCHANGED <<discovery, rows, versions, analyses, jobs, toOffer, refused,
                 closer, fetching, announced>>

\* No fetch worker may be left to announce that the stage is complete.
CloseStage(q) ==
  /\ publisher[q] = "counting"
  /\ announced' = (announced \/ ProcessingComplete)
  /\ publisher' = [publisher EXCEPT ![q] = "done"]
  /\ UNCHANGED <<discovery, rows, versions, analyses, jobs, toOffer, refused,
                 closer, fetching>>

(***************************************************************************)
(* The fetch side: run_thread_fetch                                        *)
(***************************************************************************)
TakeFetch(w, c) ==
  /\ pc[w] = "idle"
  /\ jobs[c] = "queued"
  /\ jobs' = [jobs EXCEPT ![c] = "leased"]
  /\ pc' = [pc EXCEPT ![w] = "taken"]
  /\ job' = [job EXCEPT ![w] = c]
  /\ UNCHANGED <<discovery, rows, versions, analyses, publishing, outcome,
                 staging, announced>>

\* Mutant: the slot is not freed.
FinishFetchHalf(w) ==
  /\ pc[w] = "done"
  /\ jobs' = [jobs EXCEPT ![job[w]] = "absent"]
  /\ job' = [job EXCEPT ![w] = NoJob]
  /\ UNCHANGED <<discovery, rows, versions, analyses, publishing, pc, outcome,
                 staging, announced>>

FinishFetch(w) ==
  /\ pc[w] = "done"
  /\ jobs' = [jobs EXCEPT ![job[w]] = "absent"]
  /\ job' = [job EXCEPT ![w] = NoJob]
  /\ pc' = [pc EXCEPT ![w] = "idle"]
  /\ outcome' = [outcome EXCEPT ![w] = NoEntry]
  /\ UNCHANGED <<discovery, rows, versions, analyses, publishing, staging,
                 announced>>

\* A redelivered job goes on with the row it finds.
ClaimStored(w) ==
  /\ pc[w] = "taken"
  /\ Stored(job[w])
  /\ outcome' = [outcome EXCEPT ![w] = rows[job[w]]]
  /\ pc' = [pc EXCEPT ![w] = "recorded"]
  /\ UNCHANGED <<discovery, rows, versions, analyses, jobs, publishing, job,
                 staging, announced>>

\* What no discovery row of the run names is refused; the failure is inserted
\* next, under the same unique key as an attempt's row.
ClaimRefused(w) ==
  /\ pc[w] = "taken"
  /\ ~ Stored(job[w])
  /\ job[w] \notin Expected
  /\ outcome' = [outcome EXCEPT ![w] = Failure(job[w])]
  /\ pc' = [pc EXCEPT ![w] = "inserting"]
  /\ UNCHANGED <<discovery, rows, versions, analyses, jobs, publishing, job,
                 staging, announced>>

ClaimFetch(w) ==
  /\ pc[w] = "taken"
  /\ ~ Stored(job[w])
  /\ job[w] \in Expected
  /\ pc' = [pc EXCEPT ![w] = "claimed"]
  /\ staging' = staging \cup {job[w]}
  /\ UNCHANGED <<discovery, rows, versions, analyses, jobs, publishing, job,
                 outcome, announced>>

\* The attempt ends and its directory is removed. A killed attempt is resolved
\* by any document under the run's thread-fetch directory: the failure of a
\* sibling, which retains no payload, is taken over with the id it names.
Returned(w) ==
  [names : {job[w]}, content : Contents \cup {Nothing}]
    \cup (IF "timeout" \in Faults THEN {Failure(c) : c \in staging} ELSE {})
FetchThread(w) ==
  /\ pc[w] = "claimed"
  /\ \E o \in Returned(w) : outcome' = [outcome EXCEPT ![w] = o]
  /\ staging' = staging \ {job[w]}
  /\ pc' = [pc EXCEPT ![w] = "fetched"]
  /\ UNCHANGED <<discovery, rows, versions, analyses, jobs, publishing, job,
                 announced>>

\* Mutant: the attempt goes on with what it fetched, recorded or not.
ReadRowIgnored(w) ==
  /\ pc[w] = "fetched"
  /\ pc' = [pc EXCEPT ![w] = IF Stored(job[w]) THEN "recorded" ELSE "inserting"]
  /\ UNCHANGED <<discovery, rows, versions, analyses, jobs, publishing, job,
                 outcome, staging, announced>>

\* _settle looks for a row another invocation wrote, and goes on with that one.
ReadRow(w) ==
  /\ pc[w] = "fetched"
  /\ IF Stored(job[w])
     THEN /\ outcome' = [outcome EXCEPT ![w] = rows[job[w]]]
          /\ pc' = [pc EXCEPT ![w] = "recorded"]
     ELSE /\ pc' = [pc EXCEPT ![w] = "inserting"]
          /\ UNCHANGED outcome
  /\ UNCHANGED <<discovery, rows, versions, analyses, jobs, publishing, job,
                 staging, announced>>

\* ... or inserts its own, as a refused claim does its failure; if a row appeared
\* meanwhile the unique key refuses it and the job raises.
InsertRow(w) ==
  /\ pc[w] = "inserting"
  /\ IF Stored(job[w])
     THEN /\ pc' = [pc EXCEPT ![w] = "done"]
          /\ UNCHANGED rows
     ELSE /\ pc' = [pc EXCEPT ![w] = "recorded"]
          /\ rows' = [rows EXCEPT ![job[w]] = outcome[w]]
  /\ UNCHANGED <<discovery, versions, analyses, jobs, publishing, job, outcome,
                 staging, announced>>

VersionOf(w) == <<outcome[w].names, outcome[w].content>>

\* Conversation, version and provenance are got or created in one transaction
\* under deterministic ids, so replaying a row adds nothing.
Normalize(w) ==
  /\ pc[w] = "recorded"
  /\ outcome[w].content # Nothing
  /\ versions' = versions \cup {VersionOf(w)}
  /\ pc' = [pc EXCEPT ![w] = "normalized"]
  /\ UNCHANGED <<discovery, rows, analyses, jobs, publishing, job, outcome,
                 staging, announced>>

\* There is nothing to normalize, or the evidence fails verification.
NotNormalized(w) ==
  /\ pc[w] = "recorded"
  /\ pc' = [pc EXCEPT ![w] = "checking"]
  /\ UNCHANGED <<discovery, rows, versions, analyses, jobs, publishing, job,
                 outcome, staging, announced>>

\* A refused analysis job is announced and leaves the version as it is.
RequestAnalysis(w) ==
  /\ pc[w] = "normalized"
  /\ \/ analyses' = analyses \cup {VersionOf(w)}
     \/ /\ Faults \cap {"pool", "refusal"} # {}
        /\ UNCHANGED analyses
  /\ pc' = [pc EXCEPT ![w] = "checking"]
  /\ UNCHANGED <<discovery, rows, versions, jobs, publishing, job, outcome,
                 staging, announced>>

\* Mutant: the stage does not wait for the run.
ReadRunUnasked(w) ==
  /\ pc[w] = "checking"
  /\ pc' = [pc EXCEPT ![w] = "counting"]
  /\ UNCHANGED <<discovery, rows, versions, analyses, jobs, publishing, job,
                 outcome, staging, announced>>

\* list_run_transitions reads the run before it reads the rows, and no lock
\* holds the two reads together.
ReadRun(w) ==
  /\ pc[w] = "checking"
  /\ pc' = [pc EXCEPT ![w] = IF terminal THEN "counting" ELSE "done"]
  /\ UNCHANGED <<discovery, rows, versions, analyses, jobs, publishing, job,
                 outcome, staging, announced>>

CountFetches(w) ==
  /\ pc[w] = "counting"
  /\ announced' = (announced \/ Expected \subseteq Fetched)
  /\ pc' = [pc EXCEPT ![w] = "done"]
  /\ UNCHANGED <<discovery, rows, versions, analyses, jobs, publishing, job,
                 outcome, staging>>

(***************************************************************************)
(* Faults                                                                  *)
(***************************************************************************)
\* A worker dies, leaving its lease and its attempt directory, or its job
\* raises.
LoseWorker(w) ==
  /\ "crash" \in Faults
  /\ \/ /\ pc[w] # "idle"
        /\ pc' = [pc EXCEPT ![w] = "idle"]
        /\ job' = [job EXCEPT ![w] = NoJob]
        /\ outcome' = [outcome EXCEPT ![w] = NoEntry]
        /\ UNCHANGED staging
     \/ /\ pc[w] \notin {"idle", "done"}
        /\ pc' = [pc EXCEPT ![w] = "done"]
        /\ staging' = IF pc[w] = "claimed" THEN staging \ {job[w]} ELSE staging
        /\ UNCHANGED <<job, outcome>>
  /\ UNCHANGED <<discovery, rows, versions, analyses, jobs, publishing,
                 announced>>

LosePublisher(q) ==
  /\ "crash" \in Faults
  /\ publisher[q] \notin {"waiting", "done"}
  /\ publisher' = [publisher EXCEPT ![q] = "done"]
  /\ UNCHANGED <<discovery, rows, versions, analyses, jobs, toOffer, refused,
                 closer, fetching, announced>>

LeaseExpires(c) ==
  /\ Faults \cap {"crash", "lease"} # {}
  /\ jobs[c] = "leased"
  /\ jobs' = [jobs EXCEPT ![c] = "absent"]
  /\ UNCHANGED <<discovery, rows, versions, analyses, publishing, fetching,
                 announced>>

\* A fetch job that no settle of this run offered.
OfferStranger(c) ==
  /\ c \in Strangers
  /\ jobs[c] = "absent"
  /\ jobs' = Queued(c)
  /\ UNCHANGED <<discovery, rows, versions, analyses, publishing, fetching,
                 announced>>

-----------------------------------------------------------------------------
Init ==
  /\ terminal = FALSE
  /\ settled = {}
  /\ found = [q \in Queries |-> {}]
  /\ rows = [c \in Ids |-> NoEntry]
  /\ versions = {}
  /\ analyses = {}
  /\ jobs = [c \in Ids |-> "absent"]
  /\ publisher = [q \in Queries |-> "waiting"]
  /\ toOffer = [q \in Queries |-> {}]
  /\ refused = [q \in Queries |-> {}]
  /\ closer = [q \in Queries |-> FALSE]
  /\ pc = [w \in Workers |-> "idle"]
  /\ job = [w \in Workers |-> NoJob]
  /\ outcome = [w \in Workers |-> NoEntry]
  /\ staging = {}
  /\ announced = FALSE

\* _publish_attempt_progress
Publish(q) ==
  \/ OpenQueue(q)
  \/ \E c \in Candidates : Offer(q, c)
  \/ OffersMade(q)
  \/ ReadRefused(q)
  \/ InsertRefused(q)
  \/ AnnounceQuery(q)
  \/ CloseStage(q)

\* run_thread_fetch
Fetch(w) ==
  \/ ClaimStored(w) \/ ClaimRefused(w) \/ ClaimFetch(w)
  \/ FetchThread(w)
  \/ ReadRow(w) \/ InsertRow(w)
  \/ Normalize(w) \/ NotNormalized(w)
  \/ RequestAnalysis(w)
  \/ ReadRun(w) \/ CountFetches(w)
  \/ FinishFetch(w)

Next ==
  \/ \E q \in Queries :
       \/ SettleQuery(q) \/ Publish(q) \/ OpenQueueFails(q) \/ LosePublisher(q)
       \/ \E c \in Candidates : OfferRefused(q, c)
  \/ \E w \in Workers :
       \/ \E c \in Ids : TakeFetch(w, c)
       \/ Fetch(w) \/ LoseWorker(w)
  \/ \E c \in Ids : LeaseExpires(c) \/ OfferStranger(c)
  \/ ReapRun

\* The worker that settled a query publishes, busy slots go on, and the queue
\* is served in order, so no waiting job is passed over for ever. Nothing makes
\* a query settle.
Fairness ==
  /\ \A q \in Queries : WF_vars(Publish(q))
  /\ \A w \in Workers : WF_vars(Fetch(w))
  /\ \A c \in Candidates : SF_vars(\E w \in Workers : TakeFetch(w, c))

Spec     == Init /\ [][Next]_vars
FairSpec == Spec /\ Fairness

-----------------------------------------------------------------------------
\* A row, once written, is never changed: not by the publisher that records a
\* refusal while the fetch is in flight, nor by a second attempt at the thread.
RowsAreAppendOnly ==
  [][\A c \in Ids : Stored(c) => rows'[c] = rows[c]]_vars

\* Viewers close their stream when the stage is complete, so it must not come
\* undone: no candidate is discovered after it, whatever arrives late.
CompletionIsStable == [][ProcessingComplete => ProcessingComplete']_vars

\* Whoever follows the stage sees a ledger that is only added to: rows under
\* keys that had none, versions of rows, analyses of versions, the end when it
\* has come, for good; although the fetch side locks nothing, and rows, counts
\* and announcements are the work of different processes.
Ledger == INSTANCE StageLedger WITH
  NoContent <- Nothing,
  over      <- terminal,
  expected  <- Expected,
  asked     <- analyses,
  told      <- announced

KeepsTheStage == Ledger!Spec

\* The stage is announced complete only when it is, although the worker that
\* announces it read the run and the rows at different times.
AnnouncedIsComplete == announced => ProcessingComplete

\* A version restates the committed row of its conversation, and analysis is
\* asked only about committed versions, also after overlapping attempts.
NothingAheadOfItsEvidence ==
  /\ \A v \in versions : \E c \in Ids : rows[c] = [names |-> v[1], content |-> v[2]]
  /\ analyses \subseteq versions

\* When the worker that found a candidate has left the enqueueing, the
\* candidate has a job or a durable row; without either it would count as
\* expected and never as fetched.
CandidatesAreAccountedFor ==
  \A q \in Queries : publisher[q] \in {"announcing", "counting", "done"} =>
    \A c \in found[q] : Stored(c) \/ jobs[c] # "absent"

\* Every candidate of a run without faults is fetched in the end.
CandidatesAreFetched == (settled = Queries) ~> ProcessingComplete

\* Whoever completes the stage, with the last row or with the end of the run,
\* has yet to look whether it is complete: the worker that closed the run, or a
\* fetch worker that will find the run terminal.
SomeoneWillTell ==
  ProcessingComplete =>
    \/ announced
    \/ \E q \in Queries : closer[q] /\ publisher[q] # "done"
    \/ \E w \in Workers :
         pc[w] \in {"recorded", "normalized", "checking", "counting"}

\* Whoever completes the stage, the last fetch or the run, announces it: the
\* two sides cannot each leave it to the other.
StageIsAnnounced == ProcessingComplete ~> announced

\* The run behind the stage does what RunSettlement lets it, as DiscoveryRun
\* does in full.
Settlement == INSTANCE RunSettlement
SettlesOneByOne == Settlement!Spec
=============================================================================
