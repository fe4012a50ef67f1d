----------------------- MODULE ThreadProcessingProofs -----------------------
(***************************************************************************)
(* What ThreadProcessing guarantees for every set of queries, candidates,  *)
(* workers and faults.                                                     *)
(*                                                                         *)
(* Everything rests on two facts about a step: it never rewrites a row     *)
(* (NoRewrite), and it never takes back the run's end or adds a candidate  *)
(* to a run that has ended (RunStep). Completion is then stable, and what  *)
(* was announced stays true.                                               *)
(***************************************************************************)
EXTENDS ThreadProcessing, TLAPS

\* What a fetch worker carries, where it stands in run_thread_fetch.
CarriesItsRow(w) ==
  /\ pc[w] \in {"fetched", "inserting"} => outcome[w] \in Entries
  /\ pc[w] \in {"recorded", "normalized"} =>
       Stored(job[w]) /\ outcome[w] = rows[job[w]]
  /\ pc[w] = "normalized" =>
       outcome[w].content # Nothing /\ VersionOf(w) \in versions
  /\ pc[w] = "counting" => terminal

IInv ==
  /\ TypeOK
  /\ \A w \in Workers : CarriesItsRow(w)
  /\ AnnouncedIsComplete
  /\ NothingAheadOfItsEvidence

-----------------------------------------------------------------------------
(* Types. *)

\* The row of a failure is a row (_persist_unenqueued_fetches, _claim).
LEMMA FailureIsEntry ==
  ASSUME NEW c \in Ids
  PROVE  Failure(c) \in Entries /\ Failure(c) # NoEntry
  BY IdAssumption DEF Failure, Entries, NoEntry

\* Whatever an attempt returns is a row.
LEMMA ReturnedIsEntry ==
  ASSUME TypeOK, NEW w \in Workers, pc[w] # "idle"
  PROVE  Returned(w) \subseteq Entries
<1>1. job[w] \in Ids  BY DEF TypeOK
<1>2. \A c \in staging : Failure(c) \in Entries
  BY FailureIsEntry DEF TypeOK
<1>3. [names : {job[w]}, content : Contents \cup {Nothing}] \subseteq Entries
  BY <1>1 DEF Entries
<1>4. QED BY <1>2, <1>3 DEF Returned

LEMMA TypesInitially == Init => TypeOK
<1> SUFFICES ASSUME Init PROVE TypeOK
  OBVIOUS
<1>1. /\ rows \in [Ids -> Entries \cup {NoEntry}]
      /\ outcome \in [Workers -> Entries \cup {NoEntry}]
  BY DEF Init
<1>2. /\ found \in [Queries -> SUBSET Candidates]
      /\ toOffer \in [Queries -> SUBSET Candidates]
      /\ refused \in [Queries -> SUBSET Candidates]
      /\ closer \in [Queries -> BOOLEAN]
  BY DEF Init
<1>3. QED BY <1>1, <1>2 DEF Init, TypeOK

LEMMA TypesStep ==
  ASSUME TypeOK, \A w \in Workers : CarriesItsRow(w), [Next]_vars
  PROVE  TypeOK'
<1> USE DEF discovery, publishing, fetching
<1>1. ASSUME NEW q \in Queries, SettleQuery(q) PROVE TypeOK'
  BY <1>1 DEF TypeOK, SettleQuery
<1>2. ASSUME NEW q \in Queries, Publish(q) PROVE TypeOK'
  <2>1. CASE OpenQueue(q)      BY <2>1 DEF TypeOK, OpenQueue
  <2>2. ASSUME NEW c \in Candidates, Offer(q, c) PROVE TypeOK'
    BY <2>2 DEF TypeOK, Offer, Queued, Ids
  <2>3. CASE OffersMade(q)     BY <2>3 DEF TypeOK, OffersMade
  <2>4. CASE ReadRefused(q)    BY <2>4 DEF TypeOK, ReadRefused
  <2>5. CASE InsertRefused(q)
    <3>1. \A c \in refused[q] : c \in Ids /\ Failure(c) \in Entries
      BY FailureIsEntry DEF TypeOK, Ids
    <3>2. rows' \in [Ids -> Entries \cup {NoEntry}]
      BY <2>5, <3>1 DEF TypeOK, InsertRefused
    <3>3. publisher' \in [Queries -> {"waiting", "opening", "offering",
                 "refusing", "inserting", "announcing", "counting", "done"}]
      BY <2>5 DEF TypeOK, InsertRefused
    <3>4. QED BY <2>5, <3>2, <3>3 DEF TypeOK, InsertRefused
  <2>6. CASE AnnounceQuery(q)  BY <2>6 DEF TypeOK, AnnounceQuery
  <2>7. CASE CloseStage(q)
    <3>1. announced' \in BOOLEAN
      BY <2>7, Zenon DEF CloseStage, ProcessingComplete, TypeOK
    <3>2. QED BY <2>7, <3>1 DEF TypeOK, CloseStage
  <2>8. QED BY <1>2, <2>1, <2>2, <2>3, <2>4, <2>5, <2>6, <2>7 DEF Publish
<1>3. ASSUME NEW q \in Queries, OpenQueueFails(q) PROVE TypeOK'
  BY <1>3 DEF TypeOK, OpenQueueFails
<1>4. ASSUME NEW q \in Queries, LosePublisher(q) PROVE TypeOK'
  BY <1>4 DEF TypeOK, LosePublisher
<1>5. ASSUME NEW q \in Queries, NEW c \in Candidates, OfferRefused(q, c)
      PROVE  TypeOK'
  <2>1. jobs' \in [Ids -> {"absent", "queued", "leased"}]
    BY <1>5 DEF TypeOK, OfferRefused, Queued, Ids
  <2>2. QED BY <1>5, <2>1 DEF TypeOK, OfferRefused
<1>6. ASSUME NEW w \in Workers, NEW c \in Ids, TakeFetch(w, c) PROVE TypeOK'
  BY <1>6 DEF TypeOK, TakeFetch
<1>7. ASSUME NEW w \in Workers, Fetch(w) PROVE TypeOK'
  <2>1. CASE ClaimStored(w)    BY <2>1 DEF TypeOK, ClaimStored
  <2>2. CASE ClaimRefused(w)
    <3>1. job[w] \in Ids  BY <2>2 DEF TypeOK, ClaimRefused
    <3>2. QED BY <2>2, <3>1, FailureIsEntry DEF TypeOK, ClaimRefused
  <2>3. CASE ClaimFetch(w)     BY <2>3 DEF TypeOK, ClaimFetch
  <2>4. CASE FetchThread(w)
    <3>1. Returned(w) \subseteq Entries
      BY <2>4, ReturnedIsEntry DEF FetchThread
    <3>2. QED BY <2>4, <3>1 DEF TypeOK, FetchThread
  <2>5. CASE ReadRow(w)        BY <2>5 DEF TypeOK, ReadRow
  <2>6. CASE InsertRow(w)      BY <2>6 DEF TypeOK, InsertRow
  <2>7. CASE Normalize(w)
    <3>1. VersionOf(w) \in Ids \X Contents
      <4>1. outcome[w] \in Entries
        BY <2>7 DEF TypeOK, Normalize, NoEntry
      <4>2. QED BY <2>7, <4>1 DEF Entries, VersionOf, Normalize
    <3>2. QED BY <2>7, <3>1 DEF TypeOK, Normalize
  <2>8. CASE NotNormalized(w)  BY <2>8 DEF TypeOK, NotNormalized
  <2>9. CASE RequestAnalysis(w)
    <3>1. VersionOf(w) \in Ids \X Contents
      BY <2>9 DEF TypeOK, RequestAnalysis, CarriesItsRow
    <3>2. QED BY <2>9, <3>1 DEF TypeOK, RequestAnalysis
  <2>10. CASE ReadRun(w)       BY <2>10 DEF TypeOK, ReadRun
  <2>11. CASE CountFetches(w)
    <3>1. announced' \in BOOLEAN
      BY <2>11, Zenon DEF CountFetches, TypeOK
    <3>2. QED BY <2>11, <3>1 DEF TypeOK, CountFetches
  <2>12. CASE FinishFetch(w)   BY <2>12 DEF TypeOK, FinishFetch
  <2>13. QED BY <1>7, <2>1, <2>2, <2>3, <2>4, <2>5, <2>6, <2>7, <2>8, <2>9,
                <2>10, <2>11, <2>12 DEF Fetch
<1>8. ASSUME NEW w \in Workers, LoseWorker(w) PROVE TypeOK'
  BY <1>8 DEF TypeOK, LoseWorker
<1>9. ASSUME NEW c \in Ids, LeaseExpires(c) PROVE TypeOK'
  BY <1>9 DEF TypeOK, LeaseExpires
<1>10. ASSUME NEW c \in Ids, OfferStranger(c) PROVE TypeOK'
  BY <1>10 DEF TypeOK, OfferStranger, Queued
<1>11. CASE ReapRun            BY <1>11 DEF TypeOK, ReapRun
<1>12. CASE UNCHANGED vars     BY <1>12 DEF TypeOK, vars
<1>13. QED BY <1>1, <1>2, <1>3, <1>4, <1>5, <1>6, <1>7, <1>8, <1>9, <1>10,
              <1>11, <1>12 DEF Next

-----------------------------------------------------------------------------
(* What a step never does. *)

\* No step rewrites a row: the two places that insert rows, the publisher of
\* refusals and the settle of a fetch, look at the key they insert under.
LEMMA NoRewrite ==
  ASSUME TypeOK, [Next]_vars, NEW c \in Ids, Stored(c)
  PROVE  rows'[c] = rows[c]
<1> USE DEF discovery, publishing, fetching
<1>1. ASSUME NEW q \in Queries, Publish(q) PROVE rows'[c] = rows[c]
  <2>1. CASE InsertRefused(q)
    <3>1. CASE \E i \in refused[q] : Stored(i)
      BY <2>1, <3>1 DEF InsertRefused
    <3>2. CASE ~ \E i \in refused[q] : Stored(i)
      <4>1. c \notin refused[q]  BY <3>2
      <4>2. rows' = [i \in Ids |->
                       IF i \in refused[q] THEN Failure(i) ELSE rows[i]]
        BY <2>1, <3>2 DEF InsertRefused
      <4>3. QED BY <4>1, <4>2
    <3>3. QED BY <3>1, <3>2
  <2>2. CASE ~ InsertRefused(q)
    BY <1>1, <2>2 DEF Publish, OpenQueue, Offer, OffersMade, ReadRefused,
                      AnnounceQuery, CloseStage
  <2>3. QED BY <2>1, <2>2
<1>2. ASSUME NEW w \in Workers, Fetch(w) PROVE rows'[c] = rows[c]
  <2>1. CASE InsertRow(w)
    <3>1. CASE Stored(job[w])   BY <2>1, <3>1 DEF InsertRow
    <3>2. CASE ~ Stored(job[w])
      <4>1. c # job[w]  BY <3>2
      <4>2. QED BY <2>1, <3>2, <4>1 DEF InsertRow, TypeOK
    <3>3. QED BY <3>1, <3>2
  <2>2. CASE ~ InsertRow(w)
    BY <1>2, <2>2 DEF Fetch, ClaimStored, ClaimRefused, ClaimFetch,
                      FetchThread, ReadRow, Normalize, NotNormalized,
                      RequestAnalysis, ReadRun, CountFetches, FinishFetch
  <2>3. QED BY <2>1, <2>2
<1>3. CASE ~ (\E q \in Queries : Publish(q)) /\ ~ \E w \in Workers : Fetch(w)
  BY <1>3 DEF Next, vars, SettleQuery, OpenQueueFails, LosePublisher,
              OfferRefused, TakeFetch, LoseWorker, LeaseExpires,
              OfferStranger, ReapRun
<1>4. QED BY <1>1, <1>2, <1>3

\* A run that has ended stays so and gains no candidate (_settle_run refuses
\* terminal runs).
LEMMA RunStep ==
  ASSUME [Next]_vars, terminal
  PROVE  terminal' = terminal /\ found' = found
  BY DEF Next, vars, discovery, publishing, fetching, Publish, Fetch,
         SettleQuery, OpenQueue, OpenQueueFails, Offer, OfferRefused,
         OffersMade, ReadRefused, InsertRefused, AnnounceQuery, CloseStage,
         TakeFetch, ClaimStored, ClaimRefused, ClaimFetch, FetchThread,
         ReadRow, InsertRow, Normalize, NotNormalized, RequestAnalysis,
         ReadRun, CountFetches, FinishFetch, LoseWorker, LosePublisher,
         LeaseExpires, OfferStranger, ReapRun

\* The steps that a follower of the stage sees.
LEMMA StageSteps ==
  ASSUME [Next]_vars
  PROVE  \/ \E q \in Queries :
              SettleQuery(q) \/ InsertRefused(q) \/ CloseStage(q)
         \/ ReapRun
         \/ \E w \in Workers :
              \/ InsertRow(w)
              \/ Normalize(w) \/ RequestAnalysis(w) \/ CountFetches(w)
         \/ UNCHANGED <<discovery, rows, versions, analyses, announced>>
<1> USE DEF discovery, publishing, fetching
<1>1. ASSUME NEW q \in Queries, Publish(q),
             ~ InsertRefused(q), ~ CloseStage(q)
      PROVE  UNCHANGED <<discovery, rows, versions, analyses, announced>>
  BY <1>1 DEF Publish, OpenQueue, Offer, OffersMade, ReadRefused,
              AnnounceQuery
<1>2. ASSUME NEW w \in Workers, Fetch(w), ~ InsertRow(w),
             ~ Normalize(w), ~ RequestAnalysis(w), ~ CountFetches(w)
      PROVE  UNCHANGED <<discovery, rows, versions, analyses, announced>>
  BY <1>2 DEF Fetch, ClaimStored, ClaimRefused, ClaimFetch, FetchThread,
              ReadRow, NotNormalized, ReadRun, FinishFetch
<1>3. ASSUME NEW q \in Queries,
             \/ OpenQueueFails(q) \/ LosePublisher(q)
             \/ \E c \in Candidates : OfferRefused(q, c)
      PROVE  UNCHANGED <<discovery, rows, versions, analyses, announced>>
  BY <1>3 DEF OpenQueueFails, LosePublisher, OfferRefused
<1>4. ASSUME NEW w \in Workers,
             LoseWorker(w) \/ \E c \in Ids : TakeFetch(w, c)
      PROVE  UNCHANGED <<discovery, rows, versions, analyses, announced>>
  BY <1>4 DEF LoseWorker, TakeFetch
<1>5. ASSUME NEW c \in Ids, LeaseExpires(c) \/ OfferStranger(c)
      PROVE  UNCHANGED <<discovery, rows, versions, analyses, announced>>
  BY <1>5 DEF LeaseExpires, OfferStranger
<1>6. CASE UNCHANGED vars
  BY <1>6 DEF vars
<1>7. QED BY <1>1, <1>2, <1>3, <1>4, <1>5, <1>6 DEF Next

\* Hence the stage stays complete.
LEMMA CompleteStep ==
  ASSUME TypeOK, [Next]_vars, ProcessingComplete
  PROVE  ProcessingComplete'
<1>1. terminal' = terminal /\ found' = found
  BY RunStep DEF ProcessingComplete
<1>2. Expected' = Expected
  BY <1>1 DEF Expected
<1>3. \A c \in Ids : Stored(c) => Stored(c)' /\ rows'[c].names = rows[c].names
  BY NoRewrite DEF Stored
<1>4. Fetched \subseteq Fetched'
  BY <1>3 DEF Fetched
<1>5. QED BY <1>1, <1>2, <1>4 DEF ProcessingComplete

-----------------------------------------------------------------------------
(* The inductive invariant. *)

LEMMA IInvInitially == Init => IInv
<1> SUFFICES ASSUME Init PROVE IInv
  OBVIOUS
<1>1. \A w \in Workers : CarriesItsRow(w)  BY DEF Init, CarriesItsRow
<1>2. AnnouncedIsComplete                  BY DEF Init, AnnouncedIsComplete
<1>3. NothingAheadOfItsEvidence
  BY DEF Init, NothingAheadOfItsEvidence
<1>4. QED BY TypesInitially, <1>1, <1>2, <1>3 DEF IInv

\* What a worker carries survives the steps of everyone else.
LEMMA OthersKeepCarried ==
  ASSUME IInv, [Next]_vars, NEW w \in Workers,
         pc'[w] = pc[w], job'[w] = job[w], outcome'[w] = outcome[w],
         versions \subseteq versions'
  PROVE  CarriesItsRow(w)'
<1>1. CarriesItsRow(w)  BY DEF IInv
<1>2. CASE pc[w] \in {"recorded", "normalized"}
  <2>1. job[w] \in Ids /\ Stored(job[w])
    BY <1>1, <1>2 DEF IInv, TypeOK, CarriesItsRow
  <2>2. rows'[job[w]] = rows[job[w]]
    BY <2>1, NoRewrite DEF IInv
  <2>3. QED BY <1>1, <1>2, <2>1, <2>2 DEF CarriesItsRow, Stored, VersionOf
<1>3. CASE pc[w] = "counting"
  BY <1>1, <1>3, RunStep DEF CarriesItsRow
<1>4. CASE pc[w] \notin {"recorded", "normalized", "counting"}
  BY <1>1, <1>4 DEF CarriesItsRow
<1>5. QED BY <1>2, <1>3, <1>4

\* No step removes a version.
LEMMA VersionsGrow ==
  ASSUME [Next]_vars
  PROVE  versions \subseteq versions'
  BY DEF Next, vars, discovery, publishing, fetching, Publish, Fetch,
         SettleQuery, OpenQueue, OpenQueueFails, Offer, OfferRefused,
         OffersMade, ReadRefused, InsertRefused, AnnounceQuery, CloseStage,
         TakeFetch, ClaimStored, ClaimRefused, ClaimFetch, FetchThread,
         ReadRow, InsertRow, Normalize, NotNormalized, RequestAnalysis,
         ReadRun, CountFetches, FinishFetch, LoseWorker, LosePublisher,
         LeaseExpires, OfferStranger, ReapRun

LEMMA CarriedStep ==
  ASSUME IInv, [Next]_vars, NEW w \in Workers
  PROVE  CarriesItsRow(w)'
<1> USE DEF discovery, publishing, fetching
<1>t. TypeOK /\ CarriesItsRow(w) /\ versions \subseteq versions'
  BY VersionsGrow DEF IInv
<1>1. CASE pc'[w] = pc[w] /\ job'[w] = job[w] /\ outcome'[w] = outcome[w]
  BY <1>1, <1>t, OthersKeepCarried
<1>2. CASE Fetch(w)
  <2>1. CASE ClaimStored(w)
    BY <1>t, <2>1 DEF ClaimStored, CarriesItsRow, TypeOK, Stored
  <2>2. CASE ClaimRefused(w)
    <3>1. job[w] \in Ids  BY <1>t, <2>2 DEF TypeOK, ClaimRefused
    <3>2. QED
      BY <1>t, <2>2, <3>1, FailureIsEntry
         DEF ClaimRefused, CarriesItsRow, TypeOK, Stored
  <2>3. CASE ClaimFetch(w)
    BY <1>t, <2>3 DEF ClaimFetch, CarriesItsRow, TypeOK
  <2>4. CASE FetchThread(w)
    <3>1. Returned(w) \subseteq Entries
      BY <1>t, <2>4, ReturnedIsEntry DEF FetchThread
    <3>2. QED BY <1>t, <2>4, <3>1 DEF FetchThread, CarriesItsRow, TypeOK
  <2>5. CASE ReadRow(w)
    BY <1>t, <2>5 DEF ReadRow, CarriesItsRow, TypeOK, Stored
  <2>6. CASE InsertRow(w)
    <3>1. CASE Stored(job[w])
      BY <1>t, <2>6, <3>1 DEF InsertRow, CarriesItsRow, TypeOK
    <3>2. CASE ~ Stored(job[w])
      <4>1. job[w] \in Ids /\ outcome[w] \in Entries
        BY <1>t, <2>6 DEF InsertRow, CarriesItsRow, TypeOK
      <4>2. outcome[w] # NoEntry
        BY <4>1, IdAssumption DEF Entries, NoEntry
      <4>3. rows'[job[w]] = outcome[w]
        BY <1>t, <2>6, <3>2, <4>1 DEF InsertRow, TypeOK
      <4>4. pc'[w] = "recorded" /\ job' = job /\ outcome' = outcome
        BY <1>t, <2>6, <3>2 DEF InsertRow, TypeOK
      <4>5. QED BY <4>2, <4>3, <4>4 DEF CarriesItsRow, Stored
    <3>3. QED BY <3>1, <3>2
  <2>7. CASE Normalize(w)
    <3>1. pc'[w] = "normalized" /\ VersionOf(w) \in versions'
      BY <1>t, <2>7 DEF Normalize, TypeOK
    <3>2. QED
      BY <1>t, <2>7, <3>1
         DEF Normalize, CarriesItsRow, TypeOK, Stored, VersionOf
  <2>8. CASE NotNormalized(w)
    BY <1>t, <2>8 DEF NotNormalized, CarriesItsRow, TypeOK
  <2>9. CASE RequestAnalysis(w)
    BY <1>t, <2>9 DEF RequestAnalysis, CarriesItsRow, TypeOK
  <2>10. CASE ReadRun(w)
    BY <1>t, <2>10 DEF ReadRun, CarriesItsRow, TypeOK
  <2>11. CASE CountFetches(w)
    BY <1>t, <2>11 DEF CountFetches, CarriesItsRow, TypeOK
  <2>12. CASE FinishFetch(w)
    BY <1>t, <2>12 DEF FinishFetch, CarriesItsRow, TypeOK
  <2>13. QED BY <1>2, <2>1, <2>2, <2>3, <2>4, <2>5, <2>6, <2>7, <2>8, <2>9,
                <2>10, <2>11, <2>12 DEF Fetch
<1>3. CASE LoseWorker(w)
  BY <1>t, <1>3 DEF LoseWorker, CarriesItsRow, TypeOK
<1>4. CASE \E c \in Ids : TakeFetch(w, c)
  BY <1>t, <1>4 DEF TakeFetch, CarriesItsRow, TypeOK
<1>5. CASE ~ Fetch(w) /\ ~ LoseWorker(w) /\ ~ \E c \in Ids : TakeFetch(w, c)
  <2>1. ASSUME NEW v \in Workers, v # w, Fetch(v) \/ LoseWorker(v)
        PROVE  pc'[w] = pc[w] /\ job'[w] = job[w] /\ outcome'[w] = outcome[w]
    BY <1>t, <2>1
       DEF TypeOK, Fetch, ClaimStored, ClaimRefused, ClaimFetch, FetchThread,
           ReadRow, InsertRow, Normalize, NotNormalized, RequestAnalysis,
           ReadRun, CountFetches, FinishFetch, LoseWorker
  <2>2. ASSUME NEW v \in Workers, v # w, NEW c \in Ids, TakeFetch(v, c)
        PROVE  pc'[w] = pc[w] /\ job'[w] = job[w] /\ outcome'[w] = outcome[w]
    BY <1>t, <2>2 DEF TypeOK, TakeFetch
  <2>3. CASE ~ \E v \in Workers : \/ Fetch(v) \/ LoseWorker(v)
                                  \/ \E c \in Ids : TakeFetch(v, c)
    <3>1. pc' = pc /\ job' = job /\ outcome' = outcome
      BY <2>3 DEF Next, vars, Publish, SettleQuery, OpenQueue, OpenQueueFails,
                  Offer, OfferRefused, OffersMade, ReadRefused, InsertRefused,
                  AnnounceQuery, CloseStage, LosePublisher, LeaseExpires,
                  OfferStranger, ReapRun
    <3>2. QED BY <1>1, <3>1
  <2>4. QED BY <1>1, <1>5, <2>1, <2>2, <2>3
<1>6. QED BY <1>2, <1>3, <1>4, <1>5

\* The announcement is made by the worker that closed the run or by a fetch
\* worker that has seen it closed, and neither announces too early.
LEMMA AnnouncedStep ==
  ASSUME IInv, [Next]_vars
  PROVE  AnnouncedIsComplete'
<1>1. CASE announced \/ ProcessingComplete
  BY <1>1, CompleteStep DEF IInv, AnnouncedIsComplete
<1>2. CASE ~ announced /\ ~ ProcessingComplete
  <2>1. ASSUME NEW q \in Queries, CloseStage(q) PROVE ~ announced'
    BY <1>2, <2>1 DEF CloseStage
  <2>2. ASSUME NEW w \in Workers, CountFetches(w) PROVE ~ announced'
    BY <1>2, <2>2
       DEF CountFetches, ProcessingComplete, IInv, CarriesItsRow
  <2>3. CASE /\ ~ \E q \in Queries : CloseStage(q)
             /\ ~ \E w \in Workers : CountFetches(w)
    BY <1>2, <2>3
       DEF AnnouncedIsComplete, Next, vars, discovery, publishing, fetching,
           Publish, Fetch, SettleQuery, OpenQueue, OpenQueueFails, Offer,
           OfferRefused, OffersMade, ReadRefused, InsertRefused, AnnounceQuery, TakeFetch,
           ClaimStored, ClaimRefused, ClaimFetch, FetchThread, ReadRow,
           InsertRow, Normalize, NotNormalized, RequestAnalysis, ReadRun,
           FinishFetch, LoseWorker, LosePublisher, LeaseExpires,
           OfferStranger, ReapRun
  <2>4. QED BY <2>1, <2>2, <2>3 DEF AnnouncedIsComplete
<1>3. QED BY <1>1, <1>2

LEMMA EvidenceStep ==
  ASSUME IInv, [Next]_vars
  PROVE  NothingAheadOfItsEvidence'
<1> USE DEF discovery, publishing, fetching
<1> DEFINE Backed(v) ==
      \E c \in Ids : rows[c] = [names |-> v[1], content |-> v[2]]
<1>1. ASSUME NEW v \in versions PROVE Backed(v)'
  <2>1. PICK c \in Ids : rows[c] = [names |-> v[1], content |-> v[2]]
    BY DEF IInv, NothingAheadOfItsEvidence
  <2>2. v[2] \in Contents
    BY DEF IInv, TypeOK
  <2>3. Stored(c)
    BY <2>1, <2>2, ContentAssumption DEF Stored, NoEntry
  <2>4. QED BY <2>1, <2>3, NoRewrite DEF IInv
<1>2. CASE \E w \in Workers : Normalize(w)
  <2>1. PICK w \in Workers : Normalize(w)
    BY <1>2
  <2>2. outcome[w] = rows[job[w]] /\ job[w] \in Ids /\ outcome[w] \in Entries
    BY <2>1 DEF IInv, TypeOK, CarriesItsRow, Normalize, NoEntry
  <2>3. Backed(VersionOf(w))
    BY <2>2 DEF VersionOf, Entries
  <2>4. /\ versions' = versions \cup {VersionOf(w)}
        /\ rows' = rows /\ analyses' = analyses
    BY <2>1 DEF Normalize
  <2>5. QED BY <1>1, <2>3, <2>4 DEF NothingAheadOfItsEvidence, IInv
<1>3. CASE \E w \in Workers : RequestAnalysis(w)
  <2>1. PICK w \in Workers : RequestAnalysis(w)
    BY <1>3
  <2>2. VersionOf(w) \in versions
    BY <2>1 DEF IInv, CarriesItsRow, RequestAnalysis
  <2>3. analyses' \subseteq versions /\ versions' = versions
    BY <2>1, <2>2 DEF RequestAnalysis, IInv, NothingAheadOfItsEvidence
  <2>4. QED BY <1>1, <2>3 DEF NothingAheadOfItsEvidence
<1>4. CASE ~ \E w \in Workers : Normalize(w) \/ RequestAnalysis(w)
  <2>1. versions' = versions /\ analyses' = analyses
    BY <1>4 DEF Next, vars, Publish, Fetch, SettleQuery, OpenQueue,
         OpenQueueFails, Offer, OfferRefused, OffersMade, ReadRefused,
         InsertRefused, AnnounceQuery, CloseStage, TakeFetch, ClaimStored,
         ClaimRefused, ClaimFetch, FetchThread, ReadRow, InsertRow,
         NotNormalized, ReadRun, CountFetches, FinishFetch, LoseWorker,
         LosePublisher, LeaseExpires, OfferStranger, ReapRun
  <2>2. QED BY <1>1, <2>1 DEF NothingAheadOfItsEvidence, IInv
<1>5. QED BY <1>2, <1>3, <1>4

LEMMA IInvStep == IInv /\ [Next]_vars => IInv'
<1> SUFFICES ASSUME IInv, [Next]_vars PROVE IInv'
  OBVIOUS
<1>1. TypeOK'                                BY TypesStep DEF IInv
<1>2. \A w \in Workers : CarriesItsRow(w)'   BY CarriedStep
<1>3. AnnouncedIsComplete'                   BY AnnouncedStep
<1>4. NothingAheadOfItsEvidence'             BY EvidenceStep
<1>5. QED BY <1>1, <1>2, <1>3, <1>4 DEF IInv

-----------------------------------------------------------------------------
\* The rows, workers and announcement of a stage are consistent in every
\* reachable state, for every set of queries, candidates, workers and faults.
THEOREM StageIsConsistent == Spec => []IInv
<1>1. QED BY IInvInitially, IInvStep, PTL DEF Spec

\* Every variable of the stage keeps its type (the columns and job states of
\* a run's thread fetches).
THEOREM StageTypes == Spec => []TypeOK
<1>1. IInv => TypeOK  BY DEF IInv
<1>2. QED BY <1>1, StageIsConsistent, PTL

\* Whoever announces the stage announces what is so, and what stays so
\* (_publish_processing_complete_if_ready on both sides).
THEOREM AnnouncementIsTrue == Spec => []AnnouncedIsComplete
<1>1. IInv => AnnouncedIsComplete  BY DEF IInv
<1>2. QED BY <1>1, StageIsConsistent, PTL

\* Versions restate committed rows and analysis is asked about committed
\* versions (normalize_observation, _enqueue_analysis).
THEOREM EvidenceComesFirst == Spec => []NothingAheadOfItsEvidence
<1>1. IInv => NothingAheadOfItsEvidence  BY DEF IInv
<1>2. QED BY <1>1, StageIsConsistent, PTL

\* Observation rows are append-only, whatever overlaps (the unique key of
\* retrieval_observations).
THEOREM RowsStay == Spec => RowsAreAppendOnly
<1>1. IInv /\ [Next]_vars => [\A c \in Ids : Stored(c) => rows'[c] = rows[c]]_vars
  BY NoRewrite DEF IInv
<1>2. QED BY <1>1, StageIsConsistent, PTL DEF Spec, RowsAreAppendOnly

\* Completion is never undone (list_run_transitions).
THEOREM CompletionStays == Spec => CompletionIsStable
<1>1. IInv /\ [Next]_vars => [ProcessingComplete => ProcessingComplete']_vars
  BY CompleteStep DEF IInv
<1>2. QED BY <1>1, StageIsConsistent, PTL DEF Spec, CompletionIsStable

-----------------------------------------------------------------------------
(* Where no worker is lost and the queue takes every offer, no candidate is *)
(* forgotten: from its discovery on it is still to be offered, or has a job *)
(* or a row. A job is given up only when its row is there.                  *)
AccountedInv ==
  /\ \A q \in Queries : \A c \in found[q] :
       \/ publisher[q] \in {"opening", "offering"} /\ c \in toOffer[q]
       \/ Stored(c)
       \/ jobs[c] # "absent"
  /\ \A w \in Workers :
       pc[w] \in {"recorded", "normalized", "checking", "counting", "done"} =>
         Stored(job[w])

\* Every step but the end of a fetch job leaves a job that is there, there.
LEMMA JobsStay ==
  ASSUME TypeOK, [Next]_vars, Faults \subseteq {"timeout", "reaper"},
         NEW c \in Ids, jobs[c] # "absent",
         ~ \E w \in Workers : FinishFetch(w) /\ job[w] = c
  PROVE  jobs'[c] # "absent"
<1> USE DEF discovery, publishing, fetching
<1>1. ASSUME NEW w \in Workers, FinishFetch(w) PROVE jobs'[c] # "absent"
  BY <1>1 DEF FinishFetch, TypeOK
<1>2. CASE ~ \E w \in Workers : FinishFetch(w)
  BY <1>2 DEF TypeOK, Next, vars, Publish, Fetch, SettleQuery, OpenQueue,
         OpenQueueFails, Offer, OfferRefused, OffersMade, ReadRefused,
         InsertRefused, AnnounceQuery, CloseStage, TakeFetch, ClaimStored,
         ClaimRefused, ClaimFetch, FetchThread, ReadRow, InsertRow, Normalize,
         NotNormalized, RequestAnalysis, ReadRun, CountFetches, LoseWorker,
         LosePublisher, LeaseExpires, OfferStranger, ReapRun, Queued
<1>3. QED BY <1>1, <1>2

LEMMA AccountedStep ==
  ASSUME IInv, AccountedInv, [Next]_vars, Faults \subseteq {"timeout", "reaper"}
  PROVE  AccountedInv'
<1> USE DEF discovery, publishing, fetching
<1>t. TypeOK /\ TypeOK'
  BY IInvStep DEF IInv
<1>r. \A c \in Ids : Stored(c) => Stored(c)'
  BY <1>t, NoRewrite DEF Stored
<1>1. ASSUME NEW q \in Queries, NEW c \in found'[q]
      PROVE  (\/ publisher[q] \in {"opening", "offering"} /\ c \in toOffer[q]
              \/ Stored(c)
              \/ jobs[c] # "absent")'
  <2>1. c \in Candidates /\ c \in Ids
    BY <1>t DEF TypeOK, Ids
  <2>2. CASE SettleQuery(q)
    BY <1>t, <2>2 DEF SettleQuery, TypeOK
  <2>3. CASE ~ SettleQuery(q)
    <3>1. found'[q] = found[q]
      BY <1>t, <2>3
         DEF TypeOK, Next, vars, Publish, Fetch, SettleQuery, OpenQueue,
         OpenQueueFails, Offer, OfferRefused, OffersMade, ReadRefused,
         InsertRefused, AnnounceQuery, CloseStage, TakeFetch, ClaimStored,
         ClaimRefused, ClaimFetch, FetchThread, ReadRow, InsertRow, Normalize,
         NotNormalized, RequestAnalysis, ReadRun, CountFetches, FinishFetch,
         LoseWorker, LosePublisher, LeaseExpires, OfferStranger, ReapRun
    <3>2. CASE Stored(c)
      BY <2>1, <3>2, <1>r
    <3>3. CASE jobs[c] # "absent" /\ ~ Stored(c)
      <4>1. ~ \E w \in Workers : FinishFetch(w) /\ job[w] = c
        BY <3>3 DEF AccountedInv, FinishFetch
      <4>2. QED BY <1>t, <2>1, <3>3, <4>1, JobsStay
    <3>4. CASE /\ publisher[q] \in {"opening", "offering"}
               /\ c \in toOffer[q]
      <4>1. CASE Offer(q, c)
        BY <1>t, <2>1, <4>1 DEF Offer, Queued, TypeOK
      <4>2. CASE ~ Offer(q, c)
        BY <1>t, <2>3, <3>4, <4>2
           DEF TypeOK, Next, vars, Publish, Fetch, SettleQuery, OpenQueue,
           OpenQueueFails, Offer, OfferRefused, OffersMade, ReadRefused,
           InsertRefused, AnnounceQuery, CloseStage, TakeFetch, ClaimStored,
           ClaimRefused, ClaimFetch, FetchThread, ReadRow, InsertRow,
           Normalize, NotNormalized, RequestAnalysis, ReadRun, CountFetches,
           FinishFetch, LoseWorker, LosePublisher, LeaseExpires,
           OfferStranger, ReapRun
      <4>3. QED BY <4>1, <4>2
    <3>5. QED BY <3>1, <3>2, <3>3, <3>4 DEF AccountedInv
  <2>4. QED BY <2>2, <2>3
<1>2. ASSUME NEW w \in Workers,
             pc'[w] \in {"recorded", "normalized", "checking", "counting",
                         "done"}
      PROVE  Stored(job[w])'
  <2>1. CASE pc'[w] = pc[w] /\ job'[w] = job[w]
    <3>1. job[w] \in Ids /\ Stored(job[w])
      BY <1>t, <1>2, <2>1 DEF TypeOK, AccountedInv
    <3>2. QED BY <2>1, <3>1, <1>r DEF Stored
  <2>2. CASE Fetch(w)
    <3>1. CASE pc'[w] = "recorded"
      BY <1>t, <3>1, CarriedStep, IInvStep DEF CarriesItsRow, IInv
    <3>2. CASE InsertRow(w) /\ Stored(job[w])
      BY <1>t, <3>2, <1>r DEF InsertRow, Stored, TypeOK
    <3>3. CASE pc'[w] # "recorded" /\ ~ (InsertRow(w) /\ Stored(job[w]))
      <4>1. job[w] \in Ids /\ Stored(job[w]) /\ job'[w] = job[w]
        BY <1>t, <1>2, <2>2, <3>3
           DEF TypeOK, AccountedInv, Fetch, ClaimStored, ClaimRefused,
               ClaimFetch, FetchThread, ReadRow, InsertRow, Normalize,
               NotNormalized, RequestAnalysis, ReadRun, CountFetches,
               FinishFetch
      <4>2. QED BY <4>1, <1>r DEF Stored
    <3>4. QED BY <3>1, <3>2, <3>3
  <2>3. CASE ~ Fetch(w) /\ ~ (pc'[w] = pc[w] /\ job'[w] = job[w])
    <3>1. ~ \E v \in Workers : LoseWorker(v)
      BY DEF LoseWorker
    <3>2. ASSUME NEW c \in Ids, TakeFetch(w, c) PROVE FALSE
      BY <1>t, <1>2, <3>2 DEF TakeFetch, TypeOK
    <3>3. ASSUME NEW v \in Workers, v # w, Fetch(v) PROVE FALSE
      BY <1>t, <2>3, <3>3
         DEF TypeOK, Fetch, ClaimStored, ClaimRefused, ClaimFetch,
             FetchThread, ReadRow, InsertRow, Normalize, NotNormalized,
             RequestAnalysis, ReadRun, CountFetches, FinishFetch
    <3>4. ASSUME NEW v \in Workers, v # w, NEW c \in Ids, TakeFetch(v, c)
          PROVE  FALSE
      BY <1>t, <2>3, <3>4 DEF TypeOK, TakeFetch
    <3>5. pc' = pc /\ job' = job
      BY <2>3, <3>1, <3>2, <3>3, <3>4
         DEF Next, vars, Publish, SettleQuery, OpenQueue, OpenQueueFails,
             Offer, OfferRefused, OffersMade, ReadRefused, InsertRefused,
             AnnounceQuery, CloseStage, LosePublisher, LeaseExpires,
             OfferStranger, ReapRun
    <3>6. QED BY <2>3, <3>5
  <2>4. QED BY <2>1, <2>2, <2>3
<1>3. QED BY <1>1, <1>2 DEF AccountedInv

\* A candidate never falls between the queue and the rows unless a worker is
\* lost or the queue fails (_publish_attempt_progress): the runs that fail
\* CandidatesAreAccountedFor need one of these faults.
THEOREM CandidatesAccounted ==
  ASSUME Faults \subseteq {"timeout", "reaper"}
  PROVE  Spec => []CandidatesAreAccountedFor
<1>1. Init => AccountedInv
  BY DEF Init, AccountedInv
<1>2. IInv /\ AccountedInv /\ [Next]_vars => AccountedInv'
  BY AccountedStep
<1>3. AccountedInv => CandidatesAreAccountedFor
  BY DEF AccountedInv, CandidatesAreAccountedFor
<1>4. QED BY <1>1, <1>2, <1>3, StageIsConsistent, PTL DEF Spec

-----------------------------------------------------------------------------
(* Whoever completes the stage looks whether it is complete.               *)

FaultsSparePublishers == Faults \subseteq {"timeout", "lease"}

\* Where the queue takes every offer, no publisher has a refusal to record.
NothingRefused == \A q \in Queries : refused[q] = {}

LEMMA NothingRefusedStep ==
  ASSUME TypeOK, NothingRefused, [Next]_vars, FaultsSparePublishers
  PROVE  NothingRefused'
<1> USE DEF discovery, publishing, fetching
<1>1. CASE UNCHANGED refused
  BY <1>1 DEF NothingRefused
<1>2. ASSUME NEW q \in Queries, ReadRefused(q) PROVE NothingRefused'
  BY <1>2 DEF ReadRefused, NothingRefused, TypeOK
<1>3. CASE ~ \E q \in Queries : ReadRefused(q)
  <2>1. UNCHANGED refused
    BY <1>3
       DEF FaultsSparePublishers, Next, vars, Publish, Fetch, SettleQuery,
           OpenQueue, OpenQueueFails, Offer, OfferRefused, OffersMade,
           InsertRefused, AnnounceQuery, CloseStage, TakeFetch, ClaimStored,
           ClaimRefused, ClaimFetch, FetchThread, ReadRow, InsertRow,
           Normalize, NotNormalized, RequestAnalysis, ReadRun, CountFetches,
           FinishFetch, LoseWorker, LosePublisher, LeaseExpires,
           OfferStranger, ReapRun
  <2>2. QED BY <1>1, <2>1
<1>4. QED BY <1>2, <1>3

\* Whoever still has to look.
TellingPlaces == {"recorded", "normalized", "checking", "counting"}
Teller ==
  \/ \E q \in Queries : closer[q] /\ publisher[q] # "done"
  \/ \E w \in Workers : pc[w] \in TellingPlaces

\* The steps that complete the stage, a settle that closes the run and the
\* writing of a row, leave somebody who has to look.
LEMMA CompletionLeavesATeller ==
  ASSUME TypeOK, NothingRefused, [Next]_vars, FaultsSparePublishers,
         ~ ProcessingComplete, ProcessingComplete'
  PROVE  Teller'
<1> USE DEF discovery
<1>1. ASSUME NEW q \in Queries, SettleQuery(q) PROVE Teller'
  <2>1. closer'[q] = TRUE /\ publisher'[q] \in {"announcing", "opening"}
    BY <1>1 DEF SettleQuery, TypeOK, ProcessingComplete
  <2>2. QED BY <2>1 DEF Teller
<1>2. ASSUME NEW w \in Workers, InsertRow(w), rows' # rows
      PROVE  Teller'
  <2>1. pc'[w] = "recorded"
    BY <1>2 DEF InsertRow, TypeOK
  <2>2. QED BY <2>1 DEF Teller, TellingPlaces
<1>3. CASE UNCHANGED <<terminal, found, rows>>
  BY <1>3 DEF ProcessingComplete, Expected, Fetched, Stored
<1>4. ASSUME NEW q \in Queries, InsertRefused(q)
      PROVE  UNCHANGED <<terminal, found, rows>>
  BY <1>4 DEF InsertRefused, NothingRefused, TypeOK
<1>5. ~ ReapRun
  BY DEF ReapRun, FaultsSparePublishers
<1>6. ASSUME \/ \E q \in Queries : CloseStage(q)
             \/ \E w \in Workers :
                  \/ InsertRow(w) /\ rows' = rows
                  \/ Normalize(w) \/ RequestAnalysis(w) \/ CountFetches(w)
             \/ UNCHANGED <<discovery, rows, versions, analyses, announced>>
      PROVE  UNCHANGED <<terminal, found, rows>>
  BY <1>6 DEF CloseStage, InsertRow, Normalize, RequestAnalysis, CountFetches
<1>7. QED BY <1>1, <1>2, <1>3, <1>4, <1>5, <1>6, StageSteps

\* Whoever has to look does, and announces what is so.
LEMMA TellerTells ==
  ASSUME IInv, NothingRefused, [Next]_vars, FaultsSparePublishers,
         ProcessingComplete, Teller
  PROVE  announced' \/ Teller'
<1> USE DEF discovery, publishing, fetching
<1>1. CASE \E q \in Queries : closer[q] /\ publisher[q] # "done"
  <2>1. PICK q \in Queries : closer[q] /\ publisher[q] # "done"
    BY <1>1
  <2>2. CASE CloseStage(q)
    <3>1. announced' = (announced \/ ProcessingComplete)
      BY <2>2, Zenon DEF CloseStage
    <3>2. (announced \/ ProcessingComplete) = TRUE
      OBVIOUS
    <3>3. announced' = TRUE
      BY <3>1, <3>2
    <3>4. QED BY <3>3, Zenon
  <2>3. CASE ~ CloseStage(q)
    <3>1. closer'[q] = closer[q]
      BY DEF ProcessingComplete, IInv, TypeOK, Next, vars, Publish, Fetch,
         SettleQuery, OpenQueue, OpenQueueFails, Offer, OfferRefused,
         OffersMade, ReadRefused, InsertRefused, AnnounceQuery, CloseStage,
         TakeFetch, ClaimStored, ClaimRefused, ClaimFetch, FetchThread,
         ReadRow, InsertRow, Normalize, NotNormalized, RequestAnalysis,
         ReadRun, CountFetches, FinishFetch, LoseWorker, LosePublisher,
         LeaseExpires, OfferStranger, ReapRun
    <3>2. CASE publisher'[q] = publisher[q]
      BY <2>1, <3>1, <3>2 DEF Teller
    <3>3. CASE Publish(q) /\ publisher'[q] # publisher[q]
      <4>1. publisher'[q] # "done"
        BY <2>1, <2>3, <3>3
           DEF IInv, TypeOK, NothingRefused, Publish, OpenQueue, Offer,
               OffersMade, ReadRefused, InsertRefused, AnnounceQuery
      <4>2. QED BY <2>1, <3>1, <4>1 DEF Teller
    <3>4. ASSUME ~ Publish(q) PROVE publisher'[q] = publisher[q]
      <4>1. ~ \E o \in Queries : SettleQuery(o)
        BY DEF SettleQuery, ProcessingComplete
      <4>2. ~ \E o \in Queries :
                \/ OpenQueueFails(o) \/ LosePublisher(o)
                \/ \E c \in Candidates : OfferRefused(o, c)
        BY DEF OpenQueueFails, LosePublisher, OfferRefused,
               FaultsSparePublishers
      <4>3. ASSUME NEW o \in Queries, o # q, Publish(o)
            PROVE  publisher'[q] = publisher[q]
        BY <4>3
           DEF IInv, TypeOK, Publish, OpenQueue, Offer, OffersMade,
               ReadRefused, InsertRefused, AnnounceQuery, CloseStage
      <4>4. ASSUME ~ \E o \in Queries : Publish(o)
            PROVE  publisher'[q] = publisher[q]
        BY <4>1, <4>2, <4>4
           DEF Next, vars, Fetch, TakeFetch, ClaimStored, ClaimRefused,
               ClaimFetch, FetchThread, ReadRow, InsertRow, Normalize,
               NotNormalized, RequestAnalysis, ReadRun, CountFetches,
               FinishFetch, LoseWorker, LeaseExpires, OfferStranger, ReapRun
      <4>5. QED BY <3>4, <4>3, <4>4
    <3>5. QED BY <3>2, <3>3, <3>4
  <2>4. QED BY <2>2, <2>3
<1>2. CASE \E w \in Workers : pc[w] \in TellingPlaces
  <2>1. PICK w \in Workers : pc[w] \in TellingPlaces
    BY <1>2
  <2>2. CASE CountFetches(w)
    <3>1. announced' = (announced \/ Expected \subseteq Fetched)
      BY <2>2, Zenon DEF CountFetches
    <3>2. Expected \subseteq Fetched
      BY Zenon DEF ProcessingComplete
    <3>3. (announced \/ Expected \subseteq Fetched) = TRUE
      BY <3>2
    <3>4. announced' = TRUE
      BY <3>1, <3>3
    <3>5. QED BY <3>4, Zenon
  <2>3. CASE pc'[w] = pc[w]
    BY <2>1, <2>3 DEF Teller
  <2>4. CASE Fetch(w) /\ ~ CountFetches(w)
    <3>1. pc'[w] \in TellingPlaces
      BY <2>1, <2>4
         DEF IInv, TypeOK, TellingPlaces, ProcessingComplete, Fetch,
             ClaimStored, ClaimRefused, ClaimFetch, FetchThread, ReadRow,
             InsertRow, Normalize, NotNormalized, RequestAnalysis, ReadRun,
             FinishFetch
    <3>2. QED BY <3>1 DEF Teller
  <2>5. CASE ~ Fetch(w)
    <3>1. ASSUME NEW v \in Workers, v # w,
                 Fetch(v) \/ \E c \in Ids : TakeFetch(v, c)
          PROVE  pc'[w] = pc[w]
      <4>1. \E at : pc' = [pc EXCEPT ![v] = at]
        BY <3>1, Zenon
           DEF TakeFetch, Fetch, ClaimStored, ClaimRefused, ClaimFetch,
               FetchThread, ReadRow, InsertRow, Normalize, NotNormalized,
               RequestAnalysis, ReadRun, CountFetches, FinishFetch
      <4>2. PICK at : pc' = [pc EXCEPT ![v] = at]
        BY <4>1
      <4>3. DOMAIN pc = Workers
        BY DEF IInv, TypeOK
      <4>4. QED BY <4>2, <4>3, <3>1
    <3>2. ~ \E c \in Ids : TakeFetch(w, c)
      BY <2>1 DEF TakeFetch, TellingPlaces
    <3>3. ~ \E v \in Workers : LoseWorker(v)
      BY DEF LoseWorker, FaultsSparePublishers
    <3>4. ASSUME ~ \E v \in Workers :
                     Fetch(v) \/ \E c \in Ids : TakeFetch(v, c)
          PROVE  pc'[w] = pc[w]
      BY <3>3, <3>4
         DEF Next, vars, Publish, SettleQuery, OpenQueue, OpenQueueFails,
             Offer, OfferRefused, OffersMade, ReadRefused, InsertRefused,
             AnnounceQuery, CloseStage, LosePublisher, LeaseExpires,
             OfferStranger, ReapRun
    <3>5. pc'[w] = pc[w]
      BY <2>5, <3>1, <3>2, <3>4
    <3>6. QED BY <2>3, <3>5
  <2>6. QED BY <2>2, <2>4, <2>5
<1>3. QED BY <1>1, <1>2 DEF Teller

\* As long as no publisher is lost and nothing is refused, the end of the stage
\* is never left to nobody (_publish_processing_complete_if_ready on both
\* sides).
THEOREM SomeoneIsLeftToTell ==
  ASSUME FaultsSparePublishers
  PROVE  Spec => []SomeoneWillTell
<1>1. Init => NothingRefused /\ SomeoneWillTell
  BY DEF Init, NothingRefused, SomeoneWillTell, ProcessingComplete
<1>2. IInv /\ NothingRefused /\ SomeoneWillTell /\ [Next]_vars
        => NothingRefused' /\ SomeoneWillTell'
  <2> SUFFICES ASSUME IInv, NothingRefused, SomeoneWillTell, [Next]_vars
               PROVE  NothingRefused' /\ SomeoneWillTell'
    OBVIOUS
  <2>1. NothingRefused'
    BY NothingRefusedStep DEF IInv
  <2>2. SomeoneWillTell <=> (ProcessingComplete => announced \/ Teller)
    BY DEF SomeoneWillTell, Teller, TellingPlaces
  <2>3. SomeoneWillTell' <=> (ProcessingComplete' => announced' \/ Teller')
    BY DEF SomeoneWillTell, Teller, TellingPlaces
  <2>4. announced => announced'
    BY StageSteps
       DEF discovery, SettleQuery, InsertRefused, CloseStage, ReapRun,
           InsertRow, Normalize, RequestAnalysis, CountFetches
  <2>5. CASE ProcessingComplete
    <3>1. announced \/ Teller  BY <2>2, <2>5
    <3>2. Teller => announced' \/ Teller'  BY <2>5, TellerTells
    <3>3. QED BY <2>1, <2>3, <2>4, <3>1, <3>2
  <2>6. CASE ~ ProcessingComplete
    <3>1. TypeOK  BY DEF IInv
    <3>2. ProcessingComplete' => Teller'
      BY <2>6, <3>1, CompletionLeavesATeller
    <3>3. QED BY <2>1, <2>3, <3>2
  <2>7. QED BY <2>5, <2>6
<1>3. QED BY <1>1, <1>2, StageIsConsistent, PTL DEF Spec

-----------------------------------------------------------------------------
(* Refinement: ThreadProcessing implements StageLedger.                    *)

\* Only a settle puts candidates into the row of its query.
UnsettledIsEmpty == \A q \in Queries : q \notin settled => found[q] = {}

LEMMA UnsettledStep ==
  ASSUME TypeOK, UnsettledIsEmpty, [Next]_vars
  PROVE  UnsettledIsEmpty'
<1>1. ASSUME NEW q \in Queries, SettleQuery(q) PROVE UnsettledIsEmpty'
  BY <1>1 DEF SettleQuery, UnsettledIsEmpty, TypeOK
<1>2. CASE UNCHANGED <<settled, found>>
  BY <1>2 DEF UnsettledIsEmpty
<1>3. CASE ~ \E q \in Queries : SettleQuery(q)
  <2>1. UNCHANGED <<settled, found>>
    BY <1>3, StageSteps
       DEF discovery, InsertRefused, CloseStage, ReapRun, InsertRow,
           Normalize, RequestAnalysis, CountFetches
  <2>2. QED BY <1>2, <2>1
<1>4. QED BY <1>1, <1>3

\* Rows of ids that had none, and nothing else, are new.
LEMMA RowsAreWritten ==
  ASSUME TypeOK, TypeOK', NEW ids \in SUBSET Ids,
         \A c \in ids : ~ Stored(c) /\ rows'[c] \in Entries,
         \A c \in Ids \ ids : rows'[c] = rows[c],
         UNCHANGED <<discovery, versions, analyses, announced>>
  PROVE  Ledger!Write(ids)
<1> DEFINE new == [c \in ids |-> rows'[c]]
<1>1. new \in [ids -> Entries]
  OBVIOUS
<1>2. rows' = [c \in Ids |-> IF c \in ids THEN new[c] ELSE rows[c]]
  BY DEF TypeOK
<1>3. ids \cap Ledger!Written = {}
  BY DEF Stored, Ledger!Written
<1>4. UNCHANGED <<terminal, Expected, versions, analyses, announced>>
  BY DEF discovery, Expected
<1> HIDE DEF new
<1>5. QED BY <1>1, <1>2, <1>3, <1>4 DEF Ledger!Write

\* The end that is told is the end of the stage.
LEMMA EndIsTold ==
  ASSUME ProcessingComplete, announced' = TRUE,
         UNCHANGED <<discovery, rows, versions, analyses>>
  PROVE  Ledger!Tell
<1>1. Ledger!Complete
  BY DEF ProcessingComplete, Fetched, Stored, Ledger!Complete, Ledger!Written
<1>2. Expected' = Expected /\ terminal' = terminal
  BY DEF discovery, Expected
<1>3. QED BY <1>1, <1>2 DEF Ledger!Tell

\* What a follower sees is a step of the ledger (StageLedger.Next), or nothing.
LEMMA KeepsTheStageStep ==
  ASSUME IInv, UnsettledIsEmpty, [Next]_vars
  PROVE  Ledger!Next \/ UNCHANGED Ledger!vars
<1>t. TypeOK /\ TypeOK'
  BY IInvStep DEF IInv
<1>1. ASSUME NEW q \in Queries, SettleQuery(q) PROVE Ledger!Next
  <2>1. PICK some \in SUBSET Candidates : found' = [found EXCEPT ![q] = some]
    BY <1>1 DEF SettleQuery
  <2>2. found[q] = {}
    BY <1>1 DEF SettleQuery, UnsettledIsEmpty
  <2>3. Expected' = Expected \cup some
    BY <1>t, <2>1, <2>2 DEF TypeOK, Expected
  <2>4. /\ ~ terminal /\ terminal' \in BOOLEAN
        /\ UNCHANGED <<rows, versions, analyses, announced>>
    BY <1>1 DEF SettleQuery
  <2>5. Ledger!Discover(some)
    BY <2>3, <2>4 DEF Ledger!Discover
  <2>6. QED BY <2>5 DEF Ledger!Next
<1>2. CASE ReapRun
  <2>1. Expected' = Expected \cup {}
    BY <1>2 DEF ReapRun, Expected
  <2>2. Ledger!Discover({})
    BY <1>2, <2>1 DEF ReapRun, Ledger!Discover
  <2>3. QED BY <2>2 DEF Ledger!Next
<1>3. ASSUME NEW q \in Queries, InsertRefused(q)
      PROVE  Ledger!Next \/ UNCHANGED Ledger!vars
  <2> USE DEF discovery, fetching
  <2>1. CASE \E c \in refused[q] : Stored(c)
    BY <1>3, <2>1 DEF InsertRefused, Ledger!vars, Expected
  <2>2. CASE ~ \E c \in refused[q] : Stored(c)
    <3>1. refused[q] \in SUBSET Ids
      BY <1>t DEF TypeOK, Ids
    <3>2. rows' = [c \in Ids |->
                     IF c \in refused[q] THEN Failure(c) ELSE rows[c]]
      BY <1>3, <2>2 DEF InsertRefused
    <3>3. \A c \in refused[q] : ~ Stored(c) /\ rows'[c] \in Entries
      BY <2>2, <3>1, <3>2, FailureIsEntry
    <3>4. \A c \in Ids \ refused[q] : rows'[c] = rows[c]
      BY <3>2
    <3>5. UNCHANGED <<discovery, versions, analyses, announced>>
      BY <1>3 DEF InsertRefused
    <3>6. Ledger!Write(refused[q])
      BY <1>t, <3>1, <3>3, <3>4, <3>5, RowsAreWritten
    <3>7. QED BY <3>1, <3>6 DEF Ledger!Next
  <2>3. QED BY <2>1, <2>2
<1>4. ASSUME NEW w \in Workers, InsertRow(w)
      PROVE  Ledger!Next \/ UNCHANGED Ledger!vars
  <2> USE DEF discovery
  <2>1. UNCHANGED <<discovery, versions, analyses, announced>>
    BY <1>4 DEF InsertRow
  <2>2. CASE rows' = rows
    BY <2>1, <2>2 DEF Ledger!vars, Expected
  <2>3. CASE rows' # rows
    <3>1. /\ pc[w] = "inserting" /\ ~ Stored(job[w])
          /\ rows' = [rows EXCEPT ![job[w]] = outcome[w]]
      BY <1>4, <2>3 DEF InsertRow
    <3>2. job[w] \in Ids
      BY <1>t, <3>1 DEF TypeOK
    <3>3. rows'[job[w]] \in Entries
      BY <1>t, <3>1, <3>2 DEF IInv, CarriesItsRow, TypeOK
    <3>4. \A c \in Ids \ {job[w]} : rows'[c] = rows[c]
      BY <1>t, <3>1 DEF TypeOK
    <3>5. {job[w]} \in SUBSET Ids
      BY <3>2
    <3>6. Ledger!Write({job[w]})
      BY <1>t, <2>1, <3>1, <3>3, <3>4, <3>5, RowsAreWritten
    <3>7. QED BY <3>5, <3>6 DEF Ledger!Next
  <2>4. QED BY <2>2, <2>3
<1>5. ASSUME NEW w \in Workers, Normalize(w) PROVE Ledger!Next
  <2>1. /\ job[w] \in Ids /\ Stored(job[w]) /\ outcome[w] = rows[job[w]]
        /\ outcome[w].content # Nothing
        /\ versions' = versions \cup {VersionOf(w)}
        /\ UNCHANGED <<discovery, rows, analyses, announced>>
    BY <1>t, <1>5 DEF IInv, TypeOK, CarriesItsRow, Normalize
  <2>2. Ledger!Restate(job[w])
    BY <2>1 DEF Ledger!Restate, Ledger!Written, VersionOf, Stored, Expected,
                discovery
  <2>3. QED BY <2>1, <2>2 DEF Ledger!Next
<1>6. ASSUME NEW w \in Workers, RequestAnalysis(w)
      PROVE  Ledger!Next \/ UNCHANGED Ledger!vars
  <2>1. /\ VersionOf(w) \in versions
        /\ analyses' = analyses \/ analyses' = analyses \cup {VersionOf(w)}
        /\ UNCHANGED <<discovery, rows, versions, announced>>
    BY <1>6 DEF IInv, CarriesItsRow, RequestAnalysis
  <2>2. CASE analyses' = analyses
    BY <2>1, <2>2 DEF Ledger!vars, Expected, discovery
  <2>3. CASE analyses' = analyses \cup {VersionOf(w)}
    <3>1. Ledger!Ask(VersionOf(w))
      BY <2>1, <2>3 DEF Ledger!Ask, Expected, discovery
    <3>2. QED BY <2>1, <3>1 DEF Ledger!Next
  <2>4. QED BY <2>1, <2>2, <2>3
<1>7. ASSUME UNCHANGED <<discovery, rows, versions, analyses>>,
             announced => announced',
             announced' => announced \/ ProcessingComplete
      PROVE  Ledger!Next \/ UNCHANGED Ledger!vars
  <2>1. announced \in BOOLEAN /\ announced' \in BOOLEAN
    BY <1>t DEF TypeOK
  <2>2. CASE announced' = announced
    BY <1>7, <2>2 DEF Ledger!vars, Expected, discovery
  <2>3. CASE announced' # announced
    <3>1. announced' = TRUE /\ ProcessingComplete
      BY <1>7, <2>1, <2>3
    <3>2. QED BY <1>7, <3>1, EndIsTold DEF Ledger!Next
  <2>4. QED BY <2>2, <2>3
<1>8. ASSUME NEW q \in Queries, CloseStage(q)
      PROVE  Ledger!Next \/ UNCHANGED Ledger!vars
  <2>1. UNCHANGED <<discovery, rows, versions, analyses>>
    BY <1>8 DEF CloseStage
  <2>2. /\ announced => announced'
        /\ announced' => announced \/ ProcessingComplete
    BY <1>8, Zenon DEF CloseStage
  <2>3. QED BY <1>7, <2>1, <2>2
<1>9. ASSUME NEW w \in Workers, CountFetches(w)
      PROVE  Ledger!Next \/ UNCHANGED Ledger!vars
  <2>1. UNCHANGED <<discovery, rows, versions, analyses>> /\ terminal
    BY <1>9 DEF CountFetches, IInv, CarriesItsRow
  <2>2. /\ announced => announced'
        /\ announced' => announced \/ ProcessingComplete
    BY <1>9, <2>1, Zenon DEF CountFetches, ProcessingComplete
  <2>3. QED BY <1>7, <2>1, <2>2
<1>10. CASE UNCHANGED <<discovery, rows, versions, analyses, announced>>
  BY <1>10 DEF Ledger!vars, Expected, discovery
<1>11. QED
  BY <1>1, <1>2, <1>3, <1>4, <1>5, <1>6, <1>8, <1>9, <1>10, StageSteps

\* The stage is a ledger to whoever follows it, for every set of queries,
\* candidates, workers and faults (list_run_transitions, the unique key of
\* retrieval_observations, normalize_observation).
THEOREM StageKeepsItsLedger == Spec => KeepsTheStage
<1>1. Init => Ledger!Init
  BY DEF Init, Ledger!Init, Expected
<1>2. Init => UnsettledIsEmpty
  BY DEF Init, UnsettledIsEmpty
<1>3. IInv /\ UnsettledIsEmpty /\ [Next]_vars => UnsettledIsEmpty'
  BY UnsettledStep DEF IInv
<1>4. IInv /\ UnsettledIsEmpty /\ [Next]_vars => [Ledger!Next]_(Ledger!vars)
  BY KeepsTheStageStep
<1>5. QED
  BY <1>1, <1>2, <1>3, <1>4, StageIsConsistent, PTL
     DEF Spec, KeepsTheStage, Ledger!Spec

-----------------------------------------------------------------------------
(* Refinement: the run of ThreadProcessing does what RunSettlement allows.  *)

\* However the stage behind it goes, the run is settled as DiscoveryRun settles
\* it: what is proved here of the stage holds behind the run modelled there.
THEOREM TheRunIsSettledOneByOne == Spec => SettlesOneByOne
<1>1. Init => Settlement!Init
  BY DEF Init, Settlement!Init
<1>2. [Next]_vars => [Settlement!Next]_(Settlement!vars)
  <2> SUFFICES ASSUME [Next]_vars
               PROVE  Settlement!Next \/ UNCHANGED Settlement!vars
    OBVIOUS
  <2>1. ASSUME NEW q \in Queries, SettleQuery(q) PROVE Settlement!Next
    BY <2>1 DEF SettleQuery, Settlement!Next, Settlement!Settle
  <2>2. CASE ReapRun
    BY <2>2 DEF ReapRun, Settlement!Next, Settlement!WriteOff
  <2>3. ASSUME \/ \E q \in Queries : InsertRefused(q) \/ CloseStage(q)
               \/ \E w \in Workers :
                    \/ InsertRow(w)
                    \/ Normalize(w) \/ RequestAnalysis(w) \/ CountFetches(w)
        PROVE  UNCHANGED Settlement!vars
    BY <2>3 DEF InsertRefused, CloseStage, InsertRow, Normalize,
                RequestAnalysis, CountFetches, discovery, Settlement!vars
  <2>4. CASE UNCHANGED <<discovery, rows, versions, analyses, announced>>
    BY <2>4 DEF discovery, Settlement!vars
  <2>5. QED BY <2>1, <2>2, <2>3, <2>4, StageSteps
<1>3. QED BY <1>1, <1>2, PTL DEF Spec, SettlesOneByOne, Settlement!Spec
=============================================================================
