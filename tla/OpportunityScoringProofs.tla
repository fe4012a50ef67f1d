---------------------- MODULE OpportunityScoringProofs ----------------------
(***************************************************************************)
(* Proofs about OpportunityScoring. That scores are backed rests on the    *)
(* order of a job's transactions alone, whatever crashes; that models are  *)
(* asked only where it is needed rests on one job per version, which holds *)
(* as long as no lease is lost.                                            *)
(***************************************************************************)
EXTENDS OpportunityScoring, TLAPS

\* A Model Run is committed before anything of its score.
Asked == {"persisting", "inserted", "creating", "rescoring", "committed"}
RunsFirst == \A w \in Workers : pc[w] \in Asked => modelRuns[job[w]] > 0

\* What is announced next is committed, and what is re-scored is there.
Persisted ==
  \A w \in Workers : /\ pc[w] = "committed" => job[w] \in analyses
                     /\ pc[w] = "rescoring" => opportunity # NoVersion

\* Without faults a job's version is leased, and no other worker has it.
Alone ==
  ~ faulty =>
    \A w \in Workers : pc[w] # "idle" =>
      /\ jobs[job[w]] = "leased"
      /\ \A x \in Workers \ {w} : pc[x] # "idle" => job[x] # job[w]

\* ... and until its commit the version has no Analysis.
Unanalysed ==
  ~ faulty =>
    \A w \in Workers : pc[w] \in Inserted \cup {"asking", "persisting"} =>
      job[w] \notin analyses

IInv == TypeOK /\ ScoresAreBacked /\ RunsFirst /\ Persisted /\ Alone /\ Unanalysed

-----------------------------------------------------------------------------
LEMMA InitIInv == Init => IInv
<1> SUFFICES ASSUME Init PROVE IInv
  OBVIOUS
<1>1. TypeOK
  BY FaultAssumption, SpendAssumption DEF Init, TypeOK, Pcs, Markers
<1>2. ScoresAreBacked
  BY DEF Init, ScoresAreBacked
<1>3. \A w \in Workers : pc[w] = "idle"
  BY DEF Init
<1>4. QED
  BY <1>1, <1>2, <1>3 DEF IInv, RunsFirst, Persisted, Alone, Unanalysed, Asked, Inserted

\* What requests, and leases that run out, change only the queue.
LEMMA QueuePreserves ==
  ASSUME IInv, NEW v \in Versions, Request(v) \/ LeaseExpires(v), UNCHANGED faulty
  PROVE  IInv'
<1> USE DEF Request, LeaseExpires, database
<1>1. TypeOK'
  BY DEF IInv, TypeOK
<1>2. ScoresAreBacked' /\ RunsFirst' /\ Persisted' /\ Unanalysed'
  BY DEF IInv, ScoresAreBacked, RunsFirst, Persisted, Unanalysed
<1>3. Alone'
  <2> SUFFICES ASSUME ~ faulty, NEW w \in Workers, pc[w] # "idle"
               PROVE  jobs'[job[w]] = "leased"
    BY DEF IInv, Alone
  <2>1. jobs[v] = "absent"
    OBVIOUS
  <2>2. jobs[job[w]] = "leased" /\ job[w] \in Versions
    BY DEF IInv, Alone, TypeOK
  <2>3. QED BY <2>1, <2>2 DEF IInv, TypeOK
<1>4. QED BY <1>1, <1>2, <1>3 DEF IInv

LEMMA TakeJobPreserves ==
  ASSUME IInv, NEW w \in Workers, NEW v \in Versions, TakeJob(w, v), UNCHANGED faulty
  PROVE  IInv'
<1> USE DEF TakeJob, Goto, database
<1>1. TypeOK'
  BY DEF IInv, TypeOK, Pcs, Markers
<1>2. \A x \in Workers : /\ pc'[x] = IF x = w THEN "taken" ELSE pc[x]
                         /\ job'[x] = IF x = w THEN v ELSE job[x]
  BY DEF IInv, TypeOK
<1>3. ScoresAreBacked' /\ RunsFirst' /\ Persisted' /\ Unanalysed'
  BY <1>2 DEF IInv, ScoresAreBacked, RunsFirst, Persisted, Unanalysed, Asked, Inserted
<1>4. Alone'
  <2> SUFFICES ASSUME ~ faulty
               PROVE  \A x \in Workers : pc'[x] # "idle" =>
                        /\ jobs'[job'[x]] = "leased"
                        /\ \A y \in Workers \ {x} : pc'[y] # "idle" => job'[y] # job'[x]
    BY DEF Alone
  <2>1. \A x \in Workers : pc[x] # "idle" =>
          /\ job[x] \in Versions /\ jobs[job[x]] = "leased"
          /\ \A y \in Workers \ {x} : pc[y] # "idle" => job[y] # job[x]
    BY DEF IInv, Alone, TypeOK
  <2>2. \A x \in Workers : pc[x] # "idle" => job[x] # v
    BY <2>1
  <2>3. \A u \in Versions : jobs'[u] = IF u = v THEN "leased" ELSE jobs[u]
    BY DEF IInv, TypeOK
  <2>4. QED BY <1>2, <2>1, <2>2, <2>3
<1>5. QED BY <1>1, <1>3, <1>4 DEF IInv

\* A worker gives up its version: the job is done, or the worker has died.
LEMMA LeavePreserves ==
  ASSUME IInv, NEW w \in Workers, FinishJob(w) \/ Crash(w), UNCHANGED faulty
  PROVE  IInv'
<1> USE DEF FinishJob, Crash, Goto, database
<1>1. TypeOK'
  BY DEF IInv, TypeOK, Pcs
<1>2. \A x \in Workers : /\ pc'[x] = IF x = w THEN "idle" ELSE pc[x]
                         /\ job'[x] = IF x = w THEN NoVersion ELSE job[x]
  BY DEF IInv, TypeOK
<1>3. ScoresAreBacked' /\ RunsFirst' /\ Persisted' /\ Unanalysed'
  BY <1>2 DEF IInv, ScoresAreBacked, RunsFirst, Persisted, Unanalysed, Asked, Inserted
<1>4. Alone'
  <2> SUFFICES ASSUME ~ faulty
               PROVE  \A x \in Workers : pc'[x] # "idle" =>
                        /\ jobs'[job'[x]] = "leased"
                        /\ \A y \in Workers \ {x} : pc'[y] # "idle" => job'[y] # job'[x]
    BY DEF Alone
  <2>1. \A x \in Workers : pc[x] # "idle" =>
          /\ job[x] \in Versions /\ jobs[job[x]] = "leased"
          /\ \A y \in Workers \ {x} : pc[y] # "idle" => job[y] # job[x]
    BY DEF IInv, Alone, TypeOK
  <2>2. pc[w] # "idle" /\ jobs' = [jobs EXCEPT ![job[w]] = "absent"]
    OBVIOUS
  <2>3. \A u \in Versions : u # job[w] => jobs'[u] = jobs[u]
    BY <2>2 DEF IInv, TypeOK
  <2>4. QED BY <1>2, <2>1, <2>2, <2>3
<1>5. QED BY <1>1, <1>3, <1>4 DEF IInv

\* A step of a job that commits no Analysis.
LEMMA StepPreserves ==
  ASSUME IInv, NEW w \in Workers, NEW place \in Pcs \ {"idle"}, pc[w] # "idle",
         pc' = [pc EXCEPT ![w] = place], marker' \in [Workers -> Markers],
         analyses' = analyses, opportunity' = opportunity,
         modelRuns' \in [Versions -> 0 .. MaxSpend],
         \A v \in Versions : modelRuns[v] > 0 => modelRuns'[v] > 0,
         UNCHANGED <<jobs, job, faulty>>,
         completed' \in {completed, completed \cup {job[w]}},
         completed' # completed => pc[w] = "committed",
         place \in Asked => modelRuns'[job[w]] > 0,
         place = "committed" => FALSE,
         place = "rescoring" => opportunity # NoVersion,
         ~ faulty /\ place \in Inserted \cup {"asking", "persisting"} =>
           job[w] \notin analyses
  PROVE  IInv'
<1>1. \A x \in Workers : pc'[x] = IF x = w THEN place ELSE pc[x]
  BY DEF IInv, TypeOK
<1>2. TypeOK'
  BY <1>1 DEF IInv, TypeOK
<1>3. ScoresAreBacked'
  BY DEF IInv, TypeOK, ScoresAreBacked, Persisted
<1>4. RunsFirst' /\ Persisted'
  <2>1. \A x \in Workers : pc'[x] \in Asked => modelRuns'[job[x]] > 0
    <3>1. \A x \in Workers : pc[x] \in Asked => job[x] \in Versions
      BY DEF IInv, TypeOK, Asked
    <3>2. QED BY <1>1, <3>1 DEF IInv, RunsFirst
  <2>2. QED BY <1>1, <2>1 DEF IInv, RunsFirst, Persisted
<1>5. Alone' /\ Unanalysed'
  BY <1>1 DEF IInv, Alone, Unanalysed
<1>6. QED BY <1>2, <1>3, <1>4, <1>5 DEF IInv

\* The commit of an Analysis and of the score.
LEMMA ScorePreserves ==
  ASSUME IInv, NEW w \in Workers, pc[w] \in Inserted,
         Goto(w, "committed"), analyses' = analyses \cup {job[w]}, opportunity' = job[w],
         UNCHANGED <<modelRuns, completed, jobs, job, marker, faulty>>
  PROVE  IInv'
<1>1. job[w] \in Versions /\ modelRuns[job[w]] > 0 /\ pc[w] # "idle"
  BY DEF IInv, TypeOK, RunsFirst, Asked, Inserted
<1>2. \A x \in Workers : pc'[x] = IF x = w THEN "committed" ELSE pc[x]
  BY DEF IInv, TypeOK, Goto
<1>3. TypeOK'
  BY <1>1, <1>2 DEF IInv, TypeOK, Goto, Pcs
<1>4. opportunity' # NoVersion
  BY <1>1, VersionAssumption
<1>5. ScoresAreBacked'
  BY <1>1, <1>4 DEF IInv, ScoresAreBacked
<1>6. RunsFirst' /\ Persisted'
  BY <1>1, <1>2, <1>4 DEF IInv, RunsFirst, Persisted
<1>7. Alone'
  BY <1>1, <1>2 DEF IInv, Alone
<1>8. Unanalysed'
  <2> SUFFICES ASSUME ~ faulty, NEW x \in Workers,
                      pc'[x] \in Inserted \cup {"asking", "persisting"}
               PROVE  job[x] \notin analyses \cup {job[w]}
    BY DEF Unanalysed
  <2>1. x # w /\ pc[x] = pc'[x] /\ pc[x] # "idle"
    BY <1>2 DEF Inserted
  <2>2. job[x] # job[w]
    BY <1>1, <2>1 DEF IInv, Alone
  <2>3. job[x] \notin analyses
    BY <2>1 DEF IInv, Unanalysed
  <2>4. QED BY <2>2, <2>3
<1>9. QED BY <1>3, <1>5, <1>6, <1>7, <1>8 DEF IInv

LEMMA WorkPreserves ==
  ASSUME IInv, NEW w \in Workers, Work(w), UNCHANGED faulty
  PROVE  IInv'
<1> USE DEF Goto, Settle, database
<1>1. pc[w] # "idle" => job[w] \in Versions
  BY DEF IInv, TypeOK
<1>2. \A m \in Markers : [marker EXCEPT ![w] = m] \in [Workers -> Markers]
  BY DEF IInv, TypeOK
<1>3. marker \in [Workers -> Markers] /\ modelRuns \in [Versions -> 0 .. MaxSpend]
  BY DEF IInv, TypeOK
<1>4. "done" \in Pcs \ {"idle"} /\ "done" \notin Asked /\ "done" \notin Inserted
  BY DEF Pcs, Asked, Inserted
<1>5. CASE LoadSubject(w)
  <2>1. CASE pc' = [pc EXCEPT ![w] = "asking"] /\ job[w] \notin analyses
             /\ marker' = marker
    <3>1. "asking" \in Pcs \ {"idle"} /\ "asking" \notin Asked
      BY DEF Pcs, Asked
    <3>2. QED BY <1>3, <1>5, <2>1, <3>1, StepPreserves DEF LoadSubject
  <2>2. ASSUME NEW m \in Markers, Settle(w, m) PROVE IInv'
    BY <1>2, <1>3, <1>4, <1>5, <2>2, StepPreserves DEF LoadSubject
  <2>3. "already_done" \in Markers /\ "unscorable" \in Markers
    BY DEF Markers
  <2>4. QED BY <1>5, <2>1, <2>2, <2>3 DEF LoadSubject
<1>6. CASE AskModel(w)
  <2>1. /\ job[w] \in Versions /\ pc[w] = "asking" /\ modelRuns'[job[w]] > 0
        /\ modelRuns' \in [Versions -> 0 .. MaxSpend]
        /\ \A v \in Versions : modelRuns[v] > 0 => modelRuns'[v] > 0
    BY <1>1, <1>3, <1>6, SpendAssumption DEF AskModel
  <2>2. ~ faulty => job[w] \notin analyses
    BY <2>1 DEF IInv, Unanalysed
  <2>3. CASE pc' = [pc EXCEPT ![w] = "persisting"] /\ marker' = marker
    <3>1. "persisting" \in Pcs \ {"idle"}
      BY DEF Pcs
    <3>2. QED BY <1>3, <1>6, <2>1, <2>2, <2>3, <3>1, StepPreserves DEF AskModel
  <2>4. CASE Settle(w, "analysis_failed")
    <3>1. "analysis_failed" \in Markers
      BY DEF Markers
    <3>2. QED BY <1>2, <1>3, <1>4, <1>6, <2>1, <2>4, <3>1, StepPreserves DEF AskModel
  <2>5. QED BY <1>6, <2>3, <2>4 DEF AskModel
<1>7. CASE InsertAnalysis(w)
  <2>1. pc[w] = "persisting" /\ modelRuns[job[w]] > 0
    BY <1>7 DEF InsertAnalysis, IInv, RunsFirst, Asked
  <2>2. CASE job[w] \in analyses
    <3>1. "already_done" \in Markers
      BY DEF Markers
    <3>2. QED BY <1>2, <1>3, <1>4, <1>7, <2>1, <2>2, <3>1, StepPreserves DEF InsertAnalysis
  <2>3. CASE job[w] \notin analyses
    <3>1. "inserted" \in Pcs \ {"idle"}
      BY DEF Pcs
    <3>2. QED BY <1>3, <1>7, <2>1, <2>3, <3>1, StepPreserves DEF InsertAnalysis
  <2>4. QED BY <2>2, <2>3
<1>8. CASE SelectOpportunity(w)
  <2>1. /\ pc[w] = "inserted" /\ modelRuns[job[w]] > 0
        /\ ~ faulty => job[w] \notin analyses
    BY <1>8 DEF SelectOpportunity, IInv, RunsFirst, Asked, Unanalysed, Inserted
  <2>2. "creating" \in Pcs \ {"idle"} /\ "rescoring" \in Pcs \ {"idle"}
    BY DEF Pcs
  <2>3. CASE opportunity = NoVersion
    BY <1>3, <1>8, <2>1, <2>2, <2>3, StepPreserves DEF SelectOpportunity
  <2>4. CASE opportunity # NoVersion
    BY <1>3, <1>8, <2>1, <2>2, <2>4, StepPreserves DEF SelectOpportunity
  <2>5. QED BY <2>3, <2>4
<1>9. CASE CreateOpportunity(w)
  <2>1. pc[w] \in Inserted /\ pc[w] = "creating"
    BY <1>9 DEF CreateOpportunity, Inserted
  <2>2. CASE opportunity = NoVersion
    BY <1>9, <2>1, <2>2, ScorePreserves DEF CreateOpportunity
  <2>3. CASE opportunity # NoVersion
    <3>1. "already_done" \in Markers
      BY DEF Markers
    <3>2. QED BY <1>2, <1>3, <1>4, <1>9, <2>1, <2>3, <3>1, StepPreserves
              DEF CreateOpportunity
  <2>4. QED BY <2>2, <2>3
<1>10. CASE RescoreOpportunity(w)
  <2>1. pc[w] \in Inserted
    BY <1>10 DEF RescoreOpportunity, Inserted
  <2>2. QED BY <1>10, <2>1, ScorePreserves DEF RescoreOpportunity
<1>11. CASE PublishCompleted(w)
  <2>1. "scored" \in Markers
    BY DEF Markers
  <2>2. QED BY <1>2, <1>3, <1>4, <1>11, <2>1, StepPreserves DEF PublishCompleted
<1>12. CASE FinishJob(w)
  BY <1>12, LeavePreserves
<1>13. QED BY <1>5, <1>6, <1>7, <1>8, <1>9, <1>10, <1>11, <1>12 DEF Work

LEMMA NextIInv == IInv /\ [Next]_<<vars, faulty>> => IInv'
<1> SUFFICES ASSUME IInv, [Next]_<<vars, faulty>> PROVE IInv'
  OBVIOUS
<1>1. ASSUME NEW v \in Versions, Request(v) \/ LeaseExpires(v), UNCHANGED faulty
      PROVE  IInv'
  BY <1>1, QueuePreserves
<1>2. ASSUME NEW w \in Workers, NEW v \in Versions, TakeJob(w, v), UNCHANGED faulty
      PROVE  IInv'
  BY <1>2, TakeJobPreserves
<1>3. ASSUME NEW w \in Workers, Work(w), UNCHANGED faulty PROVE IInv'
  BY <1>3, WorkPreserves
<1>4. ASSUME NEW w \in Workers, Crash(w), UNCHANGED faulty PROVE IInv'
  BY <1>4, LeavePreserves
<1>5. CASE UNCHANGED <<vars, faulty>>
  BY <1>5 DEF vars, database, IInv, TypeOK, ScoresAreBacked, RunsFirst, Persisted, Alone,
              Unanalysed
<1>6. QED BY <1>1, <1>2, <1>3, <1>4, <1>5 DEF Next

-----------------------------------------------------------------------------
\* For any number of versions and workers, the analysis jobs stay within their
\* states.
THEOREM ScoringIsTyped == Spec => []TypeOK
<1>1. IInv => TypeOK
  BY DEF IInv
<1>2. QED BY <1>1, InitIInv, NextIInv, PTL DEF Spec

\* An Opportunity is scored by a committed Analysis, an Analysis has its Model
\* Run and its Opportunity, and completion is published of committed Analyses
\* only, with any crashes and lost leases.
THEOREM EveryScoreIsBacked == Spec => []ScoresAreBacked
<1>1. IInv => ScoresAreBacked
  BY DEF IInv
<1>2. QED BY <1>1, InitIInv, NextIInv, PTL DEF Spec

-----------------------------------------------------------------------------
(* What is asked of the models while no lease is lost.                     *)

\* A version that has its Model Run and no Analysis lost the race for the
\* Opportunity, which is there: the next result re-scores it.
Spare(v) == modelRuns[v] = 0 \/ (modelRuns[v] = 1 /\ opportunity # NoVersion)

\* The result of a Model Run is at hand and not yet committed.
Pending == Inserted \cup {"persisting"}

\* A Model Run that led to no Analysis is spare, or a job is at its result; one
\* that finds no Opportunity has asked once.
SpendCounted ==
  ~ faulty =>
    /\ \A w \in Workers :
         /\ pc[w] = "asking" => Spare(job[w])
         /\ pc[w] \in {"persisting", "inserted"} =>
              modelRuns[job[w]] = 1 \/ opportunity # NoVersion
         /\ pc[w] = "creating" => modelRuns[job[w]] = 1
    /\ \A v \in Versions \ analyses :
         Spare(v) \/ \E w \in Workers : job[w] = v /\ pc[w] \in Pending

LEMMA SpendStep ==
  ASSUME IInv, SpendCounted, [Next]_<<vars, faulty>>
  PROVE  SpendCounted'
<1> SUFFICES ASSUME ~ faulty, Next PROVE SpendCounted'
  <2>1. CASE UNCHANGED <<vars, faulty>>
    BY <2>1 DEF vars, database, SpendCounted, Spare
  <2>2. CASE Next
    BY <2>2 DEF Next, SpendCounted
  <2>3. QED BY <2>1, <2>2
<1> USE DEF Goto, Settle, database
<1>1. /\ \A w \in Workers :
           /\ pc[w] = "asking" => Spare(job[w])
           /\ pc[w] \in {"persisting", "inserted"} =>
                modelRuns[job[w]] = 1 \/ opportunity # NoVersion
           /\ pc[w] = "creating" => modelRuns[job[w]] = 1
      /\ \A v \in Versions \ analyses :
           Spare(v) \/ \E w \in Workers : job[w] = v /\ pc[w] \in Pending
  BY DEF SpendCounted
<1>2. \A w \in Workers : pc[w] # "idle" =>
        /\ job[w] \in Versions
        /\ \A x \in Workers \ {w} : pc[x] # "idle" => job[x] # job[w]
        /\ pc[w] \in Pending \cup {"asking"} => job[w] \notin analyses
  BY DEF IInv, TypeOK, Alone, Unanalysed, Pending
<1>3. ASSUME NEW w \in Workers, NEW v \in Versions, TakeJob(w, v)
      PROVE  SpendCounted'
  <2>1. /\ UNCHANGED <<analyses, modelRuns, opportunity>>
        /\ pc[w] = "idle" /\ pc'[w] = "taken"
        /\ \A x \in Workers \ {w} : pc'[x] = pc[x] /\ job'[x] = job[x]
    BY <1>3 DEF TakeJob, IInv, TypeOK
  <2>2. QED BY <1>1, <2>1 DEF SpendCounted, Spare, Pending, Inserted
<1>4. ASSUME NEW w \in Workers, FinishJob(w) \/ PublishCompleted(w)
      PROVE  SpendCounted'
  <2>1. /\ UNCHANGED <<analyses, modelRuns, opportunity>>
        /\ pc[w] \in {"done", "committed"} /\ pc'[w] \in {"idle", "done"}
    BY <1>4 DEF FinishJob, PublishCompleted, IInv, TypeOK
  <2>2. \A x \in Workers \ {w} : pc'[x] = pc[x] /\ job'[x] = job[x]
    BY <1>4 DEF FinishJob, PublishCompleted, IInv, TypeOK
  <2>3. QED BY <1>1, <2>1, <2>2 DEF SpendCounted, Spare, Pending, Inserted
\* The job of an unanalysed version finds no other that works on it.
<1>5. ASSUME NEW w \in Workers, LoadSubject(w) PROVE SpendCounted'
  <2>1. /\ UNCHANGED <<analyses, modelRuns, opportunity, job>> /\ pc[w] = "taken"
        /\ pc'[w] \in {"asking", "done"}
        /\ pc'[w] = "asking" => job[w] \notin analyses
        /\ \A x \in Workers \ {w} : pc'[x] = pc[x]
    BY <1>5 DEF LoadSubject, IInv, TypeOK
  <2>2. pc'[w] = "asking" => Spare(job[w])
    BY <1>1, <1>2, <2>1 DEF Pending, Inserted
  <2>3. QED BY <1>1, <2>1, <2>2 DEF SpendCounted, Spare, Pending, Inserted
<1>6. ASSUME NEW w \in Workers, AskModel(w) PROVE SpendCounted'
  <2>1. /\ UNCHANGED <<analyses, opportunity, job>>
        /\ pc[w] = "asking" /\ pc'[w] = "persisting" /\ job[w] \in Versions
        /\ \A x \in Workers \ {w} : pc'[x] = pc[x]
        /\ \A v \in Versions :
             modelRuns'[v] = IF v = job[w] THEN modelRuns[v] + 1 ELSE modelRuns[v]
    BY <1>2, <1>6 DEF AskModel, IInv, TypeOK
  <2>2. modelRuns'[job[w]] = 1 \/ opportunity' # NoVersion
    BY <1>1, <2>1 DEF Spare
  <2>3. \A x \in Workers \ {w} :
          pc[x] # "idle" => modelRuns'[job[x]] = modelRuns[job[x]]
    BY <1>2, <2>1
  <2>4. \A x \in Workers : /\ pc'[x] = "asking" => Spare(job[x])'
                           /\ pc'[x] \in {"persisting", "inserted"} =>
                                modelRuns'[job[x]] = 1 \/ opportunity' # NoVersion
                           /\ pc'[x] = "creating" => modelRuns'[job[x]] = 1
    BY <1>1, <2>1, <2>2, <2>3 DEF Spare
  <2>5. ASSUME NEW v \in Versions \ analyses
        PROVE  Spare(v)' \/ \E x \in Workers : job'[x] = v /\ pc'[x] \in Pending
    <3>1. CASE v = job[w]
      BY <2>1, <3>1 DEF Pending
    <3>2. CASE v # job[w]
      BY <1>1, <2>1, <3>2 DEF Spare, Pending, Inserted
    <3>3. QED BY <3>1, <3>2
  <2>6. QED BY <2>1, <2>4, <2>5 DEF SpendCounted, Pending
<1>7. ASSUME NEW w \in Workers, InsertAnalysis(w) PROVE SpendCounted'
  <2>1. /\ UNCHANGED <<analyses, modelRuns, opportunity, job>>
        /\ pc[w] = "persisting" /\ pc'[w] = "inserted"
        /\ \A x \in Workers \ {w} : pc'[x] = pc[x]
    BY <1>2, <1>7 DEF InsertAnalysis, IInv, TypeOK, Pending
  <2>2. QED BY <1>1, <2>1 DEF SpendCounted, Spare, Pending, Inserted
<1>8. ASSUME NEW w \in Workers, SelectOpportunity(w) PROVE SpendCounted'
  <2>1. /\ UNCHANGED <<analyses, modelRuns, opportunity, job>>
        /\ pc[w] = "inserted" /\ pc'[w] \in {"creating", "rescoring"}
        /\ pc'[w] = "creating" => opportunity = NoVersion
        /\ \A x \in Workers \ {w} : pc'[x] = pc[x]
    BY <1>8 DEF SelectOpportunity, IInv, TypeOK
  <2>2. QED BY <1>1, <2>1 DEF SpendCounted, Spare, Pending, Inserted
<1>9. ASSUME NEW w \in Workers, CreateOpportunity(w) \/ RescoreOpportunity(w)
      PROVE  SpendCounted'
  <2>1. CASE CreateOpportunity(w) /\ opportunity # NoVersion
    <3>1. /\ UNCHANGED <<analyses, modelRuns, opportunity, job>>
          /\ pc[w] = "creating" /\ pc'[w] = "done"
          /\ \A x \in Workers \ {w} : pc'[x] = pc[x]
      BY <2>1 DEF CreateOpportunity, IInv, TypeOK
    <3>2. Spare(job[w])
      BY <1>1, <2>1, <3>1 DEF Spare
    <3>3. QED BY <1>1, <3>1, <3>2 DEF SpendCounted, Spare, Pending, Inserted
  <2>2. CASE RescoreOpportunity(w) \/ opportunity = NoVersion
    <3>1. /\ UNCHANGED <<modelRuns, job>>
          /\ analyses' = analyses \cup {job[w]} /\ opportunity' = job[w]
          /\ pc[w] \in Pending /\ pc'[w] = "committed"
          /\ \A x \in Workers \ {w} : pc'[x] = pc[x]
      BY <1>9, <2>2 DEF CreateOpportunity, RescoreOpportunity, IInv, TypeOK,
                        Pending, Inserted
    <3>2. opportunity' # NoVersion
      BY <1>2, <3>1, VersionAssumption DEF Pending, Inserted
    <3>3. QED BY <1>1, <3>1, <3>2 DEF SpendCounted, Spare, Pending, Inserted
  <2>3. QED BY <1>9, <2>1, <2>2
<1>10. ASSUME NEW v \in Versions, Request(v) PROVE SpendCounted'
  BY <1>10 DEF Request, SpendCounted, Spare
<1>11. QED BY <1>3, <1>4, <1>5, <1>6, <1>7, <1>8, <1>9, <1>10
           DEF Next, Work, Crash, LeaseExpires

\* As long as no lease is lost and no model fails, no model is asked about a
\* version that has its Analysis, and about none a third time; a second time
\* only when the first result lost the race for the Opportunity
\* (run_conversation_analysis on IntegrityError).
THEOREM SpendingIsNeeded == Spec => []SpendIsNeeded
<1>1. Init => SpendCounted
  BY DEF Init, SpendCounted, Spare
<1>2. IInv /\ SpendCounted => SpendIsNeeded
  BY DEF IInv, ScoresAreBacked, Unanalysed, SpendCounted, Spare, SpendIsNeeded
<1>3. QED BY <1>1, <1>2, InitIInv, NextIInv, SpendStep, PTL DEF Spec

-----------------------------------------------------------------------------
(* Refinement: OpportunityScoring implements ScoreBoard.                    *)

\* Of the jobs that overlap on one version, one has its Analysis inserted, and
\* none while another has committed it (uq_analyses_idempotency).
OneInserted ==
  \A w \in Workers : pc[w] \in Inserted =>
    /\ job[w] \notin analyses
    /\ \A x \in Workers \ {w} : pc[x] \in Inserted => job[x] # job[w]

LEMMA OneInsertedStep ==
  ASSUME IInv, OneInserted, [Next]_<<vars, faulty>>
  PROVE  OneInserted'
<1> USE DEF Goto, Settle, database
<1>1. ASSUME NEW w \in Workers,
             \/ \E v \in Versions : TakeJob(w, v)
             \/ LoadSubject(w) \/ AskModel(w) \/ PublishCompleted(w)
             \/ FinishJob(w) \/ Crash(w)
      PROVE  OneInserted'
  <2>1. /\ pc'[w] \notin Inserted /\ analyses' = analyses
        /\ \A x \in Workers \ {w} : pc'[x] = pc[x] /\ job'[x] = job[x]
    BY <1>1 DEF TakeJob, LoadSubject, AskModel, PublishCompleted, FinishJob,
                Crash, IInv, TypeOK, Inserted
  <2>2. QED BY <2>1 DEF OneInserted
<1>2. ASSUME NEW w \in Workers, InsertAnalysis(w) PROVE OneInserted'
  <2>1. CASE job[w] \in analyses
    <3>1. /\ pc'[w] \notin Inserted /\ UNCHANGED <<analyses, job>>
          /\ \A x \in Workers \ {w} : pc'[x] = pc[x]
      BY <1>2, <2>1 DEF InsertAnalysis, IInv, TypeOK, Inserted
    <3>2. QED BY <3>1 DEF OneInserted
  <2>2. CASE job[w] \notin analyses
    <3>1. /\ UNCHANGED <<analyses, job>>
          /\ \A x \in Workers \ {w} : /\ pc'[x] = pc[x]
                                      /\ pc[x] \in Inserted => job[x] # job[w]
      BY <1>2, <2>2 DEF InsertAnalysis, IInv, TypeOK
    <3>2. QED BY <2>2, <3>1 DEF OneInserted
  <2>3. QED BY <2>1, <2>2
<1>3. ASSUME NEW w \in Workers, SelectOpportunity(w) PROVE OneInserted'
  <2>1. /\ pc[w] \in Inserted /\ UNCHANGED <<analyses, job>>
        /\ \A x \in Workers \ {w} : pc'[x] = pc[x]
    BY <1>3 DEF SelectOpportunity, IInv, TypeOK, Inserted
  <2>2. QED BY <2>1 DEF OneInserted
<1>4. ASSUME NEW w \in Workers, CreateOpportunity(w) \/ RescoreOpportunity(w)
      PROVE  OneInserted'
  <2>1. /\ pc[w] \in Inserted /\ pc'[w] \notin Inserted /\ job' = job
        /\ analyses' \subseteq analyses \cup {job[w]}
        /\ \A x \in Workers \ {w} : pc'[x] = pc[x]
    BY <1>4 DEF CreateOpportunity, RescoreOpportunity, IInv, TypeOK, Inserted
  <2>2. QED BY <2>1 DEF OneInserted
<1>5. ASSUME NEW v \in Versions, Request(v) \/ LeaseExpires(v)
      PROVE  OneInserted'
  BY <1>5 DEF Request, LeaseExpires, OneInserted
<1>6. CASE UNCHANGED <<vars, faulty>>
  BY <1>6 DEF vars, OneInserted
<1>7. QED BY <1>1, <1>2, <1>3, <1>4, <1>5, <1>6 DEF Next, Work

\* Every step pays for, scores or announces one version, or leaves the board as
\* it is.
LEMMA BoardStep ==
  ASSUME IInv, OneInserted, [Next]_<<vars, faulty>>
  PROVE  [Board!Next]_(Board!vars)
<1> SUFFICES Board!Next \/ UNCHANGED Board!vars
  OBVIOUS
<1> USE DEF database, Board!vars, Board!Next
<1>1. ASSUME NEW w \in Workers, AskModel(w)
      PROVE  Board!Next \/ UNCHANGED Board!vars
  <2>1. /\ job[w] \in Versions
        /\ modelRuns' = [modelRuns EXCEPT ![job[w]] = @ + 1]
        /\ UNCHANGED <<analyses, opportunity, completed>>
    BY <1>1 DEF AskModel, IInv, TypeOK
  <2>2. QED BY <2>1 DEF Board!Pay
<1>2. ASSUME NEW w \in Workers, CreateOpportunity(w) \/ RescoreOpportunity(w)
      PROVE  Board!Next \/ UNCHANGED Board!vars
  <2>1. CASE opportunity # NoVersion /\ CreateOpportunity(w)
    BY <2>1 DEF CreateOpportunity
  <2>2. CASE opportunity = NoVersion \/ ~ CreateOpportunity(w)
    <3>1. job[w] \in Versions /\ modelRuns[job[w]] > 0 /\ job[w] \notin analyses
      BY <1>2 DEF CreateOpportunity, RescoreOpportunity, IInv, TypeOK,
                  RunsFirst, Asked, OneInserted, Inserted
    <3>2. /\ analyses' = analyses \cup {job[w]} /\ opportunity' = job[w]
          /\ UNCHANGED <<modelRuns, completed>>
      BY <1>2, <2>2 DEF CreateOpportunity, RescoreOpportunity
    <3>3. QED BY <3>1, <3>2 DEF Board!Score
  <2>3. QED BY <2>1, <2>2
<1>3. ASSUME NEW w \in Workers, PublishCompleted(w)
      PROVE  Board!Next \/ UNCHANGED Board!vars
  <2>1. job[w] \in Versions /\ job[w] \in analyses
    BY <1>3 DEF PublishCompleted, IInv, TypeOK, Persisted
  <2>2. /\ completed' = completed \cup {job[w]}
        /\ UNCHANGED <<modelRuns, analyses, opportunity>>
    BY <1>3 DEF PublishCompleted
  <2>3. QED BY <2>1, <2>2 DEF Board!Announce
<1>4. ASSUME NEW w \in Workers,
             \/ \E v \in Versions : TakeJob(w, v)
             \/ LoadSubject(w) \/ InsertAnalysis(w) \/ SelectOpportunity(w)
             \/ FinishJob(w) \/ Crash(w)
      PROVE  UNCHANGED Board!vars
  BY <1>4 DEF TakeJob, LoadSubject, InsertAnalysis, SelectOpportunity,
              FinishJob, Crash
<1>5. ASSUME NEW v \in Versions, Request(v) \/ LeaseExpires(v)
      PROVE  UNCHANGED Board!vars
  BY <1>5 DEF Request, LeaseExpires
<1>6. CASE UNCHANGED <<vars, faulty>>
  BY <1>6 DEF vars
<1>7. QED BY <1>1, <1>2, <1>3, <1>4, <1>5, <1>6 DEF Next, Work

\* For any number of versions and workers, with any crashes and lost leases,
\* every Model Run stays on record, and a version is scored once, after one of
\* them, in one transaction with the Opportunity (_persist_scored). How often a
\* version is paid for is not bounded by this: see SpendingIsNeeded.
THEOREM BoardIsKept == Spec => ScoresEachOnce
<1>1. Init => Board!Init /\ OneInserted
  BY DEF Init, Board!Init, OneInserted, Inserted
<1>2. QED
  BY <1>1, InitIInv, NextIInv, OneInsertedStep, BoardStep, PTL
     DEF Spec, ScoresEachOnce, Board!Spec

-----------------------------------------------------------------------------
(* What giving way costs.                                                  *)

\* A job that gives way as already_done gives way to a score that is there, if
\* not always to one of its own version: the other way to settle so is a lost
\* race for the conversation's Opportunity.
GivesWayToAScore ==
  \A w \in Workers :
    pc[w] = "done" /\ marker[w] = "already_done" => opportunity # NoVersion

\* A job that has settled without the model failing has left a score, unless
\* its version has none to give.
SettledWithAScore ==
  \A w \in Workers :
    pc[w] \in {"committed", "done"} /\ job[w] \notin Undated /\ ~ faulty =>
      opportunity # NoVersion

GivingWay == GivesWayToAScore /\ SettledWithAScore

LEMMA GivingWayStep ==
  ASSUME IInv, GivingWay, [Next]_<<vars, faulty>>
  PROVE  GivingWay'
<1> USE DEF Goto, Settle, database
<1> DEFINE Steps(w) ==
      \/ LoadSubject(w) \/ AskModel(w) \/ InsertAnalysis(w)
      \/ SelectOpportunity(w) \/ CreateOpportunity(w) \/ RescoreOpportunity(w)
      \/ PublishCompleted(w)
\* The Opportunity stays once it is there.
<1>1. opportunity # NoVersion => opportunity' # NoVersion
  <2>1. ASSUME NEW w \in Workers, CreateOpportunity(w) \/ RescoreOpportunity(w)
        PROVE  opportunity # NoVersion => opportunity' # NoVersion
    BY <2>1, VersionAssumption
       DEF CreateOpportunity, RescoreOpportunity, IInv, TypeOK
  <2>2. ASSUME ~ \E w \in Workers : CreateOpportunity(w) \/ RescoreOpportunity(w)
        PROVE  opportunity' = opportunity
    BY <2>2
       DEF Next, vars, Work, TakeJob, LoadSubject, AskModel, InsertAnalysis,
           SelectOpportunity, PublishCompleted, FinishJob, Crash, Request,
           LeaseExpires
  <2>3. QED BY <2>1, <2>2
<1>2. ASSUME NEW w \in Workers, Steps(w), pc'[w] \in {"committed", "done"}
      PROVE  /\ pc'[w] = "done" /\ marker'[w] = "already_done" =>
                  opportunity' # NoVersion
             /\ job[w] \notin Undated /\ ~ faulty => opportunity' # NoVersion
  <2>1. CASE LoadSubject(w)
    BY <1>1, <1>2, <2>1 DEF LoadSubject, IInv, TypeOK, ScoresAreBacked
  <2>2. CASE AskModel(w)
    BY <1>2, <2>2 DEF AskModel, IInv, TypeOK
  <2>3. CASE InsertAnalysis(w)
    BY <1>1, <1>2, <2>3 DEF InsertAnalysis, IInv, TypeOK, ScoresAreBacked
  <2>4. CASE SelectOpportunity(w)
    BY <1>2, <2>4 DEF SelectOpportunity, IInv, TypeOK
  <2>5. CASE CreateOpportunity(w) \/ RescoreOpportunity(w)
    <3>1. job[w] \in Versions
      BY <2>5 DEF CreateOpportunity, RescoreOpportunity, IInv, TypeOK
    <3>2. QED
      BY <1>1, <2>5, <3>1, VersionAssumption
         DEF CreateOpportunity, RescoreOpportunity
  <2>6. CASE PublishCompleted(w)
    <3>1. opportunity # NoVersion
      BY <2>6 DEF PublishCompleted, IInv, Persisted, ScoresAreBacked
    <3>2. QED BY <1>1, <3>1
  <2>7. QED BY <1>2, <2>1, <2>2, <2>3, <2>4, <2>5, <2>6
<1>3. ASSUME NEW w \in Workers, Steps(w) PROVE GivingWay'
  <2>1. /\ UNCHANGED job
        /\ \A x \in Workers \ {w} : pc'[x] = pc[x] /\ marker'[x] = marker[x]
        /\ UNCHANGED faulty
    BY <1>3 DEF LoadSubject, AskModel, InsertAnalysis, SelectOpportunity,
                CreateOpportunity, RescoreOpportunity, PublishCompleted,
                IInv, TypeOK, Next, vars
  <2> HIDE DEF Steps
  <2>2. QED BY <1>1, <1>2, <1>3, <2>1
            DEF GivingWay, GivesWayToAScore, SettledWithAScore
<1>4. ASSUME NEW w \in Workers,
             (\E v \in Versions : TakeJob(w, v)) \/ FinishJob(w) \/ Crash(w)
      PROVE  GivingWay'
  <2>1. /\ pc'[w] \in {"taken", "idle"} /\ UNCHANGED faulty
        /\ \A x \in Workers \ {w} :
             pc'[x] = pc[x] /\ marker'[x] = marker[x] /\ job'[x] = job[x]
    BY <1>4 DEF TakeJob, FinishJob, Crash, IInv, TypeOK, Next, vars
  <2>2. QED BY <1>1, <2>1 DEF GivingWay, GivesWayToAScore, SettledWithAScore
<1>5. CASE UNCHANGED <<pc, marker, job, faulty>>
  BY <1>1, <1>5 DEF GivingWay, GivesWayToAScore, SettledWithAScore
<1>6. ASSUME NEW v \in Versions, Request(v) \/ LeaseExpires(v), UNCHANGED faulty
      PROVE  GivingWay'
  BY <1>5, <1>6 DEF Request, LeaseExpires
<1>7. QED BY <1>3, <1>4, <1>5, <1>6 DEF Next, Work, vars

\* Whatever overlaps and whoever dies, a job that gives way leaves the
\* conversation with a score (run_conversation_analysis on IntegrityError): what
\* is lost is the score of its version, never that of the conversation.
THEOREM GivingWayLeavesAScore == Spec => []GivesWayToAScore
<1>1. Init => GivingWay
  BY DEF Init, GivingWay, GivesWayToAScore, SettledWithAScore
<1>2. GivingWay => GivesWayToAScore
  BY DEF GivingWay
<1>3. QED BY <1>1, <1>2, InitIInv, NextIInv, GivingWayStep, PTL DEF Spec

\* Without faults no requested version is let go before the conversation has a
\* score: with fair workers that is all OpportunityAppears needs.
NoRequestIsDropped ==
  [][\A v \in Versions \ Undated :
       ~ faulty /\ jobs[v] # "absent" /\ jobs'[v] = "absent" =>
         opportunity # NoVersion]_<<vars, faulty>>

THEOREM RequestsAreKept == Spec => NoRequestIsDropped
<1> DEFINE Kept == \A v \in Versions \ Undated :
             ~ faulty /\ jobs[v] # "absent" /\ jobs'[v] = "absent" =>
               opportunity # NoVersion
<1>1. Init => GivingWay
  BY DEF Init, GivingWay, GivesWayToAScore, SettledWithAScore
<1>2. IInv /\ GivingWay /\ [Next]_<<vars, faulty>> => [Kept]_<<vars, faulty>>
  <2> SUFFICES ASSUME IInv, GivingWay, Next, NEW v \in Versions \ Undated,
                      ~ faulty, jobs[v] # "absent", jobs'[v] = "absent"
               PROVE  opportunity # NoVersion
    OBVIOUS
  <2>1. PICK w \in Workers : FinishJob(w)
    <3>1. ASSUME NEW u \in Versions, Request(u) PROVE FALSE
      BY <3>1 DEF Request, IInv, TypeOK
    <3>2. ASSUME NEW w \in Workers, NEW u \in Versions, TakeJob(w, u) PROVE FALSE
      BY <3>2 DEF TakeJob, IInv, TypeOK
    <3>3. ASSUME ~ \E w \in Workers : FinishJob(w) PROVE jobs' = jobs
      BY <3>1, <3>2, <3>3
         DEF Next, Work, LoadSubject, AskModel, InsertAnalysis,
             SelectOpportunity, CreateOpportunity, RescoreOpportunity,
             PublishCompleted, Crash, LeaseExpires
    <3>4. QED BY <3>3
  <2>2. job[w] = v /\ pc[w] = "done"
    BY <2>1 DEF FinishJob, IInv, TypeOK
  <2>3. QED BY <2>2 DEF GivingWay, SettledWithAScore
<1>3. QED BY <1>1, <1>2, InitIInv, NextIInv, GivingWayStep, PTL
          DEF Spec, NoRequestIsDropped
=============================================================================
