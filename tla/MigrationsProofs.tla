-------------------------- MODULE MigrationsProofs --------------------------
(***************************************************************************)
(* Proofs about Migrations. A downgrade that drops a table has counted the *)
(* evidence in it, so whatever evidence it removes was committed after the *)
(* count; the inductive invariant IInv follows a row from the count to the *)
(* lock.                                                                   *)
(***************************************************************************)
EXTENDS Migrations, TLAPS

\* A migration that has counted, or found no objection, has a revision to cross.
Crossing == tx.pc \in {"counted", "waiting"}

\* What a session does it does for a run, and it has reached no more tables than
\* there are on its way.
Sound(job) == /\ job.step <= Len(Path(job.does))
              /\ job.does # "nothing" => job.run \in Runs
OnTheWay == \A w \in Writers : Sound(work[w])

\* Only a migration under way has anything to commit.
NothingPending == tx.pc \notin Busy => removed = {} /\ added = {}

\* What it rewrites is no evidence.
NoEvidenceAdded == \A r \in added : r.kind \notin EvidenceKinds

\* What evidence it has removed is there, and was committed in the gap.
RemovedIsLate == \A r \in removed : r.kind \in EvidenceKinds => r \in rows \cap late

\* A downgrade remembers what it has counted, and what it finds of that later
\* on was committed after the count.
CountedIsLate ==
  Crossing /\ ~ Up =>
    /\ Counted(Crossed) \subseteq tx.counted
    /\ \A r \in View : r.kind \in Counted(Crossed) => r \in late

IInv ==
  /\ TypeOK
  /\ Crossing => tx.at # tx.to
  /\ OnTheWay
  /\ NothingPending
  /\ NoEvidenceAdded
  /\ RemovedIsLate
  /\ CountedIsLate

-----------------------------------------------------------------------------
(* The revisions *)

\* Every revision locks tables that there are.
LEMMA LocksAreTables == \A n \in 1 .. 16 : Locks(n) \subseteq Tables
<1> SUFFICES ASSUME NEW n \in 1 .. 16 PROVE Locks(n) \subseteq Tables
  OBVIOUS
<1>1. Creates(n) \subseteq Tables
  BY DEF Tables, Existing, Newest
<1>2. /\ Tables0002 \subseteq Tables /\ Tables0006 \subseteq Tables
      /\ Tables0014 \subseteq Tables
  <2>1. Creates(2) = Tables0002 /\ Creates(6) = Tables0006 /\ Creates(14) = Tables0014
    BY DEF Creates
  <2>2. 2 \in 1 .. Newest /\ 6 \in 1 .. Newest /\ 14 \in 1 .. Newest
    BY DEF Newest
  <2>3. QED BY <2>1, <2>2 DEF Tables, Existing
<1>3. Alters(n) \subseteq Tables0002 \cup Tables0006 \cup Tables0014
  BY DEF Alters, Alters0005, Alters0011, Tables0002, Tables0006, Tables0014
<1>4. QED BY <1>1, <1>2, <1>3 DEF Locks

\* The evidence in the tables that a revision creates is what its downgrade
\* counts.
LEMMA EvidenceIsCounted ==
  \A n \in 1 .. 16, k \in EvidenceKinds : TableOf(k) \in Creates(n) => k \in Counted(n)
<1> SUFFICES ASSUME NEW n \in 1 .. 16, NEW k \in EvidenceKinds, TableOf(k) \in Creates(n)
             PROVE  k \in Counted(n)
  OBVIOUS
<1>1. CASE k \in ObservationKinds
  <2>1. TableOf(k) = "retrieval_observations"
    BY <1>1 DEF TableOf, ObservationKinds, DirectoryKinds
  <2>2. n = 6
    BY <2>1 DEF Creates, Tables0002, Tables0003, Tables0006, Tables0012,
                Tables0014, Tables0015
  <2>3. QED BY <1>1, <2>2 DEF Counted, Counted0006
<1>2. CASE k = "bundle"
  <2>1. TableOf(k) = "evidence_bundles"
    BY <1>2 DEF TableOf, ObservationKinds, DirectoryKinds
  <2>2. n = 12
    BY <2>1 DEF Creates, Tables0002, Tables0003, Tables0006, Tables0012,
                Tables0014, Tables0015
  <2>3. QED BY <1>2, <2>2 DEF Counted, Counted0012
<1>3. CASE k = "conversation"
  <2>1. TableOf(k) = "conversations"
    BY <1>3 DEF TableOf, ObservationKinds, DirectoryKinds
  <2>2. n = 14
    BY <2>1 DEF Creates, Tables0002, Tables0003, Tables0006, Tables0012,
                Tables0014, Tables0015
  <2>3. QED BY <1>3, <2>2 DEF Counted, Counted0014
<1>4. CASE k \in {"model run", "analysis"}
  <2>1. TableOf(k) \in {"model_runs", "analyses"}
    BY <1>4 DEF TableOf, ObservationKinds, DirectoryKinds
  <2>2. n = 15
    BY <2>1 DEF Creates, Tables0002, Tables0003, Tables0006, Tables0012,
                Tables0014, Tables0015
  <2>3. Counted(n) = {"model run", "analysis"}
    BY <2>2 DEF Counted, Counted0015
  <2>4. QED BY <1>4, <2>3
<1>5. QED BY <1>1, <1>2, <1>3, <1>4 DEF EvidenceKinds

\* What a downgrade counts is of a known kind.
LEMMA CountedAreKinds == \A n \in 1 .. 16 : Counted(n) \subseteq Kinds
  BY DEF Counted, Counted0006, Counted0012, Counted0014, Counted0015, Counted0016,
         Kinds, EvidenceKinds, ObservationKinds, DirectoryKinds

\* A transaction reaches four tables at most, and one at least.
LEMMA PathsAreShort ==
  \A does \in Jobs : /\ Len(Path(does)) \in 0 .. 4
                     /\ does # "nothing" => Len(Path(does)) >= 1
<1> SUFFICES ASSUME NEW does \in Jobs
             PROVE  /\ Len(Path(does)) \in 0 .. 4
                    /\ does # "nothing" => Len(Path(does)) >= 1
  OBVIOUS
<1>1. CASE does = "nothing"
  <2>1. Path(does) = <<>>
    BY <1>1 DEF Path
  <2>2. QED BY <1>1, <2>1
<1>2. CASE does = "start"
  <2>1. Path(does) = <<"campaigns", "discovery_runs", "audit_events">>
    BY <1>2 DEF Path
  <2>2. QED BY <2>1
<1>3. CASE does = "settle bundled"
  <2>1. Path(does) = <<"discovery_runs", "retrieval_observations",
                       "evidence_bundles", "audit_events">>
    BY <1>3 DEF Path
  <2>2. QED BY <2>1
<1>4. CASE does = "settle failed"
  <2>1. Path(does) = <<"discovery_runs", "retrieval_observations", "audit_events">>
    BY <1>4 DEF Path
  <2>2. QED BY <2>1
<1>5. CASE does = "settle native"
  <2>1. Path(does) = <<"discovery_runs", "retrieval_observations", "audit_events">>
    BY <1>5 DEF Path
  <2>2. QED BY <2>1
<1>6. CASE does = "normalize"
  <2>1. Path(does) = <<"retrieval_observations", "evidence_bundles", "conversations">>
    BY <1>6 DEF Path
  <2>2. QED BY <2>1
<1>7. CASE does = "ask"
  <2>1. Path(does) = <<"model_runs">>
    BY <1>7 DEF Path
  <2>2. QED BY <2>1
<1>8. CASE does = "score"
  <2>1. Path(does) = <<"analyses", "campaigns", "conversations">>
    BY <1>8 DEF Path
  <2>2. QED BY <2>1
<1>9. QED BY <1>1, <1>2, <1>3, <1>4, <1>5, <1>6, <1>7, <1>8 DEF Jobs

\* Keys keep their runs when they are answered or reopened.
LEMMA RekeyedIsOfRows ==
  ASSUME NEW set \in SUBSET Rows, NEW from \in Kinds, NEW to \in Kinds
  PROVE  /\ Rekeyed(set, from, to) \subseteq Rows
         /\ \A r \in Rekeyed(set, from, to) : r \in set \/ r.kind = to
         /\ \A r \in set : r.kind # from => r \in Rekeyed(set, from, to)
<1>1. \A r \in set : [r EXCEPT !.kind = to] \in Rows /\ [r EXCEPT !.kind = to].kind = to
  BY DEF Rows
<1>2. QED BY <1>1 DEF Rekeyed

\* A revision makes rows of rows, of no kind of evidence but what there was, and
\* drops no evidence that its downgrade has not counted.
LEMMA ChangedIsOfRows ==
  ASSUME TypeOK, tx.at # tx.to
  PROVE  /\ Crossed \in 1 .. 16
         /\ Reached \in Revisions
         /\ Changed \subseteq Rows
         /\ \A r \in Changed : r \in View \/ r.kind \notin EvidenceKinds
         /\ \A r \in View : r.kind \in EvidenceKinds =>
              r \in Changed \/ (~ Up /\ r.kind \in Counted(Crossed))
<1>1. tx.at \in Revisions /\ tx.to \in Revisions
  BY DEF TypeOK
<1>2. Crossed \in 1 .. 16 /\ Reached \in Revisions
  BY <1>1, tx.at # tx.to DEF Crossed, Reached, Up, Revisions, Newest
<1>3. View \in SUBSET Rows
  BY DEF View, TypeOK
<1>4. "pending" \in Kinds /\ "reconciled" \in Kinds
  BY DEF Kinds
<1>5. "pending" \notin EvidenceKinds /\ "reconciled" \notin EvidenceKinds
  BY DEF EvidenceKinds, ObservationKinds, DirectoryKinds
<1>6. CASE Up
  <2>1. Changed = Upgraded(View, Crossed)
    BY <1>6 DEF Changed
  <2>2. CASE Crossed = 4
    <3>1. Changed = Rekeyed(View, "pending", "reconciled")
      BY <2>1, <2>2 DEF Upgraded
    <3>2. QED BY <1>2, <1>3, <1>4, <1>5, <3>1, RekeyedIsOfRows
  <2>3. CASE Crossed # 4
    <3>1. Changed = View
      BY <2>1, <2>3 DEF Upgraded
    <3>2. QED BY <1>2, <1>3, <3>1
  <2>4. QED BY <2>2, <2>3
<1>7. CASE ~ Up
  <2>1. Changed = Downgraded(View, Crossed)
    BY <1>7 DEF Changed
  <2>2. CASE Crossed = 4
    <3>1. Changed = Rekeyed(View, "reconciled", "pending")
      BY <2>1, <2>2 DEF Downgraded
    <3>2. QED BY <1>2, <1>3, <1>4, <1>5, <3>1, RekeyedIsOfRows
  <2>3. CASE Crossed # 4
    <3>1. Changed = {r \in View : TableOf(r.kind) \notin Creates(Crossed)}
      BY <2>1, <2>3 DEF Downgraded
    <3>2. \A r \in View : r.kind \in EvidenceKinds => r \in Changed \/ r.kind \in Counted(Crossed)
      BY <1>2, <3>1, EvidenceIsCounted
    <3>3. QED BY <1>2, <1>3, <1>7, <3>1, <3>2
  <2>4. QED BY <2>2, <2>3
<1>8. QED BY <1>6, <1>7

-----------------------------------------------------------------------------
(* The invariant *)

LEMMA Rest ==
  AtRest \in [does : Jobs, run : Runs \cup {NoRun}, step : 0 .. 4]
    /\ Sound(AtRest)
<1>1. Len(Path("nothing")) \in 0 .. 4
  BY PathsAreShort DEF Jobs
<1>2. QED BY <1>1 DEF AtRest, Jobs, Sound

LEMMA InitIInv == Init => IInv
<1> SUFFICES ASSUME Init PROVE IInv
  OBVIOUS
<1>1. PICK l \in Legacies : revision = l[1] /\ rows = l[2]
  BY DEF Init
<1>2. revision \in Revisions /\ rows \subseteq Rows
  BY <1>1, LegacyAssumption
<1>3. \A w \in Writers : work[w] = AtRest
  BY DEF Init
<1>4. TypeOK
  BY <1>2 DEF Init, TypeOK, AtRest, Jobs, Revisions, Newest, Busy
<1>5. ~ Crossing /\ tx.pc \notin Busy
  BY DEF Init, Crossing, Busy
<1>6. OnTheWay
  BY <1>3, Rest DEF OnTheWay
<1>7. NothingPending /\ NoEvidenceAdded /\ RemovedIsLate
  BY DEF Init, NothingPending, NoEvidenceAdded, RemovedIsLate
<1>8. QED BY <1>4, <1>5, <1>6, <1>7 DEF IInv, CountedIsLate

\* The first statement, a later one or the end of a transaction that writes
\* nothing.
LEMMA AtWork ==
  ASSUME IInv, NEW w \in Writers,
         NEW value \in [does : Jobs, run : Runs \cup {NoRun}, step : 0 .. 4],
         Sound(value), Set(w, value),
         UNCHANGED <<revision, rows, tx, removed, added, late, dropped>>
  PROVE  IInv'
<1>1. work' \in [Writers -> [does : Jobs, run : Runs \cup {NoRun}, step : 0 .. 4]]
  BY DEF Set, IInv, TypeOK
<1>2. TypeOK'
  BY <1>1 DEF IInv, TypeOK, Busy
<1>3. OnTheWay'
  <2>1. \A v \in Writers : work'[v] = IF v = w THEN value ELSE work[v]
    BY DEF Set, IInv, TypeOK
  <2>2. QED BY <2>1 DEF IInv, OnTheWay
<1>4. QED
  BY <1>2, <1>3 DEF IInv, Crossing, NothingPending, NoEvidenceAdded, RemovedIsLate,
                    CountedIsLate, View, Up, Crossed, Busy

LEMMA BeginWritePreserves ==
  ASSUME IInv, NEW w \in Writers, NEW does \in Jobs \ {"nothing"}, NEW r \in Runs,
         BeginWrite(w, does, r)
  PROVE  IInv'
<1>1. 1 <= Len(Path(does))
  BY PathsAreShort
<1> DEFINE value == [does |-> does, run |-> r, step |-> 1]
<1>2. value \in [does : Jobs, run : Runs \cup {NoRun}, step : 0 .. 4] /\ Sound(value)
  BY <1>1 DEF Sound
<1>3. QED BY <1>2, AtWork DEF BeginWrite

LEMMA ReachTablePreserves ==
  ASSUME IInv, NEW w \in Writers, ReachTable(w)
  PROVE  IInv'
<1>1. work[w] \in [does : Jobs, run : Runs \cup {NoRun}, step : 0 .. 4]
  BY DEF IInv, TypeOK
<1>2. Len(Path(work[w].does)) \in 0 .. 4 /\ work[w].step <= Len(Path(work[w].does))
  BY <1>1, PathsAreShort DEF IInv, OnTheWay, Sound
<1>3. work[w].step # Len(Path(work[w].does))
  BY DEF ReachTable, Ended
<1>4. CASE Serves(work[w].does)
  <2> DEFINE value == [work[w] EXCEPT !.step = @ + 1]
  <2>1. Set(w, value)
    BY <1>4 DEF ReachTable
  <2>2. /\ value.does = work[w].does /\ value.run = work[w].run
        /\ value.step = work[w].step + 1
    BY <1>1
  <2>3. value \in [does : Jobs, run : Runs \cup {NoRun}, step : 0 .. 4]
    <3>1. work[w].step \in 0 .. 4
      BY <1>1
    <3>2. \A a, b \in 0 .. 4 : a <= b /\ a # b => a + 1 \in 0 .. 4 /\ a + 1 <= b
      OBVIOUS
    <3>3. work[w].step + 1 \in 0 .. 4
      BY <1>2, <1>3, <3>1, <3>2
    <3>4. QED BY <1>1, <3>3
  <2>4. Sound(work[w]) /\ work[w].step + 1 <= Len(Path(work[w].does))
    BY <1>1, <1>2, <1>3 DEF IInv, OnTheWay
  <2> HIDE DEF value
  <2>5. Sound(value)
    BY <2>2, <2>4 DEF Sound
  <2>6. QED BY <2>1, <2>3, <2>5, AtWork DEF ReachTable
<1>5. CASE ~ Serves(work[w].does)
  BY <1>5, Rest, AtWork DEF ReachTable
<1>6. QED BY <1>4, <1>5

LEMMA GiveUpPreserves ==
  ASSUME IInv, NEW w \in Writers, GiveUp(w)
  PROVE  IInv'
  BY Rest, AtWork DEF GiveUp

\* What is committed while a migration is under way is late if its kind has been
\* counted; nothing is committed of what the migration has removed.
LEMMA CommitWritePreserves ==
  ASSUME IInv, NEW w \in Writers, CommitWrite(w)
  PROVE  IInv'
<1> DEFINE new == {[kind |-> k, run |-> work[w].run] : k \in Written(work[w].does)}
<1>1. work[w] \in [does : Jobs, run : Runs \cup {NoRun}, step : 0 .. 4]
  BY DEF IInv, TypeOK
<1>2. work' \in [Writers -> [does : Jobs, run : Runs \cup {NoRun}, step : 0 .. 4]]
  BY Rest DEF CommitWrite, Set, IInv, TypeOK
<1>3. OnTheWay'
  <2>1. \A v \in Writers : work'[v] = IF v = w THEN AtRest ELSE work[v]
    BY DEF CommitWrite, Set, IInv, TypeOK
  <2>2. QED BY <2>1, Rest DEF IInv, OnTheWay, Sound
<1>4. new \subseteq Rows
  <2>1. work[w].does # "nothing" => work[w].run \in Runs
    BY DEF IInv, OnTheWay, Sound
  <2>2. Written(work[w].does) \subseteq Kinds
    BY DEF Written, Kinds, EvidenceKinds, ObservationKinds, DirectoryKinds
  <2>3. work[w].does = "nothing" => Written(work[w].does) = {}
    BY DEF Written
  <2>4. QED BY <2>1, <2>2, <2>3 DEF Rows
<1>5. /\ rows' = rows \cup new
      /\ late' = IF tx.pc \in Busy THEN late \cup {r \in new : r.kind \in tx.counted}
                ELSE late
      /\ UNCHANGED <<revision, tx, removed, added, dropped>>
  BY DEF CommitWrite
<1> HIDE DEF new
<1>6. TypeOK'
  BY <1>2, <1>4, <1>5 DEF IInv, TypeOK, Busy
<1>7. rows \subseteq rows' /\ late \subseteq late'
  BY <1>5
<1>8. NothingPending' /\ NoEvidenceAdded' /\ RemovedIsLate'
  BY <1>5, <1>7 DEF IInv, NothingPending, NoEvidenceAdded, RemovedIsLate, Busy
<1>9. CountedIsLate'
  <2> SUFFICES ASSUME Crossing, ~ Up
               PROVE  /\ Counted(Crossed) \subseteq tx.counted
                      /\ \A r \in View' : r.kind \in Counted(Crossed) => r \in late'
    BY <1>5 DEF CountedIsLate, Crossing, Up, Crossed
  <2>1. Counted(Crossed) \subseteq tx.counted
    BY DEF IInv, CountedIsLate
  <2>2. View' \subseteq View \cup new
    BY <1>5 DEF View
  <2>3. \A r \in View : r.kind \in Counted(Crossed) => r \in late'
    BY <1>7 DEF IInv, CountedIsLate
  <2>4. \A r \in new : r.kind \in Counted(Crossed) => r \in late'
    BY <1>5, <2>1 DEF Crossing, Busy
  <2>5. QED BY <2>1, <2>2, <2>3, <2>4
<1>10. QED BY <1>3, <1>5, <1>6, <1>8, <1>9 DEF IInv, Crossing

LEMMA BeginMigrationPreserves ==
  ASSUME IInv, NEW target \in Targets, BeginMigration(target)
  PROVE  IInv'
<1>1. target \in Revisions
  BY TargetAssumption
<1>2. tx' = [pc |-> "counting", at |-> revision, to |-> target, locked |-> {}, counted |-> {}]
  BY DEF BeginMigration
<1>3. TypeOK'
  BY <1>1, <1>2 DEF BeginMigration, IInv, TypeOK, Busy
<1>4. removed' = {} /\ added' = {}
  BY DEF BeginMigration, IInv, NothingPending
<1>5. ~ Crossing'
  BY <1>2 DEF Crossing
<1>6. OnTheWay'
  BY DEF BeginMigration, IInv, OnTheWay, Sound
<1>7. QED
  BY <1>3, <1>4, <1>5, <1>6
     DEF IInv, NothingPending, NoEvidenceAdded, RemovedIsLate, CountedIsLate

LEMMA RollBackPreserves ==
  ASSUME IInv, NEW how \in {"refused", "failed", "killed"}, RollBack(how)
  PROVE  IInv'
<1>1. tx' = [tx EXCEPT !.pc = how, !.locked = {}, !.counted = {}]
  BY DEF RollBack
<1>2. TypeOK'
  BY <1>1 DEF RollBack, IInv, TypeOK
<1>3. tx'.pc = how
  BY <1>1 DEF IInv, TypeOK
<1>4. ~ Crossing'
  BY <1>3 DEF Crossing
<1>5. QED
  BY <1>2, <1>4 DEF RollBack, IInv, OnTheWay, Sound, NothingPending, NoEvidenceAdded,
                    RemovedIsLate, CountedIsLate

\* A downgrade that goes on after its count has found nothing.
LEMMA CountPreserves == ASSUME IInv, Count PROVE IInv'
<1>1. CASE Refused
  BY <1>1, RollBackPreserves DEF Count
<1>2. CASE ~ Refused
  <2>1. /\ tx' = [tx EXCEPT !.pc = "counted",
                  !.counted = @ \cup (IF Up THEN {} ELSE Counted(Crossed))]
        /\ UNCHANGED <<revision, rows, removed, added, work, late, dropped>>
        /\ tx.pc = "counting" /\ tx.at # tx.to
    BY <1>2 DEF Count
  <2>2. tx.at \in Revisions /\ tx.to \in Revisions /\ tx.counted \subseteq Kinds
    BY DEF IInv, TypeOK
  <2>3. ~ Up => Counted(Crossed) \subseteq Kinds
    <3>1. Crossed \in 1 .. 16
      BY <2>1, ChangedIsOfRows DEF IInv
    <3>2. QED BY <3>1, CountedAreKinds
  <2>4. TypeOK'
    BY <2>1, <2>3 DEF IInv, TypeOK, Busy
  <2>5. /\ tx'.pc = "counted" /\ tx'.at = tx.at /\ tx'.to = tx.to
        /\ ~ Up => Counted(Crossed) \subseteq tx'.counted
    BY <2>1 DEF IInv, TypeOK
  <2>6. CountedIsLate'
    <3>1. ~ Up => \A r \in View : r.kind \notin Counted(Crossed)
      BY <1>2 DEF Refused
    <3>2. View' = View /\ (Up' <=> Up) /\ Crossed' = Crossed
      BY <2>1, <2>5 DEF View, Up, Crossed
    <3>3. Counted(Crossed)' = Counted(Crossed)
      BY <3>2 DEF Counted, Counted0006, Counted0012, Counted0014, Counted0015,
                  Counted0016
    <3>4. QED BY <2>5, <3>1, <3>2, <3>3 DEF CountedIsLate
  <2>7. QED
    BY <2>1, <2>4, <2>5, <2>6 DEF IInv, Crossing, OnTheWay, Sound, NothingPending,
       NoEvidenceAdded, RemovedIsLate, Busy
<1>3. QED BY <1>1, <1>2

LEMMA QueueForLockPreserves == ASSUME IInv, QueueForLock PROVE IInv'
<1>1. tx' = [tx EXCEPT !.pc = "waiting"] /\ tx.pc = "counted"
  BY DEF QueueForLock
<1>2. TypeOK'
  BY <1>1 DEF QueueForLock, IInv, TypeOK, Busy
<1>3. /\ tx'.pc = "waiting" /\ tx'.at = tx.at /\ tx'.to = tx.to
      /\ tx'.counted = tx.counted
  BY <1>1 DEF IInv, TypeOK
<1>4. View' = View /\ (Up' <=> Up) /\ Crossed' = Crossed
  BY <1>3 DEF QueueForLock, View, Up, Crossed
<1>5. CountedIsLate'
  BY <1>1, <1>3, <1>4 DEF QueueForLock, IInv, CountedIsLate, Crossing
<1>6. QED
  BY <1>1, <1>2, <1>3, <1>5 DEF QueueForLock, IInv, Crossing, OnTheWay, Sound,
     NothingPending, NoEvidenceAdded, RemovedIsLate, Busy

\* Evidence in the tables that are dropped was counted or is late.
LEMMA AlterPreserves == ASSUME IInv, Alter PROVE IInv'
<1>1. CASE RollBack("failed")
  BY <1>1, RollBackPreserves
<1>2. CASE Apply
  <2>1. Crossing /\ tx.at # tx.to /\ TypeOK
    BY DEF Alter, Crossing, IInv
  <2>2. tx' = [tx EXCEPT !.pc = "counting", !.at = Reached, !.locked = @ \cup Locks(Crossed)]
    BY <1>2 DEF Apply
  <2>3. removed' = (removed \cup View) \ Changed /\ added' = Changed \ rows
    BY <1>2 DEF Apply
  <2>4. UNCHANGED <<revision, rows, work, late, dropped>>
    BY <1>2 DEF Apply
  <2>5. /\ Crossed \in 1 .. 16 /\ Reached \in Revisions /\ Changed \subseteq Rows
        /\ \A r \in Changed : r \in View \/ r.kind \notin EvidenceKinds
        /\ \A r \in View : r.kind \in EvidenceKinds =>
             r \in Changed \/ (~ Up /\ r.kind \in Counted(Crossed))
    BY <2>1, ChangedIsOfRows
  <2>6. Locks(Crossed) \subseteq Tables
    BY <2>5, LocksAreTables
  <2>7. removed' \subseteq Rows /\ added' \subseteq Rows
    BY <2>3, <2>5 DEF View, IInv, TypeOK
  <2>8. tx' \in [pc : Busy \cup {"none", "committed", "refused", "failed", "killed"},
                at : Revisions, to : Revisions,
                locked : SUBSET Tables, counted : SUBSET Kinds]
    BY <2>1, <2>2, <2>5, <2>6 DEF TypeOK, Busy
  <2>9. TypeOK'
    BY <2>1, <2>4, <2>7, <2>8 DEF TypeOK
  <2>10. tx'.pc = "counting"
    BY <2>1, <2>2 DEF TypeOK
  <2>11. \A r \in View : r.kind \in EvidenceKinds => r \in rows
    BY DEF View, IInv, NoEvidenceAdded
  <2>12. NoEvidenceAdded'
    BY <2>3, <2>5, <2>11 DEF NoEvidenceAdded
  <2>13. RemovedIsLate'
    <3> SUFFICES ASSUME NEW r \in removed', r.kind \in EvidenceKinds
                 PROVE  r \in rows \cap late
      BY <2>4 DEF RemovedIsLate
    <3>1. CASE r \in removed
      BY <3>1 DEF IInv, RemovedIsLate
    <3>2. CASE r \in View
      <4>1. ~ Up /\ r.kind \in Counted(Crossed)
        BY <2>3, <2>5, <3>2
      <4>2. r \in late
        BY <2>1, <3>2, <4>1 DEF IInv, CountedIsLate
      <4>3. QED BY <2>11, <3>2, <4>2
    <3>3. QED BY <2>3, <3>1, <3>2
  <2>14. ~ Crossing' /\ NothingPending'
    BY <2>10 DEF Crossing, NothingPending, Busy
  <2>15. OnTheWay'
    BY <2>4 DEF IInv, OnTheWay, Sound
  <2>16. QED BY <2>9, <2>12, <2>13, <2>14, <2>15 DEF IInv, CountedIsLate
<1>3. QED BY <1>1, <1>2 DEF Alter

LEMMA CommitPreserves == ASSUME IInv, Commit PROVE IInv'
<1>1. tx' = [tx EXCEPT !.pc = "committed", !.locked = {}, !.counted = {}]
  BY DEF Commit
<1>2. tx'.pc = "committed"
  BY <1>1 DEF IInv, TypeOK
<1>3. TypeOK'
  BY <1>1 DEF Commit, View, IInv, TypeOK
<1>4. ~ Crossing'
  BY <1>2 DEF Crossing
<1>5. QED
  BY <1>3, <1>4 DEF Commit, IInv, OnTheWay, Sound, NothingPending, NoEvidenceAdded,
                    RemovedIsLate, CountedIsLate

LEMMA StutteringPreserves == ASSUME IInv, UNCHANGED vars PROVE IInv'
  BY DEF vars, IInv, TypeOK, Crossing, OnTheWay, Sound, NothingPending, NoEvidenceAdded,
     RemovedIsLate, CountedIsLate, View, Up, Crossed, Busy

LEMMA NextIInv == IInv /\ [Next]_vars => IInv'
<1> SUFFICES ASSUME IInv, [Next]_vars PROVE IInv'
  OBVIOUS
<1>1. ASSUME NEW target \in Targets, BeginMigration(target) PROVE IInv'
  BY <1>1, BeginMigrationPreserves
<1>2. CASE Migrate
  BY <1>2, CountPreserves, QueueForLockPreserves, AlterPreserves, CommitPreserves
     DEF Migrate
<1>3. CASE Kill
  BY <1>3, RollBackPreserves DEF Kill
<1>4. ASSUME NEW w \in Writers, NEW does \in Jobs \ {"nothing"}, NEW r \in Runs,
             BeginWrite(w, does, r)
      PROVE  IInv'
  BY <1>4, BeginWritePreserves
<1>5. ASSUME NEW w \in Writers, Write(w) PROVE IInv'
  BY <1>5, ReachTablePreserves, CommitWritePreserves DEF Write
<1>6. ASSUME NEW w \in Writers, GiveUp(w) PROVE IInv'
  BY <1>6, GiveUpPreserves
<1>7. CASE UNCHANGED vars
  BY <1>7, StutteringPreserves
<1>8. QED BY <1>1, <1>2, <1>3, <1>4, <1>5, <1>6, <1>7 DEF Next

-----------------------------------------------------------------------------
(* The theorems *)

\* Whatever migrates and writes, the database stays one that some revision
\* describes, and every migration stays between the base and the newest revision.
THEOREM MigrationsAreTyped == Spec => []TypeOK
<1>1. IInv => TypeOK
  BY DEF IInv
<1>2. QED BY <1>1, InitIInv, NextIInv, PTL DEF Spec

\* For any databases to begin with, any operators and any number of sessions, a
\* migration destroys no evidence (Observations, bundles, Conversations, Model
\* Runs, Analyses) but what was committed between the count of its kind and the
\* lock of its table.
THEOREM EvidenceIsLostOnlyInTheGap == Spec => LostOnlyInTheGap
<1>1. ASSUME IInv, [Next]_vars
      PROVE  [\A r \in rows : r.kind \in EvidenceKinds => r \in rows' \cup late]_vars
  <2> SUFFICES ASSUME Next, NEW r \in rows, r.kind \in EvidenceKinds
               PROVE  r \in rows' \cup late
    BY <1>1
  <2>1. CASE Commit
    <3>1. rows' = (rows \ removed) \cup added
      BY <2>1 DEF Commit, View
    <3>2. r \in removed => r \in late
      BY <1>1 DEF IInv, RemovedIsLate
    <3>3. QED BY <3>1, <3>2
  <2>2. CASE rows' = rows
    BY <2>2
  <2>3. ASSUME NEW w \in Writers, CommitWrite(w) PROVE r \in rows' \cup late
    BY <2>3 DEF CommitWrite
  <2>4. Commit \/ rows' = rows \/ \E w \in Writers : CommitWrite(w)
    BY DEF Next, BeginMigration, Migrate, Count, QueueForLock, Alter, Apply, Kill,
           RollBack, BeginWrite, Write, ReachTable, GiveUp
  <2>5. QED BY <2>1, <2>2, <2>3, <2>4
<1>2. QED BY <1>1, InitIInv, NextIInv, PTL DEF Spec, LostOnlyInTheGap
=============================================================================
