----------------------- MODULE MigrationsFitProofs -----------------------
(***************************************************************************)
(* Proofs that migrations are stopped by their own checks. Every kind of   *)
(* row is admitted by an unbroken span of revisions, from the one that     *)
(* first has a place for it to the last that accepts it; a migration sees  *)
(* rows that fit the revision it has reached, because the tables of all    *)
(* that it has crossed stay locked, and what a session commits elsewhere   *)
(* fits on either side.                                                    *)
(***************************************************************************)
EXTENDS MigrationsProofs

-----------------------------------------------------------------------------
(* The revisions and the program's transactions *)

\* The revision that creates a kind's table.
Since(k) ==
  CASE k \in {"run audit", "other audit"}     -> 2
    [] k \in {"pending", "reconciled"}        -> 3
    [] k = "bundle"                           -> 12
    [] k = "conversation"                     -> 14
    [] k \in {"model run", "analysis"}        -> 15
    [] OTHER                                  -> 6

LEMMA CreatedSince ==
  \A k \in Kinds, n \in 1 .. 16 : TableOf(k) \in Creates(n) <=> n = Since(k)
<1> SUFFICES ASSUME NEW k \in Kinds, NEW n \in 1 .. 16
             PROVE  TableOf(k) \in Creates(n) <=> n = Since(k)
  OBVIOUS
<1> USE DEF Creates, Tables0002, Tables0003, Tables0006, Tables0012, Tables0014, Tables0015
<1>1. CASE k \in {"run audit", "other audit"}
  <2>1. TableOf(k) = "audit_events" /\ Since(k) = 2
    BY <1>1 DEF TableOf, Since, ObservationKinds, DirectoryKinds
  <2>2. QED BY <2>1
<1>2. CASE k \in {"pending", "reconciled"}
  <2>1. TableOf(k) = "idempotency_events" /\ Since(k) = 3
    BY <1>2 DEF TableOf, Since, ObservationKinds, DirectoryKinds
  <2>2. QED BY <2>1
<1>3. CASE k = "bundle"
  <2>1. TableOf(k) = "evidence_bundles" /\ Since(k) = 12
    BY <1>3 DEF TableOf, Since, ObservationKinds, DirectoryKinds
  <2>2. QED BY <2>1
<1>4. CASE k = "conversation"
  <2>1. TableOf(k) = "conversations" /\ Since(k) = 14
    BY <1>4 DEF TableOf, Since, ObservationKinds, DirectoryKinds
  <2>2. QED BY <2>1
<1>5. CASE k \in {"model run", "analysis"}
  <2>1. TableOf(k) \in {"model_runs", "analyses"} /\ Since(k) = 15
    BY <1>5 DEF TableOf, Since, ObservationKinds, DirectoryKinds
  <2>2. QED BY <2>1
<1>6. CASE k \in ObservationKinds \cup {"run", "foreign run"}
  <2>1. TableOf(k) \in {"retrieval_observations", "discovery_runs"} /\ Since(k) = 6
    BY <1>6 DEF TableOf, Since, ObservationKinds, DirectoryKinds
  <2>2. QED BY <2>1
<1>7. QED BY <1>1, <1>2, <1>3, <1>4, <1>5, <1>6 DEF Kinds, EvidenceKinds

\* Six revisions create tables that rows are followed in.
LEMMA SinceIsRevision == \A k \in Kinds : Since(k) \in {2, 3, 6, 12, 14, 15}
  BY DEF Since

\* A kind of row is admitted from one revision to another.
From(k) ==
  CASE k \in {"bundled", "failed"} -> 12
    [] k = "native"                -> 16
    [] k = "unreadable"            -> 7
    [] OTHER                       -> Since(k)
Upto(k) ==
  CASE k = "unreadable"                               -> 7
    [] k = "odd class"                                -> 8
    [] k \in {"foreign run", "foreign", "other audit"} -> 10
    [] OTHER                                          -> 16

LEMMA AdmittedSpan ==
  \A k \in Kinds, rev \in Revisions : k \in Admits(rev) <=> rev \in From(k) .. Upto(k)
<1> SUFFICES ASSUME NEW k \in Kinds, NEW rev \in Revisions
             PROVE  k \in Admits(rev) <=> rev \in From(k) .. Upto(k)
  OBVIOUS
<1>1. rev \in 0 .. 16
  BY DEF Revisions, Newest
<1>2. Since(k) \in {2, 3, 6, 12, 14, 15}
  BY SinceIsRevision
<1>3. TableOf(k) \in Existing(rev) <=> Since(k) <= rev
  <2>1. TableOf(k) \in Existing(rev) <=> \E n \in 1 .. rev : TableOf(k) \in Creates(n)
    BY DEF Existing
  <2>2. \A n \in 1 .. rev : TableOf(k) \in Creates(n) <=> n = Since(k)
    BY <1>1, CreatedSince
  <2>3. QED BY <1>1, <1>2, <2>1, <2>2
<1>4. k \in Admits(rev) <=>
        /\ TableOf(k) \in Existing(rev)
        /\ rev = 7 => k \in StatusCheck0007
        /\ rev # 7 => k \in StatusCheck0008
        /\ rev >= 9 => k \in FailureClassCheck0009
        /\ rev >= 11 => k \in Ownership0011
        /\ rev < 12 => k \in DirectoryNotNull
        /\ rev \in 12 .. 15 => k \in ReferenceCheck0012
        /\ rev >= 16 => k \in ReferenceCheck0016
  BY <1>1 DEF Admits
<1>5. k \in StatusCheck0007 /\ k \in ReferenceCheck0016
  BY DEF StatusCheck0007, ReferenceCheck0016
<1>6. /\ k \in StatusCheck0008 <=> k # "unreadable"
      /\ k \in FailureClassCheck0009 <=> k # "odd class"
      /\ k \in Ownership0011 <=> k \notin {"foreign run", "foreign", "other audit"}
      /\ k \in DirectoryNotNull <=> k \notin {"bundled", "failed", "native"}
      /\ k \in ReferenceCheck0012 <=> k # "native"
  BY DEF StatusCheck0008, FailureClassCheck0009, Ownership0011, DirectoryNotNull,
         ReferenceCheck0012
<1>7. CASE k \in {"bundled", "failed"}
  <2>1. Since(k) = 6 /\ From(k) = 12 /\ Upto(k) = 16
    BY <1>7 DEF Since, From, Upto
  <2>2. /\ k \in StatusCheck0008 /\ k \in FailureClassCheck0009 /\ k \in Ownership0011
        /\ k \notin DirectoryNotNull /\ k \in ReferenceCheck0012
    BY <1>6, <1>7
  <2>3. QED BY <1>1, <1>3, <1>4, <1>5, <2>1, <2>2
<1>8. CASE k = "native"
  <2>1. Since(k) = 6 /\ From(k) = 16 /\ Upto(k) = 16
    BY <1>8 DEF Since, From, Upto
  <2>2. /\ k \in StatusCheck0008 /\ k \in FailureClassCheck0009 /\ k \in Ownership0011
        /\ k \notin DirectoryNotNull /\ k \notin ReferenceCheck0012
    BY <1>6, <1>8
  <2>3. QED BY <1>1, <1>3, <1>4, <1>5, <2>1, <2>2
<1>9. CASE k = "unreadable"
  <2>1. Since(k) = 6 /\ From(k) = 7 /\ Upto(k) = 7
    BY <1>9 DEF Since, From, Upto
  <2>2. /\ k \notin StatusCheck0008 /\ k \in FailureClassCheck0009 /\ k \in Ownership0011
        /\ k \in DirectoryNotNull /\ k \in ReferenceCheck0012
    BY <1>6, <1>9
  <2>3. QED BY <1>1, <1>3, <1>4, <1>5, <2>1, <2>2
<1>10. CASE k = "odd class"
  <2>1. Since(k) = 6 /\ From(k) = 6 /\ Upto(k) = 8
    BY <1>10 DEF Since, From, Upto
  <2>2. /\ k \in StatusCheck0008 /\ k \notin FailureClassCheck0009 /\ k \in Ownership0011
        /\ k \in DirectoryNotNull /\ k \in ReferenceCheck0012
    BY <1>6, <1>10
  <2>3. QED BY <1>1, <1>3, <1>4, <1>5, <2>1, <2>2
<1>11. CASE k \in {"foreign run", "foreign", "other audit"}
  <2>1. From(k) = Since(k) /\ Upto(k) = 10
    BY <1>11 DEF Since, From, Upto
  <2>2. /\ k \in StatusCheck0008 /\ k \in FailureClassCheck0009 /\ k \notin Ownership0011
        /\ k \in DirectoryNotNull /\ k \in ReferenceCheck0012
    BY <1>6, <1>11
  <2>3. QED BY <1>1, <1>2, <1>3, <1>4, <1>5, <2>1, <2>2
<1>12. CASE k \notin {"bundled", "failed", "native", "unreadable", "odd class",
                     "foreign run", "foreign", "other audit"}
  <2>1. From(k) = Since(k) /\ Upto(k) = 16
    BY <1>12 DEF From, Upto
  <2>2. /\ k \in StatusCheck0008 /\ k \in FailureClassCheck0009 /\ k \in Ownership0011
        /\ k \in DirectoryNotNull /\ k \in ReferenceCheck0012
    BY <1>6, <1>12
  <2>3. QED BY <1>1, <1>2, <1>3, <1>4, <1>5, <2>1, <2>2
<1>13. QED BY <1>7, <1>8, <1>9, <1>10, <1>11, <1>12

\* What fits a revision fits the next one, but for the vocabulary that 0008 and
\* 0009 replace and for what 0011 refuses.
LEMMA FitsAbove ==
  ASSUME NEW n \in Revisions, n + 1 \in Revisions, NEW k \in Kinds, k \in Admits(n),
         k \notin Admits(n + 1)
  PROVE  \/ k \in {"unreadable", "odd class"}
         \/ n = 10 /\ k \in {"foreign run", "foreign", "other audit"}
<1>1. n \in 0 .. 15
  BY DEF Revisions, Newest
<1>2. n \in From(k) .. Upto(k) /\ n + 1 \notin From(k) .. Upto(k)
  BY AdmittedSpan
<1>3. Upto(k) \in {7, 8, 10, 16} /\ From(k) \in {2, 3, 6, 7, 12, 14, 15, 16}
  BY SinceIsRevision DEF Upto, From
<1>4. Upto(k) = n /\ Upto(k) # 16
  BY <1>1, <1>2, <1>3
<1>5. \/ k \in {"unreadable", "odd class"}
      \/ Upto(k) = 10 /\ k \in {"foreign run", "foreign", "other audit"}
  BY <1>4 DEF Upto
<1>6. QED BY <1>4, <1>5

\* ... and the one before, if its downgrade neither counts it nor drops it.
LEMMA FitsBelow ==
  ASSUME NEW n \in 1 .. 16, NEW k \in Kinds, k \in Admits(n), k \notin Admits(n - 1),
         k \notin Counted(n), TableOf(k) \notin Creates(n)
  PROVE  k = "unreadable"
<1>1. n \in Revisions /\ n - 1 \in Revisions
  BY DEF Revisions, Newest
<1>2. n \in From(k) .. Upto(k) /\ n - 1 \notin From(k) .. Upto(k)
  BY <1>1, AdmittedSpan
<1>3. Upto(k) \in {7, 8, 10, 16} /\ From(k) \in {2, 3, 6, 7, 12, 14, 15, 16}
  BY SinceIsRevision DEF Upto, From
<1>4. n = From(k)
  BY <1>2, <1>3
<1>5. From(k) # Since(k)
  BY <1>4, CreatedSince
<1>6. k \notin {"bundled", "failed"}
  <2> SUFFICES ASSUME k \in {"bundled", "failed"} PROVE FALSE
    OBVIOUS
  <2>1. n = 12
    BY <1>4 DEF From
  <2>2. QED BY <2>1 DEF Counted, Counted0012
<1>7. k # "native"
  <2> SUFFICES ASSUME k = "native" PROVE FALSE
    OBVIOUS
  <2>1. n = 16
    BY <1>4 DEF From
  <2>2. QED BY <2>1 DEF Counted, Counted0016
<1>8. QED BY <1>5, <1>6, <1>7 DEF From

\* A transaction reaches the table.
OnPath(table, does) == \E i \in 1 .. Len(Path(does)) : Path(does)[i] = table

\* What transactions write, and tables on their way.
LEMMA Ways ==
  /\ /\ Written("start") = {"run", "run audit"}
     /\ OnPath("campaigns", "start") /\ OnPath("discovery_runs", "start")
     /\ OnPath("audit_events", "start")
  /\ /\ Written("settle bundled") = {"bundle", "bundled"}
     /\ OnPath("retrieval_observations", "settle bundled")
     /\ OnPath("evidence_bundles", "settle bundled")
  /\ /\ Written("settle failed") = {"failed"}
     /\ OnPath("retrieval_observations", "settle failed")
  /\ /\ Written("settle native") = {"native"}
     /\ OnPath("retrieval_observations", "settle native")
  /\ Written("normalize") = {"conversation"} /\ OnPath("conversations", "normalize")
  /\ Written("ask") = {"model run"} /\ OnPath("model_runs", "ask")
  /\ Written("score") = {"analysis"} /\ OnPath("analyses", "score")
  /\ Written("nothing") = {}
<1>1. /\ Written("start") = {"run", "run audit"}
      /\ Written("settle bundled") = {"bundle", "bundled"}
      /\ Written("settle failed") = {"failed"} /\ Written("settle native") = {"native"}
      /\ Written("normalize") = {"conversation"} /\ Written("ask") = {"model run"}
      /\ Written("score") = {"analysis"} /\ Written("nothing") = {}
  BY DEF Written
<1>2. ASSUME NEW does, NEW a, NEW b, NEW c, Path(does) = <<a, b, c>>
      PROVE  OnPath(a, does) /\ OnPath(b, does) /\ OnPath(c, does)
  <2>1. /\ 1 \in 1 .. Len(Path(does)) /\ 2 \in 1 .. Len(Path(does)) /\ 3 \in 1 .. Len(Path(does))
        /\ Path(does)[1] = a /\ Path(does)[2] = b /\ Path(does)[3] = c
    BY <1>2
  <2>2. QED BY <2>1 DEF OnPath
<1>3. ASSUME NEW does, NEW a, NEW b, NEW c, NEW d, Path(does) = <<a, b, c, d>>
      PROVE  OnPath(b, does) /\ OnPath(c, does)
  <2>1. /\ 2 \in 1 .. Len(Path(does)) /\ Path(does)[2] = b
        /\ 3 \in 1 .. Len(Path(does)) /\ Path(does)[3] = c
    BY <1>3
  <2>2. QED BY <2>1 DEF OnPath
<1>4. ASSUME NEW does, NEW a, Path(does) = <<a>>
      PROVE  OnPath(a, does)
  <2>1. 1 \in 1 .. Len(Path(does)) /\ Path(does)[1] = a
    BY <1>4
  <2>2. QED BY <2>1 DEF OnPath
<1>5. Path("start") = <<"campaigns", "discovery_runs", "audit_events">>
  BY DEF Path
<1>6. Path("settle bundled") = <<"discovery_runs", "retrieval_observations",
                                 "evidence_bundles", "audit_events">>
  BY DEF Path
<1>7. /\ Path("settle failed") = <<"discovery_runs", "retrieval_observations",
                                   "audit_events">>
      /\ Path("settle native") = <<"discovery_runs", "retrieval_observations",
                                   "audit_events">>
  BY DEF Path
<1>8. Path("normalize") = <<"retrieval_observations", "evidence_bundles", "conversations">>
  BY DEF Path
<1>9. Path("ask") = <<"model_runs">>
  BY DEF Path
<1>10. Path("score") = <<"analyses", "campaigns", "conversations">>
  BY DEF Path
<1>11. /\ OnPath("campaigns", "start") /\ OnPath("discovery_runs", "start")
       /\ OnPath("audit_events", "start")
  BY <1>2, <1>5
<1>12. /\ OnPath("retrieval_observations", "settle bundled")
       /\ OnPath("evidence_bundles", "settle bundled")
  BY <1>3, <1>6
<1>13. /\ OnPath("retrieval_observations", "settle failed")
       /\ OnPath("retrieval_observations", "settle native")
  BY <1>2, <1>7
<1>14. OnPath("conversations", "normalize")
  BY <1>2, <1>8
<1>15. OnPath("model_runs", "ask")
  BY <1>4, <1>9
<1>16. OnPath("analyses", "score")
  BY <1>2, <1>10
<1>17. QED BY <1>1, <1>11, <1>12, <1>13, <1>14, <1>15, <1>16

\* Rows are written to tables on the way.
LEMMA WritesOnPath ==
  \A does \in Jobs : \A k \in Written(does) : k \in Kinds /\ OnPath(TableOf(k), does)
<1>1. /\ TableOf("run") = "discovery_runs" /\ TableOf("run audit") = "audit_events"
      /\ TableOf("bundled") = "retrieval_observations"
      /\ TableOf("failed") = "retrieval_observations"
      /\ TableOf("native") = "retrieval_observations"
      /\ TableOf("bundle") = "evidence_bundles" /\ TableOf("conversation") = "conversations"
      /\ TableOf("model run") = "model_runs" /\ TableOf("analysis") = "analyses"
  BY DEF TableOf, ObservationKinds, DirectoryKinds
<1>2. {"run", "run audit", "bundled", "failed", "native", "bundle", "conversation",
       "model run", "analysis"} \subseteq Kinds
  BY DEF Kinds, EvidenceKinds, ObservationKinds
<1>3. \A k \in Written("start") : k \in Kinds /\ OnPath(TableOf(k), "start")
  BY <1>1, <1>2, Ways
<1>4. \A k \in Written("settle bundled") : k \in Kinds /\ OnPath(TableOf(k), "settle bundled")
  BY <1>1, <1>2, Ways
<1>5. /\ \A k \in Written("settle failed") : k \in Kinds /\ OnPath(TableOf(k), "settle failed")
      /\ \A k \in Written("settle native") : k \in Kinds /\ OnPath(TableOf(k), "settle native")
  BY <1>1, <1>2, Ways
<1>6. /\ \A k \in Written("normalize") : k \in Kinds /\ OnPath(TableOf(k), "normalize")
      /\ \A k \in Written("ask") : k \in Kinds /\ OnPath(TableOf(k), "ask")
      /\ \A k \in Written("score") : k \in Kinds /\ OnPath(TableOf(k), "score")
  BY <1>1, <1>2, Ways
<1>7. Written("nothing") = {}
  BY Ways
<1>8. QED BY <1>3, <1>4, <1>5, <1>6, <1>7 DEF Jobs

\* Today's program writes to the schema of the revision.
Serving(does, rev) == rev >= 11 /\ Written(does) \subseteq Admits(rev)

\* Between a revision that serves a transaction and one that does not there is one
\* that locks a table on its way.
LEMMA CrossingLocksPath ==
  ASSUME NEW does \in Jobs \ {"nothing"}, NEW rev \in Revisions, NEW at \in Revisions,
         Serving(does, rev), ~ Serving(does, at)
  PROVE  \E n \in (at + 1) .. rev, table \in Tables : table \in Locks(n) /\ OnPath(table, does)
<1> DEFINE Goal == \E n \in (at + 1) .. rev, table \in Tables :
                     table \in Locks(n) /\ OnPath(table, does)
<1>1. rev \in 11 .. 16 /\ at \in 0 .. 16
  BY DEF Serving, Revisions, Newest
<1>2. \A k \in Written(does) : rev \in From(k) .. Upto(k)
  BY AdmittedSpan, WritesOnPath DEF Serving
<1>3. at < 11 \/ \E k \in Written(does) : at \notin From(k) .. Upto(k)
  BY <1>1, AdmittedSpan, WritesOnPath DEF Serving
<1>4. ASSUME NEW n \in (at + 1) .. rev, NEW table, table \in Locks(n), OnPath(table, does)
      PROVE  Goal
  <2>1. n \in 1 .. 16
    BY <1>1
  <2>2. table \in Tables
    BY <1>4, <2>1, LocksAreTables
  <2>3. QED BY <1>4, <2>2
<1> HIDE DEF Goal
<1> SUFFICES Goal
  BY DEF Goal
<1>5. /\ "campaigns" \in Locks(11) /\ "retrieval_observations" \in Locks(11)
      /\ "retrieval_observations" \in Locks(12) /\ "retrieval_observations" \in Locks(16)
      /\ "conversations" \in Locks(14)
      /\ "model_runs" \in Locks(15) /\ "analyses" \in Locks(15)
  BY DEF Locks, Alters, Alters0011, Creates, Tables0014, Tables0015
<1>6. CASE does = "start"
  <2>1. \A k \in Written(does) : From(k) \in 0 .. 6 /\ Upto(k) = 16
    <3>1. Since("run") \in 0 .. 6 /\ Since("run audit") \in 0 .. 6
      BY DEF Since
    <3>2. /\ From("run") = Since("run") /\ From("run audit") = Since("run audit")
          /\ Upto("run") = 16 /\ Upto("run audit") = 16
      BY DEF From, Upto
    <3>3. \A k \in Written(does) : k = "run" \/ k = "run audit"
      BY <1>6, Ways
    <3>4. /\ From("run") \in 0 .. 6 /\ Upto("run") = 16
          /\ From("run audit") \in 0 .. 6 /\ Upto("run audit") = 16
      BY <3>1, <3>2
    <3>5. QED BY <3>3, <3>4
  <2>2. 11 \in (at + 1) .. rev
    BY <1>1, <1>3, <2>1
  <2>3. QED BY <1>4, <1>5, <1>6, <2>2, Ways
<1>7. CASE does \in {"settle bundled", "settle failed"}
  <2>1. \A k \in Written(does) : From(k) = 12 /\ Upto(k) = 16
    BY <1>7, Ways DEF From, Upto, Since
  <2>2. Written(does) # {}
    BY <1>7, Ways
  <2>3. 12 \in (at + 1) .. rev
    BY <1>1, <1>2, <1>3, <2>1, <2>2
  <2>4. OnPath("retrieval_observations", does)
    BY <1>7, Ways
  <2>5. QED BY <1>4, <1>5, <2>3, <2>4
<1>8. CASE does = "settle native"
  <2>1. \A k \in Written(does) : From(k) = 16 /\ Upto(k) = 16
    BY <1>8, Ways DEF From, Upto, Since
  <2>2. Written(does) # {}
    BY <1>8, Ways
  <2>3. 16 \in (at + 1) .. rev
    BY <1>1, <1>2, <1>3, <2>1, <2>2
  <2>4. QED BY <1>4, <1>5, <1>8, <2>3, Ways
<1>9. CASE does = "normalize"
  <2>1. \A k \in Written(does) : From(k) = 14 /\ Upto(k) = 16
    BY <1>9, Ways DEF From, Upto, Since
  <2>2. Written(does) # {}
    BY <1>9, Ways
  <2>3. 14 \in (at + 1) .. rev
    BY <1>1, <1>2, <1>3, <2>1, <2>2
  <2>4. QED BY <1>4, <1>5, <1>9, <2>3, Ways
<1>10. CASE does \in {"ask", "score"}
  <2>1. \A k \in Written(does) : From(k) = 15 /\ Upto(k) = 16
    BY <1>10, Ways DEF From, Upto, Since
  <2>2. Written(does) # {}
    BY <1>10, Ways
  <2>3. 15 \in (at + 1) .. rev
    BY <1>1, <1>2, <1>3, <2>1, <2>2
  <2>4. OnPath("model_runs", does) \/ OnPath("analyses", does)
    BY <1>10, Ways
  <2>5. QED BY <1>4, <1>5, <2>3, <2>4
<1>11. QED BY <1>6, <1>7, <1>8, <1>9, <1>10 DEF Jobs

-----------------------------------------------------------------------------
(* The second invariant: what there is fits *)

\* What is committed fits its revision, and what a migration sees fits the
\* revision that it has reached.
RowsFit  == Valid(rows, revision)
ViewFits == tx.pc \in Busy => Valid(View, tx.at)

\* A migration stands between the revision it left and the one it goes to.
OnCourse ==
  tx.pc \in Busy =>
    IF tx.to > revision THEN tx.at \in revision .. tx.to
    ELSE tx.at \in tx.to .. revision

\* It keeps the tables of what it has crossed, and no session is at work there.
Crossings == ((tx.at + 1) .. revision) \cup ((revision + 1) .. tx.at)
LocksKept ==
  tx.pc \in Busy =>
    /\ \A n \in Crossings : Locks(n) \subseteq tx.locked
    /\ \A w \in Writers : Holds(w) \cap tx.locked = {}

\* What a session is about to commit fits the schema.
Served ==
  \A w \in Writers : work[w] # AtRest =>
    work[w].does # "nothing" /\ (Ended(w) => Serves(work[w].does))

\* Only keys are rewritten, and all else that is removed was in a dropped table.
Keys == {"pending", "reconciled"}
Rewrites ==
  /\ \A r \in added : r.kind \in Keys
  /\ \A r \in removed :
       r.kind \in Keys \/ (TableOf(r.kind) \in tx.locked /\ tx.at < revision)

\* An audit event has its run, or the run was dropped.
RunKinds == {"run", "foreign run"}
AuditsRemembered ==
  \A r \in rows : r.kind = "run audit" =>
    r.run \in dropped \/ \E k \in RunKinds : Has(k, r.run)

PreflightPassed == Crossing /\ Up /\ Crossed = 11 => Preflight0011(View)

FitInv ==
  /\ RowsFit
  /\ ViewFits
  /\ OnCourse
  /\ LocksKept
  /\ Served
  /\ Rewrites
  /\ AuditsRemembered
  /\ PreflightPassed

LEMMA InitFits == Init => FitInv
<1> SUFFICES ASSUME Init PROVE FitInv
  OBVIOUS
<1>1. PICK l \in Legacies : revision = l[1] /\ rows = l[2]
  BY DEF Init
<1>2. Valid(rows, revision) /\ Resolved(rows) /\ rows \subseteq Rows
  BY <1>1, LegacyAssumption
<1>3. tx.pc \notin Busy /\ ~ Crossing
  BY DEF Init, Busy, Crossing
<1>4. Served
  BY DEF Init, Served
<1>5. Rewrites
  BY DEF Init, Rewrites
<1>6. AuditsRemembered
  BY <1>2 DEF AuditsRemembered, Resolved, RunKinds, Has
<1>7. QED
  BY <1>2, <1>3, <1>4, <1>5, <1>6 DEF FitInv, RowsFit, ViewFits, OnCourse, LocksKept,
     PreflightPassed

\* A session goes on, or gives up: it takes no table that the migration keeps,
\* and has not come to its end unless it is served.
LEMMA FitsAtWork ==
  ASSUME IInv, FitInv, NEW w \in Writers, NEW value, Set(w, value),
         tx.pc \in Busy => Holds(w)' \cap tx.locked = {},
         value # AtRest => value.does # "nothing" /\ (Ended(w)' => Serves(value.does)),
         UNCHANGED <<revision, rows, tx, removed, added, late, dropped>>
  PROVE  FitInv'
<1>1. \A v \in Writers : work'[v] = IF v = w THEN value ELSE work[v]
  BY DEF Set, IInv, TypeOK
<1>2. \A v \in Writers \ {w} : Holds(v)' = Holds(v) /\ (Ended(v)' <=> Ended(v))
  BY <1>1 DEF Holds, Ended
<1>3. LocksKept'
  BY <1>2 DEF FitInv, LocksKept, Crossings, Busy
<1>4. Served'
  BY <1>1, <1>2 DEF FitInv, Served, Serves
<1>5. QED
  BY <1>3, <1>4 DEF FitInv, RowsFit, ViewFits, OnCourse, Rewrites, AuditsRemembered, Has,
     PreflightPassed, Crossing, View, Up, Crossed, Busy

LEMMA BeginWriteFits ==
  ASSUME IInv, FitInv, NEW w \in Writers, NEW does \in Jobs \ {"nothing"}, NEW r \in Runs,
         BeginWrite(w, does, r)
  PROVE  FitInv'
<1> DEFINE value == [does |-> does, run |-> r, step |-> 1]
<1>1. work'[w] = value
  BY DEF BeginWrite, Set, IInv, TypeOK
<1>2. Holds(w)' = {Path(does)[1]}
  BY <1>1 DEF Holds
<1>3. Path(does)[1] \notin tx.locked /\ Serves(does)
  BY DEF BeginWrite, Closed
<1>4. QED BY <1>1, <1>2, <1>3, FitsAtWork DEF BeginWrite

LEMMA ReachTableFits ==
  ASSUME IInv, FitInv, NEW w \in Writers, ReachTable(w)
  PROVE  FitInv'
<1>1. work[w] \in [does : Jobs, run : Runs \cup {NoRun}, step : 0 .. 4]
  BY DEF IInv, TypeOK
<1>2. CASE Serves(work[w].does)
  <2> DEFINE value == [work[w] EXCEPT !.step = @ + 1]
  <2>1. work'[w] = value /\ Set(w, value)
    BY <1>2 DEF ReachTable, Set, IInv, TypeOK
  <2>2. value.does = work[w].does /\ value.step = work[w].step + 1
    BY <1>1
  <2>3. Holds(w)' = Holds(w) \cup {Wanted(w)}
    <3>1. Holds(w)' = {Path(work[w].does)[i] : i \in 1 .. (work[w].step + 1)}
      BY <2>1, <2>2 DEF Holds
    <3>2. 1 .. (work[w].step + 1) = (1 .. work[w].step) \cup {work[w].step + 1}
      BY <1>1
    <3>3. QED BY <3>1, <3>2 DEF Holds, Wanted
  <2>4. Wanted(w) \notin tx.locked
    BY DEF ReachTable, Closed
  <2>5. tx.pc \in Busy => Holds(w)' \cap tx.locked = {}
    BY <2>3, <2>4 DEF FitInv, LocksKept
  <2>6. value.does # "nothing"
    BY <2>2 DEF ReachTable, FitInv, Served
  <2> HIDE DEF value
  <2>7. QED BY <1>2, <2>1, <2>2, <2>5, <2>6, FitsAtWork DEF ReachTable
<1>3. CASE ~ Serves(work[w].does)
  <2>1. work'[w] = AtRest /\ Set(w, AtRest)
    BY <1>3 DEF ReachTable, Set, IInv, TypeOK
  <2>2. Holds(w)' = {}
    BY <2>1 DEF Holds, AtRest
  <2>3. QED BY <2>1, <2>2, FitsAtWork DEF ReachTable
<1>4. QED BY <1>2, <1>3

LEMMA GiveUpFits ==
  ASSUME IInv, FitInv, NEW w \in Writers, GiveUp(w)
  PROVE  FitInv'
<1>1. work'[w] = AtRest
  BY DEF GiveUp, Set, IInv, TypeOK
<1>2. Holds(w)' = {}
  BY <1>1 DEF Holds, AtRest
<1>3. QED BY <1>2, FitsAtWork DEF GiveUp

\* A session that is about to commit is served by the revision that a migration
\* has reached as well, since it holds the tables on its way.
LEMMA KeepsServing ==
  ASSUME IInv, FitInv, NEW w \in Writers, work[w] # AtRest, Ended(w)
  PROVE  /\ work[w].does \in Jobs \ {"nothing"}
         /\ \A table : OnPath(table, work[w].does) => table \in Holds(w)
         /\ Serving(work[w].does, revision)
         /\ tx.pc \in Busy => Serving(work[w].does, tx.at)
<1>1. work[w].does \in Jobs \ {"nothing"} /\ revision \in Revisions /\ tx.at \in Revisions
  BY DEF IInv, TypeOK, FitInv, Served
<1>2. \A table : OnPath(table, work[w].does) => table \in Holds(w)
  BY DEF Ended, OnPath, Holds
<1>3. Serving(work[w].does, revision)
  BY DEF FitInv, Served, Serves, Serving
<1>4. ASSUME tx.pc \in Busy, ~ Serving(work[w].does, tx.at) PROVE FALSE
  <2>1. PICK n \in (tx.at + 1) .. revision, table \in Tables :
          table \in Locks(n) /\ OnPath(table, work[w].does)
    BY <1>1, <1>3, <1>4, CrossingLocksPath
  <2>2. table \in tx.locked
    BY <1>4, <2>1 DEF FitInv, LocksKept, Crossings
  <2>3. QED BY <1>2, <1>4, <2>1, <2>2 DEF FitInv, LocksKept
<1>5. QED BY <1>1, <1>2, <1>3, <1>4

\* More rows that fit, and the runs of their audit events.
LEMMA ValidWith ==
  ASSUME NEW set, NEW new, NEW rev, Valid(set, rev),
         \A r \in new : r.kind \in Admits(rev), Resolved(new)
  PROVE  Valid(set \cup new, rev)
  BY DEF Valid, Resolved

LEMMA CommitWriteFits ==
  ASSUME IInv, FitInv, NEW w \in Writers, CommitWrite(w)
  PROVE  FitInv'
<1> DEFINE does == work[w].does
           new  == {[kind |-> k, run |-> work[w].run] : k \in Written(does)}
<1>1. /\ rows' = rows \cup new
      /\ UNCHANGED <<revision, tx, removed, added, dropped>>
      /\ work[w] # AtRest /\ Ended(w)
  BY DEF CommitWrite
<1>2. \A v \in Writers : work'[v] = IF v = w THEN AtRest ELSE work[v]
  BY DEF CommitWrite, Set, IInv, TypeOK
<1>3. Holds(w)' = {} /\ work'[w] = AtRest
  BY <1>2 DEF Holds, AtRest
<1>4. \A v \in Writers \ {w} : Holds(v)' = Holds(v) /\ (Ended(v)' <=> Ended(v))
  BY <1>2 DEF Holds, Ended
<1>5. LocksKept'
  BY <1>1, <1>3, <1>4 DEF FitInv, LocksKept, Crossings, Busy
<1>6. Served'
  BY <1>1, <1>2, <1>3, <1>4 DEF FitInv, Served, Serves
<1>7. OnCourse' /\ Rewrites'
  BY <1>1 DEF FitInv, OnCourse, Rewrites, Busy
<1>8. Resolved(new)
  <2>1. does \in Jobs
    BY DEF IInv, TypeOK
  <2>2. "run audit" \in Written(does) => "run" \in Written(does)
    BY <2>1, Ways DEF Jobs
  <2>3. ASSUME NEW r \in new, r.kind = "run audit"
        PROVE  [kind |-> "run", run |-> r.run] \in new
    <3>1. r.kind \in Written(does) /\ r.run = work[w].run
      OBVIOUS
    <3>2. QED BY <2>2, <2>3, <3>1
  <2> HIDE DEF new
  <2>4. QED BY <2>3 DEF Resolved
<1>9. AuditsRemembered'
  BY <1>1, <1>8 DEF FitInv, AuditsRemembered, Resolved, RunKinds, Has
<1>10. /\ does \in Jobs
       /\ \A table : OnPath(table, does) => table \in Holds(w)
       /\ Serving(does, revision)
       /\ tx.pc \in Busy => Serving(does, tx.at)
  BY <1>1, KeepsServing
<1>11. RowsFit'
  <2>1. \A r \in new : r.kind \in Admits(revision)
    BY <1>10 DEF Serving
  <2>2. QED BY <1>1, <1>8, <2>1, ValidWith DEF FitInv, RowsFit
<1>12. ASSUME tx.pc \in Busy PROVE View' = View \cup new
  <2>1. ASSUME NEW r \in new PROVE r \notin removed
    <3>1. r.kind \in Written(does)
      OBVIOUS
    <3>2. TableOf(r.kind) \in Holds(w) /\ r.kind \in Kinds
      BY <1>10, <3>1, WritesOnPath
    <3>3. TableOf(r.kind) \notin tx.locked
      BY <1>12, <3>2 DEF FitInv, LocksKept
    <3>4. r.kind \notin Keys
      BY <1>10, <3>1, Ways DEF Jobs, Keys
    <3>5. QED BY <3>3, <3>4 DEF FitInv, Rewrites
  <2>2. QED BY <1>1, <2>1 DEF View
<1>13. ViewFits'
  <2>1. tx.pc \in Busy => \A r \in new : r.kind \in Admits(tx.at)
    BY <1>10 DEF Serving
  <2>2. QED BY <1>1, <1>8, <1>12, <2>1, ValidWith DEF FitInv, ViewFits, Busy
<1>14. PreflightPassed'
  <2> SUFFICES ASSUME Crossing, Up, Crossed = 11 PROVE FALSE
    BY <1>1 DEF PreflightPassed, Crossing, Up, Crossed
  <2>1. tx.at = 10 /\ tx.at < tx.to /\ tx.pc \in Busy
    BY DEF Up, Crossed, Crossing, Busy, IInv, TypeOK, Revisions
  <2>2. revision >= 11 /\ revision \in Nat /\ tx.to \in Nat
    BY <1>10 DEF Serving, IInv, TypeOK, Revisions, Newest
  <2>3. QED BY <2>1, <2>2 DEF FitInv, OnCourse
<1>15. QED BY <1>5, <1>6, <1>7, <1>9, <1>11, <1>13, <1>14 DEF FitInv

LEMMA BeginMigrationFits ==
  ASSUME IInv, FitInv, NEW target \in Targets, BeginMigration(target)
  PROVE  FitInv'
<1>1. /\ tx' = [pc |-> "counting", at |-> revision, to |-> target,
                locked |-> {}, counted |-> {}]
      /\ UNCHANGED <<revision, rows, removed, added, work, dropped>>
      /\ removed = {} /\ added = {}
  BY DEF BeginMigration, IInv, NothingPending
<1>2. /\ tx'.pc = "counting" /\ tx'.at = revision /\ tx'.to = target /\ tx'.locked = {}
      /\ target \in 0 .. 16 /\ revision \in 0 .. 16
  BY <1>1, TargetAssumption DEF IInv, TypeOK, Revisions, Newest
<1>3. View' = rows
  BY <1>1 DEF View
<1>4. RowsFit' /\ ViewFits'
  BY <1>1, <1>2, <1>3 DEF FitInv, RowsFit, ViewFits
<1>5. OnCourse'
  BY <1>1, <1>2 DEF OnCourse
<1>6. LocksKept'
  BY <1>1, <1>2 DEF LocksKept, Crossings
<1>7. Served'
  BY <1>1 DEF FitInv, Served, Serves, Ended
<1>8. Rewrites' /\ AuditsRemembered'
  BY <1>1 DEF FitInv, Rewrites, AuditsRemembered, Has
<1>9. PreflightPassed'
  BY <1>2 DEF PreflightPassed, Crossing
<1>10. QED BY <1>4, <1>5, <1>6, <1>7, <1>8, <1>9 DEF FitInv

LEMMA RollBackFits ==
  ASSUME IInv, FitInv, NEW how \in {"refused", "failed", "killed"}, RollBack(how)
  PROVE  FitInv'
<1>1. /\ tx'.pc = how /\ removed' = {} /\ added' = {}
      /\ UNCHANGED <<revision, rows, work, late, dropped>>
  BY DEF RollBack, IInv, TypeOK
<1>2. tx'.pc \notin Busy /\ ~ Crossing'
  BY <1>1 DEF Busy, Crossing
<1>3. Served' /\ RowsFit' /\ AuditsRemembered' /\ Rewrites'
  BY <1>1 DEF FitInv, Served, Serves, Ended, RowsFit, AuditsRemembered, Has, Rewrites
<1>4. QED BY <1>2, <1>3 DEF FitInv, ViewFits, OnCourse, LocksKept, PreflightPassed, Busy

LEMMA CountFits == ASSUME IInv, FitInv, Count PROVE FitInv'
<1>1. CASE Refused
  BY <1>1, RollBackFits DEF Count
<1>2. CASE ~ Refused
  <2>1. /\ tx'.pc = "counted" /\ tx'.at = tx.at /\ tx'.to = tx.to /\ tx'.locked = tx.locked
        /\ UNCHANGED <<revision, rows, removed, added, work, late, dropped>>
        /\ tx.pc = "counting"
    BY <1>2 DEF Count, IInv, TypeOK
  <2>2. View' = View /\ (Up' <=> Up) /\ Crossed' = Crossed
    BY <2>1 DEF View, Up, Crossed
  <2>3. tx.pc \in Busy /\ tx'.pc \in Busy
    BY <2>1 DEF Busy
  <2>4. RowsFit' /\ ViewFits' /\ OnCourse'
    BY <2>1, <2>2, <2>3 DEF FitInv, RowsFit, ViewFits, OnCourse
  <2>5. LocksKept'
    BY <2>1, <2>3 DEF FitInv, LocksKept, Crossings, Holds
  <2>6. Served' /\ Rewrites' /\ AuditsRemembered'
    BY <2>1 DEF FitInv, Served, Serves, Ended, Rewrites, AuditsRemembered, Has
  <2>7. PreflightPassed'
    BY <1>2, <2>2 DEF Refused, PreflightPassed
  <2>8. QED BY <2>4, <2>5, <2>6, <2>7 DEF FitInv
<1>3. QED BY <1>1, <1>2

LEMMA QueueForLockFits == ASSUME IInv, FitInv, QueueForLock PROVE FitInv'
<1>1. /\ tx'.pc = "waiting" /\ tx'.at = tx.at /\ tx'.to = tx.to /\ tx'.locked = tx.locked
      /\ UNCHANGED <<revision, rows, removed, added, work, late, dropped>>
      /\ tx.pc = "counted"
  BY DEF QueueForLock, IInv, TypeOK
<1>2. View' = View /\ (Up' <=> Up) /\ Crossed' = Crossed
  BY <1>1 DEF View, Up, Crossed
<1>3. tx.pc \in Busy /\ tx'.pc \in Busy /\ Crossing
  BY <1>1 DEF Busy, Crossing
<1>4. RowsFit' /\ ViewFits' /\ OnCourse'
  BY <1>1, <1>2, <1>3 DEF FitInv, RowsFit, ViewFits, OnCourse
<1>5. LocksKept'
  BY <1>1, <1>3 DEF FitInv, LocksKept, Crossings, Holds
<1>6. Served' /\ Rewrites' /\ AuditsRemembered'
  BY <1>1 DEF FitInv, Served, Serves, Ended, Rewrites, AuditsRemembered, Has
<1>7. PreflightPassed'
  BY <1>2, <1>3 DEF FitInv, PreflightPassed
<1>8. QED BY <1>4, <1>5, <1>6, <1>7 DEF FitInv

\* A migration that is not at its end has gone its way from the revision it left.
LEMMA Course ==
  ASSUME IInv, FitInv, tx.pc \in Busy, tx.at # tx.to
  PROVE  /\ tx.at \in 0 .. 16 /\ tx.to \in 0 .. 16 /\ revision \in 0 .. 16
         /\ Up => Crossed = tx.at + 1 /\ Reached = tx.at + 1 /\ revision <= tx.at
         /\ ~ Up => Crossed = tx.at /\ Reached = tx.at - 1 /\ tx.at <= revision
                      /\ tx.to < tx.at
<1>1. tx.at \in 0 .. 16 /\ tx.to \in 0 .. 16 /\ revision \in 0 .. 16
  BY DEF IInv, TypeOK, Revisions, Newest
<1>2. IF tx.to > revision THEN tx.at \in revision .. tx.to ELSE tx.at \in tx.to .. revision
  BY DEF FitInv, OnCourse
<1>3. QED BY <1>1, <1>2 DEF Up, Crossed, Reached

\* What a revision makes of the rows: it rewrites keys, if it is 0004, and its
\* downgrade drops the tables that it created.
LEMMA ChangedRows ==
  ASSUME TypeOK, tx.at # tx.to
  PROVE  /\ \A r \in Changed : r \in View \/ (r.kind \in Keys /\ Crossed = 4)
         /\ Up => \A r \in View : r \in Changed \/ r.kind \in Keys
         /\ ~ Up => \A r \in View : \/ r \in Changed \/ r.kind \in Keys
                                    \/ TableOf(r.kind) \in Creates(Crossed)
         /\ Up /\ Crossed # 4 => Changed = View
         /\ ~ Up => \A r \in Changed \cap View : TableOf(r.kind) \notin Creates(Crossed)
<1>1. View \in SUBSET Rows
  BY DEF View, TypeOK
<1>2. "pending" \in Kinds /\ "reconciled" \in Kinds
  BY DEF Kinds
<1>3. CASE Up
  <2>1. Changed = Upgraded(View, Crossed)
    BY <1>3 DEF Changed
  <2>2. CASE Crossed = 4
    <3>1. Changed = Rekeyed(View, "pending", "reconciled")
      BY <2>1, <2>2 DEF Upgraded
    <3>2. QED BY <1>1, <1>2, <1>3, <2>2, <3>1, RekeyedIsOfRows DEF Keys
  <2>3. CASE Crossed # 4
    <3>1. Changed = View
      BY <2>1, <2>3 DEF Upgraded
    <3>2. QED BY <1>3, <3>1
  <2>4. QED BY <2>2, <2>3
<1>4. CASE ~ Up
  <2>1. Changed = Downgraded(View, Crossed)
    BY <1>4 DEF Changed
  <2>2. CASE Crossed = 4
    <3>1. Changed = Rekeyed(View, "reconciled", "pending")
      BY <2>1, <2>2 DEF Downgraded
    <3>2. Creates(Crossed) = {}
      BY <2>2 DEF Creates
    <3>3. QED BY <1>1, <1>2, <1>4, <2>2, <3>1, <3>2, RekeyedIsOfRows DEF Keys
  <2>3. CASE Crossed # 4
    <3>1. Changed = {r \in View : TableOf(r.kind) \notin Creates(Crossed)}
      BY <2>1, <2>3 DEF Downgraded
    <3>2. QED BY <1>4, <3>1
  <2>4. QED BY <2>2, <2>3
<1>5. QED BY <1>3, <1>4

LEMMA AlterFits == ASSUME IInv, FitInv, Alter PROVE FitInv'
<1>1. CASE ~ Valid(Changed, Reached)
  BY <1>1, RollBackFits DEF Alter
<1>2. CASE Valid(Changed, Reached)
  <2>1. /\ tx.pc \in Busy /\ Crossing /\ tx.at # tx.to /\ TypeOK
        /\ LocksFree /\ Apply
    BY <1>2 DEF Alter, Busy, Crossing, IInv
  <2>2. /\ tx'.pc = "counting" /\ tx'.at = Reached /\ tx'.to = tx.to
        /\ tx'.locked = tx.locked \cup Locks(Crossed)
    BY <2>1 DEF Apply, TypeOK
  <2>3. /\ removed' = (removed \cup View) \ Changed /\ added' = Changed \ rows
        /\ UNCHANGED <<revision, rows, work, late, dropped>>
    BY <2>1 DEF Apply
  <2>4. View' = Changed
    <3> HIDE DEF View
    <3>1. View' = (rows' \ removed') \cup added'
      BY DEF View
    <3>2. \A r \in rows : r \in removed \/ r \in View
      BY DEF View
    <3>3. QED BY <2>3, <3>1, <3>2
  <2>5. /\ tx.at \in 0 .. 16 /\ tx.to \in 0 .. 16 /\ revision \in 0 .. 16
        /\ Up => Crossed = tx.at + 1 /\ Reached = tx.at + 1 /\ revision <= tx.at
        /\ ~ Up => Crossed = tx.at /\ Reached = tx.at - 1 /\ tx.at <= revision
                     /\ tx.to < tx.at
    BY <2>1, Course
  <2>6. ViewFits'
    BY <1>2, <2>2, <2>4 DEF ViewFits, Valid, Resolved, Admits
  <2>7. OnCourse'
    BY <2>1, <2>2, <2>3, <2>5 DEF FitInv, OnCourse, Up
  <2>8. LocksKept'
    <3>1. Crossings' \subseteq Crossings \cup {Crossed}
      BY <2>2, <2>3, <2>5 DEF Crossings
    <3>2. \A n \in Crossings : Locks(n) \subseteq tx.locked
      BY <2>1 DEF FitInv, LocksKept
    <3>3. \A n \in Crossings' : Locks(n) \subseteq tx'.locked
      BY <2>2, <3>1, <3>2
    <3>4. \A w \in Writers : Holds(w)' = Holds(w) /\ Holds(w) \cap tx'.locked = {}
      BY <2>1, <2>2, <2>3 DEF FitInv, LocksKept, LocksFree, Holds
    <3>5. QED BY <3>3, <3>4 DEF LocksKept, Locks, Creates, Alters
  <2>9. Rewrites'
    <3>1. ASSUME NEW r \in added' PROVE r.kind \in Keys
      <4>1. r \in Changed /\ r \notin rows
        BY <2>3
      <4>2. r \in View => r.kind \in Keys
        BY <4>1 DEF View, FitInv, Rewrites
      <4>3. QED BY <2>1, <4>1, <4>2, ChangedRows
    <3>2. ASSUME NEW r \in removed', r.kind \notin Keys
          PROVE  TableOf(r.kind) \in tx'.locked /\ tx'.at < revision
      <4>1. CASE r \in removed
        <5>1. TableOf(r.kind) \in tx.locked /\ tx.at < revision
          BY <3>2, <4>1 DEF FitInv, Rewrites
        <5>2. QED BY <2>2, <2>5, <5>1
      <4>2. CASE r \in View
        <5>1. r \notin Changed
          BY <2>3
        <5>2. ~ Up /\ TableOf(r.kind) \in Creates(Crossed)
          BY <2>1, <3>2, <4>2, <5>1, ChangedRows
        <5>3. QED BY <2>2, <2>5, <5>2 DEF Locks
      <4>3. QED BY <2>3, <4>1, <4>2
    <3>3. QED BY <2>3, <3>1, <3>2 DEF Rewrites, TableOf
  <2>10. RowsFit' /\ Served' /\ AuditsRemembered'
    BY <2>3 DEF FitInv, RowsFit, Served, Serves, Ended, AuditsRemembered, Has
  <2>11. PreflightPassed'
    BY <2>2 DEF PreflightPassed, Crossing
  <2>12. QED BY <2>6, <2>7, <2>8, <2>9, <2>10, <2>11 DEF FitInv
<1>3. QED BY <1>1, <1>2

LEMMA CommitFits == ASSUME IInv, FitInv, Commit PROVE FitInv'
<1>1. /\ revision' = tx.at /\ rows' = View /\ removed' = {} /\ added' = {}
      /\ UNCHANGED <<work, late>>
      /\ tx'.pc = "committed" /\ tx.pc \in Busy
  BY DEF Commit, IInv, TypeOK, Busy
<1>2. tx'.pc \notin Busy /\ ~ Crossing'
  BY <1>1 DEF Busy, Crossing
<1>3. RowsFit'
  BY <1>1 DEF FitInv, ViewFits, RowsFit
<1>4. Served'
  <2>1. \A w \in Writers : work[w] # AtRest /\ Ended(w) => Serving(work[w].does, tx.at)
    BY <1>1, KeepsServing
  <2>2. QED BY <1>1, <2>1 DEF FitInv, Served, Serves, Serving, Ended
<1>5. AuditsRemembered'
  <2> SUFFICES ASSUME NEW r \in rows', r.kind = "run audit"
               PROVE  r.run \in dropped' \/ \E k \in RunKinds : Has(k, r.run)'
    BY DEF AuditsRemembered
  <2>1. r \in rows
    BY <1>1 DEF View, FitInv, Rewrites, Keys
  <2>2. r.run \in Runs
    BY <2>1 DEF IInv, TypeOK, Rows
  <2>3. r.run \in dropped \/ \E k \in RunKinds : Has(k, r.run)
    BY <2>1 DEF FitInv, AuditsRemembered
  <2>4. QED BY <2>2, <2>3 DEF Commit, RunKinds
<1>6. Rewrites'
  BY <1>1 DEF Rewrites
<1>7. QED BY <1>2, <1>3, <1>4, <1>5, <1>6
          DEF FitInv, ViewFits, OnCourse, LocksKept, PreflightPassed, Busy

LEMMA StutteringFits == ASSUME IInv, FitInv, UNCHANGED vars PROVE FitInv'
  BY DEF vars, FitInv, RowsFit, ViewFits, OnCourse, LocksKept, Crossings, Holds, Served,
     Serves, Ended, Rewrites, AuditsRemembered, Has, PreflightPassed, Crossing, View, Up,
     Crossed, Busy

LEMMA NextFits == IInv /\ FitInv /\ [Next]_vars => FitInv'
<1> SUFFICES ASSUME IInv, FitInv, [Next]_vars PROVE FitInv'
  OBVIOUS
<1>1. ASSUME NEW target \in Targets, BeginMigration(target) PROVE FitInv'
  BY <1>1, BeginMigrationFits
<1>2. CASE Migrate
  BY <1>2, CountFits, QueueForLockFits, AlterFits, CommitFits DEF Migrate
<1>3. CASE Kill
  BY <1>3, RollBackFits DEF Kill
<1>4. ASSUME NEW w \in Writers, NEW does \in Jobs \ {"nothing"}, NEW r \in Runs,
             BeginWrite(w, does, r)
      PROVE  FitInv'
  BY <1>4, BeginWriteFits
<1>5. ASSUME NEW w \in Writers, Write(w) PROVE FitInv'
  BY <1>5, ReachTableFits, CommitWriteFits DEF Write
<1>6. ASSUME NEW w \in Writers, GiveUp(w) PROVE FitInv'
  BY <1>6, GiveUpFits
<1>7. CASE UNCHANGED vars
  BY <1>7, StutteringFits
<1>8. QED BY <1>1, <1>2, <1>3, <1>4, <1>5, <1>6, <1>7 DEF Next

\* What a migration sees was committed, but for keys.
LEMMA SeenIsCommitted ==
  ASSUME FitInv
  PROVE  \A r \in View : r.kind \notin Keys => r \in rows
  BY DEF FitInv, Rewrites, View

\* The rows that 0008 and 0009 have no word for.
OutOfVocabulary == {"unreadable", "odd class"}

\* Where nothing is late and every row is in the vocabulary, what a revision makes
\* of the rows fits it.
LEMMA FitsWhatIsReached ==
  ASSUME IInv, FitInv, Crossing, late = {},
         \A r \in rows : r.kind \notin OutOfVocabulary
  PROVE  Valid(Changed, Reached)
<1>1. tx.pc \in Busy /\ tx.at # tx.to /\ TypeOK
  BY DEF Crossing, Busy, IInv
<1>2. /\ tx.at \in 0 .. 16 /\ tx.to \in 0 .. 16 /\ revision \in 0 .. 16
      /\ Up => Crossed = tx.at + 1 /\ Reached = tx.at + 1 /\ revision <= tx.at
      /\ ~ Up => Crossed = tx.at /\ Reached = tx.at - 1 /\ tx.at <= revision
                   /\ tx.to < tx.at
  BY <1>1, Course
<1>3. Crossed \in 1 .. 16 /\ Reached \in Revisions /\ Changed \subseteq Rows
  BY <1>1, ChangedIsOfRows
<1>4. \A r \in View : r.kind \in Kinds /\ r.kind \in Admits(tx.at)
  <2>1. View \subseteq Rows
    BY <1>1 DEF View, TypeOK
  <2>2. QED BY <1>1, <2>1 DEF FitInv, ViewFits, Valid, Rows
<1>5. \A r \in View : r.kind \notin OutOfVocabulary
  BY SeenIsCommitted DEF Keys, OutOfVocabulary
<1>6. ASSUME NEW r \in Changed PROVE r.kind \in Admits(Reached)
  <2>1. CASE r \notin View
    <3>1. r.kind \in Keys /\ Crossed = 4
      BY <1>1, <2>1, ChangedRows
    <3>2. From(r.kind) = 3 /\ Upto(r.kind) = 16 /\ r.kind \in Kinds
      BY <3>1 DEF Keys, From, Upto, Since, Kinds
    <3>3. Reached \in 3 .. 16
      BY <1>2, <3>1
    <3>4. QED BY <1>3, <3>2, <3>3, AdmittedSpan
  <2>2. CASE r \in View /\ Up
    <3> SUFFICES ASSUME r.kind \notin Admits(tx.at + 1) PROVE FALSE
      BY <1>2, <2>2
    <3>1. tx.at \in Revisions /\ tx.at + 1 \in Revisions
      BY <1>1, <1>2, <1>3, <2>2 DEF TypeOK
    <3> DEFINE foreign == r.kind \in {"foreign run", "foreign", "other audit"}
    <3>2. r.kind \in OutOfVocabulary \/ (tx.at = 10 /\ foreign)
      BY <1>4, <2>2, <3>1, FitsAbove DEF OutOfVocabulary
    <3>3. tx.at = 10 /\ foreign
      BY <1>5, <2>2, <3>2
    <3> HIDE DEF foreign
    <3>4. Crossed = 11
      BY <1>2, <2>2, <3>3
    <3>5. Preflight0011(View)
      BY <2>2, <3>4 DEF FitInv, PreflightPassed
    <3>6. QED BY <2>2, <3>3, <3>5 DEF Preflight0011, foreign
  <2>3. CASE r \in View /\ ~ Up
    <3> SUFFICES ASSUME r.kind \notin Admits(tx.at - 1) PROVE FALSE
      BY <1>2, <2>3
    <3>1. tx.at \in 1 .. 16 /\ Crossed = tx.at
      BY <1>2, <2>3
    <3>2. r.kind \notin Counted(tx.at)
      BY <2>3, <3>1 DEF IInv, CountedIsLate
    <3>3. TableOf(r.kind) \notin Creates(tx.at)
      BY <1>1, <2>3, <3>1, ChangedRows
    <3>4. r.kind = "unreadable"
      BY <1>4, <2>3, <3>1, <3>2, <3>3, FitsBelow
    <3>5. QED BY <1>5, <2>3, <3>4 DEF OutOfVocabulary
  <2>4. QED BY <2>1, <2>2, <2>3
<1>7. ASSUME Reached >= 11 PROVE Resolved(Changed)
  <2>1. CASE Up
    <3>1. Changed = View
      BY <1>1, <1>2, <1>7, <2>1, ChangedRows
    <3>2. CASE Crossed = 11
      BY <2>1, <3>1, <3>2 DEF FitInv, PreflightPassed, Preflight0011
    <3>3. CASE Crossed # 11
      <4>1. tx.at >= 11
        BY <1>2, <1>7, <2>1, <3>3
      <4>2. QED BY <1>1, <3>1, <4>1 DEF FitInv, ViewFits, Valid
    <3>4. QED BY <3>2, <3>3
  <2>2. CASE ~ Up
    <3>1. Crossed \in 12 .. 16 /\ tx.at >= 11
      BY <1>2, <1>7, <2>2
    <3>2. Resolved(View)
      BY <1>1, <3>1 DEF FitInv, ViewFits, Valid
    <3>3. ASSUME NEW k \in RunKinds PROVE TableOf(k) \notin Creates(Crossed)
      <4>1. Since(k) = 6 /\ k \in Kinds
        BY DEF Since, Kinds, RunKinds
      <4>2. QED BY <1>3, <3>1, <4>1, CreatedSince
    <3>4. ASSUME NEW r \in Changed, r.kind = "run audit"
          PROVE  \E k \in RunKinds : [kind |-> k, run |-> r.run] \in Changed
      <4>1. r \in View
        BY <1>1, <3>4, ChangedRows DEF Keys
      <4>2. PICK k \in RunKinds : [kind |-> k, run |-> r.run] \in View
        BY <3>2, <3>4, <4>1 DEF Resolved, RunKinds
      <4> DEFINE of == [kind |-> k, run |-> r.run]
      <4>3. of.kind = k /\ k \notin Keys
        BY <4>2 DEF Keys, RunKinds
      <4>4. of \in View
        BY <4>2
      <4> HIDE DEF of
      <4>5. of \in Changed
        BY <1>1, <2>2, <3>3, <4>2, <4>3, <4>4, ChangedRows
      <4>6. QED BY <4>2, <4>5 DEF of
    <3>5. QED BY <3>4 DEF Resolved, RunKinds
  <2>3. QED BY <2>1, <2>2
<1>8. QED BY <1>6, <1>7 DEF Valid

\* What 0011 refuses is there: rows from before it, or audit events whose runs were
\* dropped.
LEMMA RefusedIsThere ==
  ASSUME IInv, FitInv, tx.pc \in Busy, tx.at # tx.to, Up, Refused
  PROVE  \/ \E r \in rows : r.kind \in {"foreign run", "foreign", "other audit"}
         \/ \E r \in dropped : Has("run audit", r)
<1>1. ~ Preflight0011(View)
  BY DEF Refused
<1>2. CASE \E r \in View : r.kind \in {"foreign run", "foreign", "other audit"}
  BY <1>2, SeenIsCommitted DEF Keys
<1>3. CASE ~ Resolved(View)
  <2>1. PICK r \in View : /\ r.kind = "run audit"
                          /\ \A k \in RunKinds : [kind |-> k, run |-> r.run] \notin View
    BY <1>3 DEF Resolved, RunKinds
  <2>2. r \in rows
    BY <2>1, SeenIsCommitted DEF Keys
  <2>3. r \in Rows /\ r.run \in Runs
    BY <2>2 DEF IInv, TypeOK, Rows
  <2>4. Has("run audit", r.run)
    <3>1. r = [kind |-> "run audit", run |-> r.run]
      BY <2>1, <2>3 DEF Rows
    <3>2. QED BY <2>2, <3>1 DEF Has
  <2>5. ASSUME NEW k \in RunKinds, Has(k, r.run) PROVE FALSE
    <3> DEFINE of == [kind |-> k, run |-> r.run]
    <3>1. of.kind \notin Keys
      BY DEF RunKinds, Keys
    <3>2. of \in removed
      BY <2>1, <2>5 DEF Has, View
    <3> HIDE DEF of
    <3>3. tx.at < revision
      BY <3>1, <3>2 DEF FitInv, Rewrites
    <3>4. QED BY <3>3, Course
  <2>6. r.run \in dropped
    BY <2>1, <2>2, <2>5 DEF FitInv, AuditsRemembered
  <2>7. QED BY <2>4, <2>6
<1>4. QED BY <1>1, <1>2, <1>3 DEF Preflight0011

\* For any databases to begin with, any operators and any number of sessions, a
\* migration that is not killed is stopped by its own checks with the rows left as
\* they were, never by a constraint, but for the vocabulary of 0007 and 0008 and
\* what was committed in the gap; and what refuses an upgrade is there to be seen.
THEOREM MigrationsEndForAReason == Spec => EndsForAReason
<1> DEFINE Reason ==
      tx.pc \in Busy =>
        /\ tx'.pc = "failed" =>
             \/ late # {}
             \/ \E r \in rows : r.kind \in {"unreadable", "odd class"}
        /\ tx'.pc = "refused" /\ Up =>
             \/ \E r \in rows : r.kind \in {"foreign run", "foreign", "other audit"}
             \/ \E r \in dropped : Has("run audit", r)
<1>1. ASSUME IInv, FitInv, [Next]_vars
      PROVE  [Reason]_vars
  <2> SUFFICES ASSUME Next, tx.pc \in Busy PROVE Reason
    BY <1>1
  <2>1. CASE Count
    <3>1. CASE Refused
      <4>1. tx'.pc = "refused"
        BY <1>1, <2>1, <3>1 DEF Count, RollBack, IInv, TypeOK
      <4>2. Up => \/ \E r \in rows : r.kind \in {"foreign run", "foreign", "other audit"}
                  \/ \E r \in dropped : Has("run audit", r)
        BY <1>1, <2>1, <3>1, RefusedIsThere DEF Count
      <4>3. QED BY <4>1, <4>2
    <3>2. CASE ~ Refused
      <4>1. tx'.pc = "counted"
        BY <1>1, <2>1, <3>2 DEF Count, IInv, TypeOK
      <4>2. QED BY <4>1
    <3>3. QED BY <3>1, <3>2
  <2>2. CASE Alter
    <3>1. CASE Valid(Changed, Reached)
      <4>1. tx'.pc = "counting"
        BY <1>1, <2>2, <3>1 DEF Alter, Apply, IInv, TypeOK
      <4>2. QED BY <4>1
    <3>2. CASE ~ Valid(Changed, Reached)
      <4>1. tx'.pc = "failed"
        BY <1>1, <2>2, <3>2 DEF Alter, RollBack, IInv, TypeOK
      <4>2. Crossing
        BY <2>2 DEF Alter, Crossing
      <4>3. QED BY <1>1, <3>2, <4>1, <4>2, FitsWhatIsReached DEF OutOfVocabulary
    <3>3. QED BY <3>1, <3>2
  <2>3. CASE QueueForLock \/ Commit \/ Kill
    <3>1. tx'.pc \in {"waiting", "committed", "killed"}
      BY <1>1, <2>3 DEF QueueForLock, Commit, Kill, RollBack, IInv, TypeOK
    <3>2. QED BY <3>1
  <2>4. CASE tx' = tx
    BY <2>4 DEF Busy
  <2>5. Count \/ Alter \/ QueueForLock \/ Commit \/ Kill \/ tx' = tx
    BY DEF Next, BeginMigration, Migrate, BeginWrite, Write, ReachTable, CommitWrite, GiveUp
  <2>6. QED BY <2>1, <2>2, <2>3, <2>4, <2>5
<1>2. QED
  BY <1>1, InitIInv, NextIInv, InitFits, NextFits, PTL DEF Spec, EndsForAReason

\* However migrations and the program's transactions interleave, the database
\* never holds a row that its revision has no table or no place for, and from
\* 0011 on every audit event of a run finds the run it takes its workspace from.
THEOREM DatabaseFitsItsRevision == Spec => []RowsFit
<1>1. FitInv => RowsFit
  BY DEF FitInv
<1>2. IInv /\ FitInv /\ [Next]_vars => IInv' /\ FitInv'
  BY NextIInv, NextFits
<1>3. QED BY <1>1, <1>2, InitIInv, InitFits, PTL DEF Spec

\* Until it ends, a migration keeps the tables of every revision that it has
\* crossed, and no session is at work in them: what it reads there after the
\* lock is what it commits.
THEOREM CrossedTablesAreShut == Spec => []LocksKept
<1>1. FitInv => LocksKept
  BY DEF FitInv
<1>2. IInv /\ FitInv /\ [Next]_vars => IInv' /\ FitInv'
  BY NextIInv, NextFits
<1>3. QED BY <1>1, <1>2, InitIInv, InitFits, PTL DEF Spec
=============================================================================
