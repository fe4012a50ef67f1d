----------------------- MODULE RetrievalAttemptsProofs -----------------------
(***************************************************************************)
(* Proofs about RetrievalAttempts. The argument follows a payload: what    *)
(* lies in a directory was retrieved by its own CLI, what a worker holds   *)
(* is what lies there as long as the directory does, a temporary bundle    *)
(* has what was held, and an outcome what was in the temporary bundle or   *)
(* in a sound bundle of the same digest.                                   *)
(***************************************************************************)
EXTENDS RetrievalAttempts, TLAPS

\* A directory comes with its CLI, goes as a whole, and has what it retrieved.
Directories ==
  \A a \in Attempts :
    /\ node[a] \in {"none", "starting"} => staging[a] = NoDirectory
    /\ ~ staging[a].there => staging[a] = NoDirectory
    /\ staging[a].raw # Nothing => staging[a].raw = retrieved[a]
    /\ staging[a].doc \in {"usable", "kept"} => staging[a].raw # Nothing

Publishing == {"copying", "copied", "renaming"}
Resolved   == Publishing \cup {"holding", "ended", "done"}

\* A worker goes on only when its CLI is dead.
Processes ==
  \A a \in Attempts :
    /\ pc[a] = "idle" => node[a] = "none"
    /\ pc[a] \in Resolved => ~ Alive(a)
    /\ pc[a] = "done" => ~ staging[a].there

\* The document that is held stays what it was, or is removed.
Holdings ==
  \A a \in Attempts :
    /\ pc[a] \in {"idle", "waiting"} => held[a] = NoDocument
    /\ pc[a] \in Publishing \cup {"holding"} => held[a].of # Nobody
    /\ held[a].of # Nobody =>
         /\ held[a].doc \in Documents
         /\ node[held[a].of] \notin {"none", "starting"}
         /\ staging[held[a].of].there => staging[held[a].of].doc = held[a].doc

Bundles ==
  \A a \in Attempts :
    /\ pc[a] \notin Publishing \cup {"lost"} => temp[a] = Nothing
    /\ pc[a] \in Publishing =>
         held[a].doc \in {"usable", "kept"} /\ held[a].of \in Mine(a)
    /\ pc[a] \in {"copied", "renaming"} =>
         temp[a] \in Contents /\ temp[a] = retrieved[held[a].of]

Outcomes ==
  \A a \in Attempts :
    /\ pc[a] \notin {"ended", "done", "lost"} => outcome[a] = NoOutcome
    /\ outcome[a].status = "usable" => outcome[a].bundle # Nothing
    /\ outcome[a].bundle # Nothing =>
         /\ outcome[a].bundle \in Sound
         /\ held[a].of \in Mine(a)
         /\ outcome[a].bundle = retrieved[held[a].of]

\* Undisturbed, a retained payload is in its directory until it is copied.
Undisturbed ==
  \A a \in Attempts :
    Retained(a) /\ ~ Disturbed(a) =>
      /\ pc[a] \in {"holding", "copying"} => staging[a].there
      /\ pc[a] \in {"ended", "done"} =>
           outcome[a].bundle # Nothing \/ retrieved[a] \in store

IInv ==
  TypeOK /\ Directories /\ Processes /\ Holdings /\ Bundles /\ Outcomes /\ Undisturbed

-----------------------------------------------------------------------------
LEMMA InitIInv == Init => IInv
<1> SUFFICES ASSUME Init PROVE IInv
  OBVIOUS
<1>1. \A a \in Attempts :
        /\ staging[a] = NoDirectory /\ node[a] = "none" /\ pc[a] = "idle"
        /\ held[a] = NoDocument /\ temp[a] = Nothing /\ outcome[a] = NoOutcome
  BY DEF Init
<1> USE DEF Nothing
<1>2. TypeOK
  BY DEF Init, TypeOK, NoDirectory, NoDocument, NoOutcome
<1>3. Directories
  BY <1>1 DEF Directories, NoDirectory
<1>4. Processes
  BY <1>1 DEF Processes, Resolved, Publishing
<1>5. Holdings
  BY <1>1 DEF Holdings, Publishing, NoDocument
<1>6. Bundles
  BY <1>1 DEF Bundles, Publishing
<1>7. Outcomes
  BY <1>1 DEF Outcomes, NoOutcome
<1>8. Undisturbed
  BY <1>1 DEF Undisturbed
<1>9. QED BY <1>2, <1>3, <1>4, <1>5, <1>6, <1>7, <1>8 DEF IInv

\* Nothing but attempt a changes, whichever of these do.
OnlyAttempt(a) ==
  \A x \in Attempts \ {a} :
    /\ pc'[x] = pc[x] /\ node'[x] = node[x] /\ staging'[x] = staging[x]
    /\ held'[x] = held[x] /\ temp'[x] = temp[x] /\ outcome'[x] = outcome[x]
    /\ retrieved'[x] = retrieved[x]

\* A step of a CLI: its directory is only added to, and only before it has a
\* document.
LEMMA CliStep ==
  ASSUME IInv, TypeOK', NEW a \in Attempts, OnlyAttempt(a),
         node[a] \in {"starting", "running"},
         node'[a] \in {"running", "exited", "failed"},
         UNCHANGED <<pc, held, temp, store, outcome, queryOf, spoiled>>,
         \/ staging'[a] = staging[a] /\ retrieved'[a] = retrieved[a]
         \/ staging[a].doc = Nothing /\ (node[a] = "starting" \/ staging[a].there),
         staging'[a].there \/ staging'[a] = NoDirectory,
         staging'[a].raw # Nothing => staging'[a].raw = retrieved'[a],
         staging'[a].doc \in {"usable", "kept"} => staging'[a].raw # Nothing
  PROVE  IInv'
<1>1. \A x \in Attempts : x # a =>
        /\ node'[x] = node[x] /\ staging'[x] = staging[x]
        /\ retrieved'[x] = retrieved[x]
  BY DEF OnlyAttempt
<1>2. pc[a] \notin Resolved /\ pc[a] # "idle"
  BY DEF IInv, Processes, Alive
<1>3. Directories'
  BY <1>1 DEF IInv, Directories
<1>4. Processes'
  BY <1>1, <1>2 DEF IInv, Processes, Alive, Resolved
<1>5. ASSUME NEW x \in Attempts, held[x].of # Nobody
      PROVE  /\ retrieved'[held[x].of] = retrieved[held[x].of]
             /\ staging'[held[x].of] = staging[held[x].of]
             /\ node'[held[x].of] \notin {"none", "starting"}
  <2>1. /\ held[x].of \in Attempts /\ held[x].doc \in Documents
        /\ node[held[x].of] \notin {"none", "starting"}
        /\ staging[held[x].of].there => staging[held[x].of].doc = held[x].doc
    BY <1>5 DEF IInv, Holdings, TypeOK
  <2>2. held[x].doc # Nothing
    BY <2>1 DEF Documents, Nothing
  <2>3. QED BY <1>1, <2>1, <2>2
<1>6. Holdings'
  BY <1>5 DEF IInv, Holdings
<1>7. \A x \in Attempts : Mine(x)' = Mine(x) /\ Sound' = Sound
  BY DEF Mine, Sound
<1>8. Nobody \notin Attempts /\ \A x \in Attempts : Mine(x) \subseteq Attempts
  BY AttemptAssumption DEF Mine
<1>9. Bundles'
  BY <1>5, <1>7, <1>8 DEF IInv, Bundles, Publishing
<1>10. Outcomes'
  BY <1>5, <1>7, <1>8 DEF IInv, Outcomes
<1>11. Undisturbed'
  <2> SUFFICES ASSUME NEW x \in Attempts, Retained(x)', ~ Disturbed(x)'
               PROVE  /\ pc[x] \in {"holding", "copying"} => staging'[x].there
                      /\ pc[x] \in {"ended", "done"} =>
                           outcome[x].bundle # Nothing \/ retrieved'[x] \in store
    BY DEF Undisturbed
  <2>1. CASE x = a
    BY <1>2, <2>1 DEF Resolved, Publishing
  <2>2. CASE x # a
    <3>1. Retained(x) /\ ~ Disturbed(x)
      BY <1>1, <1>7, <2>2 DEF Retained, Disturbed
    <3>2. QED BY <1>1, <2>2, <3>1 DEF IInv, Undisturbed
  <2>3. QED BY <2>1, <2>2
<1>12. QED BY <1>3, <1>4, <1>6, <1>9, <1>10, <1>11 DEF IInv

LEMMA CliPreserves ==
  ASSUME IInv, NEW a \in Attempts, Cli(a), UNCHANGED <<queryOf, spoiled>>
  PROVE  IInv'
<1>1. /\ node[a] = "starting" => staging[a] = NoDirectory
      /\ ~ staging[a].there => staging[a] = NoDirectory
      /\ staging[a].raw # Nothing => staging[a].raw = retrieved[a]
      /\ staging[a].doc \in {"usable", "kept"} => staging[a].raw # Nothing
  BY DEF IInv, Directories
<1> USE DEF OnlyAttempt
<1>2. CASE CreateAttempt(a)
  <2>1. /\ node[a] = "starting" /\ node'[a] = "running"
        /\ staging[a].raw = Nothing /\ staging[a].doc = Nothing
        /\ staging'[a] = [staging[a] EXCEPT !.there = TRUE]
        /\ UNCHANGED <<pc, held, temp, store, outcome, retrieved>>
        /\ OnlyAttempt(a)
    BY <1>1, <1>2 DEF CreateAttempt, IInv, TypeOK, NoDirectory
  <2>2. TypeOK'
    BY <1>2 DEF CreateAttempt, IInv, TypeOK
  <2>3. /\ staging'[a].there /\ staging'[a].raw = Nothing /\ staging'[a].doc = Nothing
        /\ Nothing \notin {"usable", "kept"}
    BY <2>1 DEF IInv, TypeOK, Nothing
  <2>4. QED BY <2>1, <2>2, <2>3, CliStep
<1>3. CASE WriteRaw(a)
  <2>1. PICK c \in Contents : /\ staging' = [staging EXCEPT ![a].raw = c]
                              /\ retrieved' = [retrieved EXCEPT ![a] = c]
    BY <1>3 DEF WriteRaw
  <2>2. /\ node[a] = "running" /\ staging[a].there /\ staging[a].doc = Nothing
        /\ UNCHANGED <<node, pc, held, temp, store, outcome>>
    BY <1>3 DEF WriteRaw
  <2>3. /\ staging'[a].there /\ staging'[a].raw = c /\ staging'[a].doc = Nothing
        /\ retrieved'[a] = c /\ Nothing \notin {"usable", "kept"} /\ OnlyAttempt(a)
    BY <2>1, <2>2 DEF IInv, TypeOK, Nothing
  <2>4. TypeOK'
    BY <1>3 DEF WriteRaw, IInv, TypeOK
  <2>5. QED BY <2>2, <2>3, <2>4, CliStep
<1>4. CASE WriteObservation(a)
  <2>1. PICK d \in Documents : /\ d \in {"usable", "kept"} => staging[a].raw # Nothing
                               /\ staging' = [staging EXCEPT ![a].doc = d]
    BY <1>4 DEF WriteObservation
  <2>2. /\ node[a] = "running" /\ staging[a].there /\ staging[a].doc = Nothing
        /\ UNCHANGED <<node, pc, held, temp, store, outcome, retrieved>>
    BY <1>4 DEF WriteObservation
  <2>3. /\ staging'[a].there /\ staging'[a].raw = staging[a].raw /\ staging'[a].doc = d
        /\ OnlyAttempt(a)
    BY <2>1, <2>2 DEF IInv, TypeOK
  <2>4. TypeOK'
    BY <1>4 DEF WriteObservation, IInv, TypeOK
  <2>5. QED BY <1>1, <2>1, <2>2, <2>3, <2>4, CliStep
<1>5. CASE Exit(a) \/ FailToStart(a) \/ Fail(a)
  <2>1. /\ node[a] \in {"starting", "running"} /\ node'[a] \in {"exited", "failed"}
        /\ UNCHANGED <<staging, pc, held, temp, store, outcome, retrieved>>
        /\ OnlyAttempt(a)
    BY <1>5 DEF Exit, FailToStart, Fail, IInv, TypeOK
  <2>2. TypeOK'
    BY <1>5 DEF Exit, FailToStart, Fail, IInv, TypeOK
  <2>3. QED BY <1>1, <2>1, <2>2, CliStep
<1>6. QED BY <1>2, <1>3, <1>4, <1>5 DEF Cli

\* A step of a worker, short of the cleanup: what it may do to its own part.
LEMMA WorkerStep ==
  ASSUME IInv, TypeOK', NEW a \in Attempts, OnlyAttempt(a),
         pc[a] # "done", pc'[a] \notin {"idle", "done"},
         UNCHANGED <<staging, retrieved, queryOf, spoiled>>, store \subseteq store',
         node'[a] # node[a] =>
           node'[a] = "killed" \/ (node'[a] = "starting" /\ node[a] = "none"),
         pc'[a] \in Resolved => node'[a] \notin {"starting", "running"},
         pc'[a] = "waiting" => held'[a] = NoDocument,
         pc'[a] \in Publishing \cup {"holding"} => held'[a].of # Nobody,
         held'[a].of # Nobody =>
           /\ held'[a].doc \in Documents
           /\ node[held'[a].of] \notin {"none", "starting"}
           /\ staging[held'[a].of].there => staging[held'[a].of].doc = held'[a].doc,
         pc'[a] \notin Publishing \cup {"lost"} => temp'[a] = Nothing,
         pc'[a] \in Publishing =>
           held'[a].doc \in {"usable", "kept"} /\ held'[a].of \in Mine(a),
         pc'[a] \in {"copied", "renaming"} =>
           temp'[a] \in Contents /\ temp'[a] = retrieved[held'[a].of],
         pc'[a] \notin {"ended", "lost"} => outcome'[a] = NoOutcome,
         outcome'[a].status = "usable" => outcome'[a].bundle # Nothing,
         outcome'[a].bundle # Nothing =>
           /\ outcome'[a].bundle \in Sound' /\ held'[a].of \in Mine(a)
           /\ outcome'[a].bundle = retrieved[held'[a].of],
         node'[a] = "exited" /\ held'[a].of = a /\ held'[a].doc \in {"usable", "kept"}
           /\ ~ Disturbed(a) =>
             /\ pc'[a] \in {"holding", "copying"} => staging[a].there
             /\ pc'[a] = "ended" => outcome'[a].bundle # Nothing \/ retrieved[a] \in store'
  PROVE  IInv'
<1>1. \A x \in Attempts : x # a =>
        /\ pc'[x] = pc[x] /\ node'[x] = node[x] /\ held'[x] = held[x]
        /\ temp'[x] = temp[x] /\ outcome'[x] = outcome[x]
  BY DEF OnlyAttempt
<1>2. /\ \A x \in Attempts : Mine(x)' = Mine(x) /\ Mine(x) \subseteq Attempts
      /\ Sound \subseteq Sound' /\ Nobody \notin Attempts
  BY AttemptAssumption DEF Mine, Sound
<1>3. Directories'
  BY <1>1 DEF IInv, Directories
<1>4. Processes'
  BY <1>1 DEF IInv, Processes, Alive
<1>5. Holdings'
  <2>1. /\ \A x \in Attempts : held[x].of # Nobody => held[x].of \in Attempts
        /\ held'[a].of # Nobody => held'[a].of \in Attempts
    BY DEF IInv, TypeOK
  <2>2. \A b \in Attempts : node[b] \notin {"none", "starting"} =>
          node'[b] \notin {"none", "starting"}
    BY <1>1
  <2>3. ASSUME NEW x \in Attempts
        PROVE  /\ pc'[x] \in {"idle", "waiting"} => held'[x] = NoDocument
               /\ pc'[x] \in Publishing \cup {"holding"} => held'[x].of # Nobody
    BY <1>1 DEF IInv, Holdings
  <2>4. ASSUME NEW x \in Attempts, held'[x].of # Nobody
        PROVE  /\ held'[x].doc \in Documents
               /\ node'[held'[x].of] \notin {"none", "starting"}
               /\ staging[held'[x].of].there =>
                    staging[held'[x].of].doc = held'[x].doc
    BY <1>1, <2>1, <2>2, <2>4 DEF IInv, Holdings
  <2>5. QED BY <2>3, <2>4 DEF Holdings
<1>6. Bundles'
  BY <1>1, <1>2 DEF IInv, Bundles
<1>7. Outcomes'
  BY <1>1, <1>2 DEF IInv, Outcomes
<1>8. Undisturbed'
  <2> SUFFICES ASSUME NEW x \in Attempts, Retained(x)', ~ Disturbed(x)'
               PROVE  /\ pc'[x] \in {"holding", "copying"} => staging[x].there
                      /\ pc'[x] \in {"ended", "done"} =>
                           outcome'[x].bundle # Nothing \/ retrieved[x] \in store'
    BY DEF Undisturbed
  <2>1. ~ Disturbed(x)
    BY <1>1, <1>2 DEF Disturbed
  <2>2. CASE x = a
    BY <2>1, <2>2 DEF Retained
  <2>3. CASE x # a
    BY <1>1, <2>1, <2>3 DEF Retained, IInv, Undisturbed
  <2>4. QED BY <2>2, <2>3
<1>9. QED BY <1>3, <1>4, <1>5, <1>6, <1>7, <1>8 DEF IInv

Places   == {"idle", "waiting", "holding", "copying", "copied", "renaming", "ended",
             "done", "lost"}
Outcome  == [status : {"none", "usable", "native", "failed"},
             bundle : Contents \cup {Nothing}]
Document == [of : Attempts \cup {Nobody}, doc : Documents \cup {Nothing}]

\* What a worker changes in its step has its type.
LEMMA WorkIsTyped ==
  ASSUME TypeOK, NEW a \in Attempts, NEW place \in Places, Goto(a, place),
         \/ UNCHANGED outcome
         \/ \E result \in Outcome : outcome' = [outcome EXCEPT ![a] = result],
         UNCHANGED held \/ \E d \in Document : held' = [held EXCEPT ![a] = d],
         \/ UNCHANGED temp
         \/ \E c \in Contents \cup {Nothing, Empty} : temp' = [temp EXCEPT ![a] = c],
         UNCHANGED node \/ node' = [node EXCEPT ![a] = "killed"],
         store \subseteq store', store' \subseteq Contents,
         UNCHANGED <<staging, retrieved, queryOf, spoiled>>
  PROVE  TypeOK'
<1>1. pc' \in [Attempts -> Places]
  BY DEF Goto, TypeOK, Places
<1>2. outcome' \in [Attempts -> Outcome]
  BY DEF TypeOK, Outcome
<1>3. held' \in [Attempts -> Document]
  BY DEF TypeOK, Document
<1>4. temp' \in [Attempts -> Contents \cup {Nothing, Empty}]
  BY DEF TypeOK
<1>5. node' \in [Attempts -> {"none", "starting", "running", "exited", "failed",
                              "killed"}]
  BY DEF TypeOK
<1>6. QED BY <1>1, <1>2, <1>3, <1>4, <1>5 DEF TypeOK, Places, Outcome, Document

LEMMA ResultsAreTyped ==
  ASSUME TypeOK
  PROVE  /\ Failed \in Outcome
         /\ \A a \in Attempts : temp[a] \in Contents => Bundled(a) \in Outcome
  BY DEF Failed, Bundled, Outcome

\* A worker that waits for its CLI ends without a document, or holds one.
LEMMA EndWaiting ==
  ASSUME IInv, TypeOK', NEW a \in Attempts, OnlyAttempt(a), pc[a] = "waiting",
         pc'[a] = "ended", outcome'[a] \in {Failed, outcome[a]},
         node'[a] \in {node[a], "killed"}, node'[a] \notin {"starting", "running"},
         UNCHANGED <<staging, held, temp, store, retrieved, queryOf, spoiled>>
  PROVE  IInv'
<1>1. held[a] = NoDocument /\ temp[a] = Nothing /\ outcome[a] = NoOutcome
  BY DEF IInv, Holdings, Bundles, Outcomes, Publishing
<1>2. held'[a].of = Nobody /\ Nobody \notin Attempts
  BY <1>1, AttemptAssumption DEF NoDocument
<1>3. outcome'[a].status # "usable" /\ outcome'[a].bundle = Nothing
  BY <1>1 DEF Failed, NoOutcome
<1>4. QED BY <1>1, <1>2, <1>3, WorkerStep DEF Publishing

LEMMA HoldWaiting ==
  ASSUME IInv, TypeOK', NEW a \in Attempts, OnlyAttempt(a), pc[a] = "waiting",
         NEW b \in Documented, pc'[a] = "holding",
         held'[a] = [of |-> b, doc |-> staging[b].doc],
         node'[a] \in {node[a], "killed"}, node'[a] \notin {"starting", "running"},
         UNCHANGED <<staging, temp, store, outcome, retrieved, queryOf, spoiled>>
  PROVE  IInv'
<1>1. temp[a] = Nothing /\ outcome[a] = NoOutcome
  BY DEF IInv, Bundles, Outcomes, Publishing
<1>2. NoOutcome.status # "usable" /\ NoOutcome.bundle = Nothing
  BY DEF NoOutcome
<1>3. /\ b \in Attempts /\ b # Nobody /\ staging[b].doc \in Documents
      /\ staging[b].there /\ node[b] \notin {"none", "starting"}
  BY AttemptAssumption DEF Documented, IInv, Directories, NoDirectory, TypeOK
<1>4. held'[a].of = b /\ held'[a].doc = staging[b].doc
  OBVIOUS
<1>5. QED BY <1>1, <1>2, <1>3, <1>4, WorkerStep DEF Publishing

LEMMA WaitingPreserves ==
  ASSUME IInv, NEW a \in Attempts, Resolve(a) \/ TimeOut(a) \/ Cancel(a),
         UNCHANGED <<queryOf, spoiled>>
  PROVE  IInv'
<1>1. TypeOK'
  <2>1. /\ Failed \in Outcome /\ "ended" \in Places /\ "holding" \in Places
        /\ store \subseteq Contents /\ TypeOK
    BY ResultsAreTyped DEF IInv, TypeOK, Places
  <2>2. \A b \in Documented : [of |-> b, doc |-> staging[b].doc] \in Document
    BY DEF Documented, Document, IInv, TypeOK
  <2>3. UNCHANGED node \/ node' = [node EXCEPT ![a] = "killed"]
    BY DEF Resolve, TimeOut, Cancel, Kill
  <2>4. UNCHANGED <<staging, temp, store, retrieved>>
    BY DEF Resolve, TimeOut, Cancel
  <2>5. /\ Recoverable(a) \subseteq Documented
        /\ staging[a].doc \in Documents => a \in Documented
    BY DEF Recoverable, Documented, Documents, Nothing
  <2>6. CASE End(a, Failed) /\ UNCHANGED held
    BY <2>1, <2>3, <2>4, <2>6, WorkIsTyped DEF End
  <2>7. ASSUME NEW b \in Documented, Hold(a, b), UNCHANGED outcome PROVE TypeOK'
    BY <2>1, <2>2, <2>3, <2>4, <2>7, WorkIsTyped DEF Hold
  <2>8. CASE Cancel(a)
    BY <2>1, <2>3, <2>4, <2>8, WorkIsTyped DEF Cancel
  <2>9. QED BY <2>5, <2>6, <2>7, <2>8 DEF Resolve, TimeOut
<1>2. OnlyAttempt(a)
  BY DEF OnlyAttempt, Resolve, TimeOut, Cancel, Kill, Goto, End, Hold, IInv, TypeOK
<1>3. /\ pc[a] = "waiting" /\ UNCHANGED <<staging, temp, store, retrieved>>
      /\ node'[a] \in {node[a], "killed"} /\ node'[a] \notin {"starting", "running"}
  BY DEF Resolve, TimeOut, Cancel, Kill, Alive, IInv, TypeOK
<1>4. CASE Goto(a, "ended") /\ outcome'[a] \in {Failed, outcome[a]} /\ UNCHANGED held
  <2>1. pc'[a] = "ended"
    BY <1>4 DEF Goto, IInv, TypeOK
  <2>2. QED BY <1>1, <1>2, <1>3, <1>4, <2>1, EndWaiting
<1>5. ASSUME NEW b \in Documented, Hold(a, b), UNCHANGED outcome PROVE IInv'
  <2>1. pc'[a] = "holding" /\ held'[a] = [of |-> b, doc |-> staging[b].doc]
    BY <1>5 DEF Hold, Goto, IInv, TypeOK
  <2>2. QED BY <1>1, <1>2, <1>3, <1>5, <2>1, HoldWaiting
<1>6. End(a, Failed) => Goto(a, "ended") /\ outcome'[a] \in {Failed, outcome[a]}
  BY DEF End, IInv, TypeOK
<1>7. CASE Resolve(a)
  <2>1. staging[a].doc \in Documents => a \in Documented
    BY DEF Documented, Documents, Nothing
  <2>2. QED BY <1>4, <1>5, <1>6, <1>7, <2>1 DEF Resolve
<1>8. CASE TimeOut(a)
  <2>1. Recoverable(a) \subseteq Documented
    BY DEF Recoverable
  <2>2. QED BY <1>4, <1>5, <1>6, <1>8, <2>1 DEF TimeOut
<1>9. CASE Cancel(a)
  BY <1>4, <1>9 DEF Cancel
<1>10. QED BY <1>7, <1>8, <1>9

\* Publication: of a held document, only what its directory has.
LEMMA PublishingPreserves ==
  ASSUME IInv, NEW a \in Attempts,
         KeepNative(a) \/ MakeBundle(a) \/ CopyRaw(a) \/ FindBundle(a) \/ Publish(a),
         UNCHANGED <<queryOf, spoiled>>
  PROVE  IInv'
<1>1. pc[a] \in Publishing \cup {"holding"} /\ UNCHANGED <<staging, node, held, retrieved>>
  BY DEF KeepNative, MakeBundle, CopyRaw, FindBundle, Publish, Declared, Publishing
<1>2. OnlyAttempt(a)
  BY DEF OnlyAttempt, KeepNative, MakeBundle, CopyRaw, FindBundle, Publish, Declared,
         Goto, End, Remove, IInv, TypeOK
<1>3. /\ held[a].of \in Attempts /\ held[a].doc \in Documents
      /\ node[held[a].of] \notin {"none", "starting"}
      /\ staging[held[a].of].there => staging[held[a].of].doc = held[a].doc
  BY <1>1 DEF IInv, Holdings, TypeOK
<1>4. /\ staging[held[a].of].raw # Nothing =>
           staging[held[a].of].raw = retrieved[held[a].of]
      /\ staging[held[a].of].doc \in {"usable", "kept"} =>
           staging[held[a].of].raw # Nothing
      /\ staging[held[a].of].raw \in Contents \cup {Nothing}
  BY <1>3 DEF IInv, Directories, TypeOK
<1>5. node[a] \notin {"starting", "running"} /\ outcome[a] = NoOutcome
  BY <1>1 DEF IInv, Processes, Outcomes, Resolved, Publishing, Alive
<1>6. /\ pc[a] \in Publishing =>
           held[a].doc \in {"usable", "kept"} /\ held[a].of \in Mine(a)
      /\ pc[a] \in {"copied", "renaming"} =>
           temp[a] \in Contents /\ temp[a] = retrieved[held[a].of]
      /\ pc[a] = "holding" => temp[a] = Nothing
  BY DEF IInv, Bundles, Publishing
<1>7. node[a] = "exited" /\ held[a].of = a /\ held[a].doc \in {"usable", "kept"}
      /\ ~ Disturbed(a) /\ pc[a] \in {"holding", "copying"} => staging[a].there
  BY DEF IInv, Undisturbed, Retained
<1>8. a \in Mine(a) /\ Nobody \notin Attempts /\ Nothing \notin Contents
  BY AttemptAssumption, ContentAssumption DEF Mine, IInv, TypeOK
<1>9. /\ NoOutcome.status # "usable" /\ NoOutcome.bundle = Nothing
      /\ Failed.status # "usable" /\ Failed.bundle = Nothing
  BY DEF NoOutcome, Failed
<1>10. CASE KeepNative(a)
  <2>1. TypeOK'
    BY <1>10 DEF KeepNative, End, Goto, IInv, TypeOK
  <2>2. /\ held[a].doc = "native" /\ pc'[a] = "ended" /\ UNCHANGED <<temp, store>>
        /\ outcome'[a] = [status |-> "native", bundle |-> Nothing]
        /\ pc[a] = "holding"
    BY <1>10 DEF KeepNative, End, Goto, IInv, TypeOK
  <2>3. QED BY <1>1, <1>2, <1>3, <1>5, <1>6, <1>8, <2>1, <2>2, WorkerStep DEF Publishing
<1>11. CASE MakeBundle(a)
  <2>1. TypeOK'
    <3>1. /\ TypeOK /\ Failed \in Outcome /\ store \subseteq Contents /\ UNCHANGED store
          /\ "ended" \in Places /\ "copying" \in Places
      BY <1>11, ResultsAreTyped DEF IInv, TypeOK, Places, MakeBundle
    <3>2. CASE Vetted(a)
      BY <1>1, <1>11, <3>1, <3>2, WorkIsTyped DEF MakeBundle
    <3>3. CASE ~ Vetted(a)
      BY <1>1, <1>11, <3>1, <3>3, WorkIsTyped DEF MakeBundle, End
    <3>4. QED BY <3>2, <3>3
  <2>2. pc[a] = "holding" /\ held[a].doc \in {"usable", "kept"} /\ UNCHANGED store
    BY <1>11 DEF MakeBundle, Declared
  <2>3. CASE Vetted(a)
    <3>1. pc'[a] = "copying" /\ temp'[a] = Empty /\ UNCHANGED outcome
      BY <1>11, <2>3 DEF MakeBundle, Goto, IInv, TypeOK
    <3>2. QED BY <1>1, <1>2, <1>3, <1>5, <1>7, <1>8, <1>9, <2>1, <2>2, <2>3, <3>1,
                 WorkerStep DEF Publishing, Vetted
  <2>4. CASE ~ Vetted(a)
    <3>1. pc'[a] = "ended" /\ outcome'[a] = Failed /\ UNCHANGED temp
      BY <1>11, <2>4 DEF MakeBundle, End, Goto, IInv, TypeOK
    <3>2. QED BY <1>1, <1>2, <1>3, <1>5, <1>6, <1>7, <1>8, <1>9, <2>1, <2>2, <2>4, <3>1,
                 WorkerStep DEF Publishing, Vetted
  <2>5. QED BY <2>3, <2>4
<1>12. CASE CopyRaw(a)
  <2>1. TypeOK'
    <3>1. /\ TypeOK /\ Failed \in Outcome /\ store \subseteq Contents
          /\ "ended" \in Places /\ "copied" \in Places /\ UNCHANGED store
      BY <1>12, ResultsAreTyped DEF IInv, TypeOK, Places, CopyRaw
    <3>2. CASE staging[held[a].of].there
      BY <1>1, <1>4, <1>12, <3>1, <3>2, WorkIsTyped DEF CopyRaw
    <3>3. CASE ~ staging[held[a].of].there
      BY <1>1, <1>12, <3>1, <3>3, WorkIsTyped DEF CopyRaw, End, Remove
    <3>4. QED BY <3>2, <3>3
  <2>2. pc[a] = "copying" /\ UNCHANGED store
    BY <1>12 DEF CopyRaw
  <2>3. CASE staging[held[a].of].there
    <3>1. /\ pc'[a] = "copied" /\ temp'[a] = staging[held[a].of].raw
          /\ UNCHANGED outcome
      BY <1>12, <2>3 DEF CopyRaw, Goto, IInv, TypeOK
    <3>2. QED BY <1>1, <1>2, <1>3, <1>4, <1>5, <1>6, <1>8, <1>9, <2>1, <2>2, <2>3, <3>1,
                 WorkerStep DEF Publishing
  <2>4. CASE ~ staging[held[a].of].there
    <3>1. pc'[a] = "ended" /\ outcome'[a] = Failed /\ temp'[a] = Nothing
      BY <1>12, <2>4 DEF CopyRaw, End, Goto, Remove, IInv, TypeOK
    <3>2. QED BY <1>1, <1>2, <1>3, <1>5, <1>6, <1>7, <1>8, <1>9, <2>1, <2>2, <2>4, <3>1,
                 WorkerStep DEF Publishing
  <2>5. QED BY <2>3, <2>4
<1>13. CASE FindBundle(a)
  <2>1. pc[a] = "copied" /\ UNCHANGED store /\ temp[a] \in Contents
    BY <1>6, <1>13 DEF FindBundle
  <2>2. TypeOK'
    <3>1. /\ TypeOK /\ Failed \in Outcome /\ Bundled(a) \in Outcome
          /\ store \subseteq Contents /\ "ended" \in Places /\ "renaming" \in Places
      BY <2>1, ResultsAreTyped DEF IInv, TypeOK, Places
    <3>2. CASE temp[a] \in store
      BY <1>1, <1>13, <2>1, <3>1, <3>2, WorkIsTyped DEF FindBundle, End, Remove
    <3>3. CASE temp[a] \notin store
      BY <1>1, <1>13, <2>1, <3>1, <3>3, WorkIsTyped DEF FindBundle
    <3>4. QED BY <3>2, <3>3
  <2>3. CASE temp[a] \in store
    <3>1. /\ pc'[a] = "ended" /\ temp'[a] = Nothing
          /\ outcome'[a] = IF temp[a] \in Sound THEN Bundled(a) ELSE Failed
      BY <1>13, <2>3 DEF FindBundle, End, Goto, Remove, IInv, TypeOK
    <3>2. Bundled(a).bundle = temp[a] /\ temp[a] # Nothing /\ Sound' = Sound
      BY <1>8, <2>1 DEF Bundled, Sound
    <3>3. QED BY <1>1, <1>2, <1>3, <1>5, <1>6, <1>8, <1>9, <2>1, <2>2, <2>3, <3>1, <3>2,
                 WorkerStep DEF Publishing
  <2>4. CASE temp[a] \notin store
    <3>1. pc'[a] = "renaming" /\ UNCHANGED <<temp, outcome>>
      BY <1>13, <2>4 DEF FindBundle, Goto, IInv, TypeOK
    <3>2. QED BY <1>1, <1>2, <1>3, <1>5, <1>6, <1>8, <1>9, <2>1, <2>2, <3>1,
                 WorkerStep DEF Publishing
  <2>5. QED BY <2>3, <2>4
<1>14. CASE Publish(a)
  <2>1. /\ pc[a] = "renaming" /\ store' = store \cup {temp[a]} /\ temp[a] \in Contents
        /\ temp[a] = retrieved[held[a].of]
    BY <1>6, <1>14 DEF Publish
  <2>2. TypeOK'
    <3>1. /\ TypeOK /\ Failed \in Outcome /\ Bundled(a) \in Outcome
          /\ "ended" \in Places /\ store \subseteq store' /\ store' \subseteq Contents
      BY <2>1, ResultsAreTyped DEF IInv, TypeOK, Places
    <3>2. QED BY <1>1, <1>14, <2>1, <3>1, WorkIsTyped DEF Publish, End, Remove
  <2>3. /\ pc'[a] = "ended" /\ temp'[a] = Nothing
        /\ outcome'[a] = IF temp[a] \in store THEN Failed ELSE Bundled(a)
    BY <1>14 DEF Publish, End, Goto, Remove, IInv, TypeOK
  <2>4. Bundled(a).bundle = temp[a] /\ (temp[a] \notin store => temp[a] \in Sound')
    BY <2>1 DEF Bundled, Sound, IInv, TypeOK
  <2>5. store \subseteq store' /\ retrieved[held[a].of] \in store'
    BY <2>1
  <2>6. temp[a] # Nothing
    BY <1>8, <2>1
  <2>7. QED BY <1>1, <1>2, <1>3, <1>5, <1>6, <1>8, <1>9, <2>1, <2>2, <2>3, <2>4, <2>5,
               <2>6, WorkerStep DEF Publishing
<1>15. QED BY <1>10, <1>11, <1>12, <1>13, <1>14

\* A worker starts its CLI, or dies.
LEMMA SpawnOrCrashPreserves ==
  ASSUME IInv, NEW a \in Attempts, Spawn(a) \/ Crash(a), UNCHANGED <<queryOf, spoiled>>
  PROVE  IInv'
<1>1. UNCHANGED <<staging, held, temp, store, outcome, retrieved>> /\ Sound' = Sound
  BY DEF Spawn, Crash, Sound
<1>2. OnlyAttempt(a)
  BY <1>1 DEF OnlyAttempt, Spawn, Crash, Goto, IInv, TypeOK
<1>3. TypeOK'
  BY <1>1 DEF Spawn, Crash, Goto, IInv, TypeOK
<1>4. /\ held[a].of # Nobody =>
           /\ held[a].doc \in Documents /\ node[held[a].of] \notin {"none", "starting"}
           /\ staging[held[a].of].there => staging[held[a].of].doc = held[a].doc
      /\ outcome[a].status = "usable" => outcome[a].bundle # Nothing
      /\ outcome[a].bundle # Nothing =>
           /\ outcome[a].bundle \in Sound /\ held[a].of \in Mine(a)
           /\ outcome[a].bundle = retrieved[held[a].of]
  BY DEF IInv, Holdings, Outcomes
<1>5. CASE Spawn(a)
  <2>1. /\ pc[a] = "idle" /\ pc'[a] = "waiting" /\ node'[a] = "starting"
        /\ node[a] = "none"
    BY <1>5 DEF Spawn, Goto, IInv, TypeOK, Processes
  <2>2. held[a] = NoDocument /\ outcome[a] = NoOutcome /\ temp[a] = Nothing
    BY <2>1 DEF IInv, Holdings, Bundles, Outcomes, Publishing
  <2>3. QED BY <1>1, <1>2, <1>3, <1>4, <2>1, <2>2, WorkerStep DEF Publishing, Resolved
<1>6. CASE Crash(a)
  <2>1. pc[a] # "done" /\ pc'[a] = "lost" /\ node'[a] = node[a]
    BY <1>6 DEF Crash, Goto, IInv, TypeOK
  <2>2. QED BY <1>1, <1>2, <1>3, <1>4, <2>1, WorkerStep DEF Publishing, Resolved
<1>7. QED BY <1>5, <1>6

\* The cleanup takes directories away, and only those with the query's prefix.
LEMMA CleanUpPreserves ==
  ASSUME IInv, NEW a \in Attempts, CleanUp(a), UNCHANGED <<queryOf, spoiled>>
  PROVE  IInv'
<1>1. /\ pc[a] = "ended" /\ a \in Mine(a)
      /\ UNCHANGED <<node, held, temp, store, outcome, retrieved>>
  BY AttemptAssumption DEF CleanUp, Mine, IInv, TypeOK
<1>2. \A x \in Attempts :
        /\ pc'[x] = IF x = a THEN "done" ELSE pc[x]
        /\ staging'[x] = IF x \in Mine(a) THEN NoDirectory ELSE staging[x]
        /\ Mine(x)' = Mine(x)
  BY DEF CleanUp, Goto, Mine, IInv, TypeOK
<1>3. TypeOK'
  <2>1. NoDirectory \in [there : BOOLEAN, raw : Contents \cup {Nothing},
                         doc : Documents \cup {Nothing}]
    BY DEF NoDirectory
  <2>2. staging' \in [Attempts -> [there : BOOLEAN, raw : Contents \cup {Nothing},
                                   doc : Documents \cup {Nothing}]]
    BY <2>1 DEF CleanUp, IInv, TypeOK
  <2>3. pc' \in [Attempts -> Places]
    BY DEF CleanUp, Goto, IInv, TypeOK, Places
  <2>4. QED BY <1>1, <2>2, <2>3 DEF IInv, TypeOK, Places
<1>4. /\ ~ NoDirectory.there /\ NoDirectory.raw = Nothing
      /\ NoDirectory.doc \notin {"usable", "kept"}
  BY DEF NoDirectory, Nothing
<1>5. Directories'
  BY <1>1, <1>2, <1>4 DEF IInv, Directories
<1>6. Processes'
  BY <1>1, <1>2, <1>4 DEF IInv, Processes, Alive, Resolved
<1>7. Holdings'
  <2>1. \A x \in Attempts : held[x].of # Nobody => held[x].of \in Attempts
    BY DEF IInv, TypeOK
  <2>2. QED BY <1>1, <1>2, <1>4, <2>1 DEF IInv, Holdings, Publishing
<1>8. Bundles'
  BY <1>1, <1>2 DEF IInv, Bundles, Publishing
<1>9. Outcomes'
  BY <1>1, <1>2 DEF IInv, Outcomes, Sound
<1>10. Undisturbed'
  <2> SUFFICES ASSUME NEW x \in Attempts, Retained(x)', ~ Disturbed(x)'
               PROVE  /\ pc'[x] \in {"holding", "copying"} => staging'[x].there
                      /\ pc'[x] \in {"ended", "done"} =>
                           outcome[x].bundle # Nothing \/ retrieved[x] \in store
    BY <1>1 DEF Undisturbed
  <2>1. Retained(x) /\ ~ Disturbed(x)
    BY <1>1, <1>2 DEF Retained, Disturbed
  <2>2. x # a => x \notin Mine(a)
    BY <1>2 DEF Disturbed
  <2>3. QED BY <1>1, <1>2, <2>1, <2>2 DEF IInv, Undisturbed
<1>11. QED BY <1>3, <1>5, <1>6, <1>7, <1>8, <1>9, <1>10 DEF IInv

LEMMA NextIInv == IInv /\ [Next]_vars => IInv'
<1> SUFFICES ASSUME IInv, [Next]_vars PROVE IInv'
  OBVIOUS
<1>1. ASSUME NEW a \in Attempts, Cli(a) \/ Work(a) \/ Crash(a),
             UNCHANGED <<queryOf, spoiled>>
      PROVE  IInv'
  BY <1>1, CliPreserves, WaitingPreserves, PublishingPreserves, SpawnOrCrashPreserves,
     CleanUpPreserves DEF Work
<1>2. CASE UNCHANGED vars
  BY <1>2 DEF vars, IInv, TypeOK, Directories, Processes, Holdings, Bundles, Outcomes,
              Undisturbed, Retained, Disturbed, Mine, Alive, Sound
<1>3. QED BY <1>1, <1>2 DEF Next

-----------------------------------------------------------------------------
\* For any attempts, queries and payloads, with any directory names in common,
\* the attempts stay within their states.
THEOREM AttemptsAreTyped == Spec => []TypeOK
<1>1. IInv => TypeOK
  BY DEF IInv
<1>2. QED BY <1>1, InitIInv, NextIInv, PTL DEF Spec

\* A usable outcome has a sound bundle with a payload that was retrieved for a
\* query of its directory name, whatever times out, crashes or is removed.
THEOREM UsableIsOwnEvidence == Spec => []OwnEvidence
<1>1. IInv => OwnEvidence
  BY AttemptAssumption DEF IInv, OwnEvidence, Outcomes
<1>2. QED BY <1>1, InitIInv, NextIInv, PTL DEF Spec

\* A retained payload is lost only to an attempt that overlaps.
THEOREM PayloadsAreLostToOverlapOnly == Spec => []LostOnlyToOverlap
<1>1. IInv => LostOnlyToOverlap
  BY DEF IInv, LostOnlyToOverlap, Undisturbed
<1>2. QED BY <1>1, InitIInv, NextIInv, PTL DEF Spec

\* An attempt that has ended leaves no process, no directory and no temporary
\* bundle.
THEOREM EndedAttemptsLeaveNothing == Spec => []NothingLeftBehind
<1>1. IInv => NothingLeftBehind
  BY DEF IInv, NothingLeftBehind, Processes, Bundles, Resolved, Publishing
<1>2. QED BY <1>1, InitIInv, NextIInv, PTL DEF Spec

-----------------------------------------------------------------------------
(* Refinement: RetrievalAttempts implements AttemptResults.                 *)

\* A step hands over the result of one attempt, or neither a result nor a
\* bundle.
LEMMA HandOverStep ==
  ASSUME IInv, [Next]_vars
  PROVE  Handed!Next \/ UNCHANGED Handed!vars
<1> USE DEF Handed!vars
<1>1. ASSUME NEW a \in Attempts, NEW o \in Handed!Results, End(a, o),
             pc[a] \notin {"ended", "done", "lost"},
             Sound' = Sound \cup ({o.bundle} \ {Nothing})
      PROVE  Handed!Next
  <2>1. outcome[a] = NoOutcome
    BY <1>1 DEF IInv, Outcomes
  <2>2. QED BY <1>1, <2>1 DEF Handed!Next, Handed!HandOver, End
<1>2. /\ Failed \in Handed!Results /\ Failed.bundle = Nothing
      /\ [status |-> "native", bundle |-> Nothing] \in Handed!Results
  BY DEF Failed, Handed!Results
<1>3. ASSUME NEW a \in Attempts, End(a, Failed), UNCHANGED <<store, spoiled>>,
             pc[a] \notin {"ended", "done", "lost"}
      PROVE  Handed!Next
  <2>1. Sound' = Sound \cup ({Failed.bundle} \ {Nothing})
    BY <1>2, <1>3 DEF Sound
  <2>2. QED BY <1>1, <1>2, <1>3, <2>1
<1>4. ASSUME NEW a \in Attempts, UNCHANGED <<store, spoiled>>,
             \/ Resolve(a) \/ TimeOut(a) \/ KeepNative(a)
             \/ MakeBundle(a) \/ CopyRaw(a)
      PROVE  Handed!Next \/ UNCHANGED Handed!vars
  <2>1. CASE outcome' = outcome
    BY <1>4, <2>1 DEF Sound
  <2>2. CASE End(a, Failed)
    <3>1. pc[a] \notin {"ended", "done", "lost"}
      BY <1>4 DEF Resolve, TimeOut, KeepNative, MakeBundle, Declared, CopyRaw
    <3>2. QED BY <1>3, <1>4, <2>2, <3>1
  <2>3. CASE KeepNative(a)
    <3>1. Sound' = Sound
      BY <1>4 DEF Sound
    <3>2. QED BY <1>1, <1>2, <2>3, <3>1 DEF KeepNative
  <2>4. QED
    BY <1>4, <2>1, <2>2, <2>3 DEF Resolve, TimeOut, MakeBundle, CopyRaw
<1>5. ASSUME NEW a \in Attempts, FindBundle(a) \/ Publish(a),
             UNCHANGED spoiled
      PROVE  Handed!Next \/ UNCHANGED Handed!vars
  <2>1. /\ temp[a] \in Contents /\ temp[a] # Nothing /\ spoiled \subseteq store
        /\ pc[a] \notin {"ended", "done", "lost"}
    BY <1>5, ContentAssumption
       DEF FindBundle, Publish, IInv, Bundles, TypeOK
  <2>2. Bundled(a) \in Handed!Results /\ Bundled(a).bundle = temp[a]
    BY <2>1 DEF Bundled, Handed!Results
  <2>3. CASE FindBundle(a)
    <3>1. CASE temp[a] \in Sound
      <4>1. End(a, Bundled(a)) /\ Sound' = Sound \cup ({temp[a]} \ {Nothing})
        BY <1>5, <2>3, <3>1 DEF FindBundle, Sound
      <4>2. QED BY <1>1, <2>1, <2>2, <4>1
    <3>2. CASE temp[a] \in store \ Sound
      BY <1>3, <1>5, <2>1, <2>3, <3>2 DEF FindBundle
    <3>3. CASE temp[a] \notin store
      BY <1>5, <2>3, <3>3 DEF FindBundle, Sound
    <3>4. QED BY <3>1, <3>2, <3>3
  <2>4. CASE Publish(a)
    <3>1. CASE temp[a] \in store
      <4>1. End(a, Failed) /\ UNCHANGED <<store, spoiled>>
        BY <1>5, <2>4, <3>1 DEF Publish
      <4>2. QED BY <1>3, <2>1, <4>1
    <3>2. CASE temp[a] \notin store
      <4>1. End(a, Bundled(a)) /\ Sound' = Sound \cup ({temp[a]} \ {Nothing})
        BY <1>5, <2>1, <2>4, <3>2 DEF Publish, Sound
      <4>2. QED BY <1>1, <2>1, <2>2, <4>1
    <3>3. QED BY <3>1, <3>2
  <2>5. QED BY <1>5, <2>3, <2>4
<1>6. ASSUME NEW a \in Attempts, UNCHANGED spoiled,
             Cli(a) \/ Spawn(a) \/ Cancel(a) \/ CleanUp(a) \/ Crash(a)
      PROVE  UNCHANGED Handed!vars
  BY <1>6 DEF Cli, CreateAttempt, WriteRaw, WriteObservation, Exit,
              FailToStart, Fail, Spawn, Cancel, CleanUp, Crash, Sound
<1>7. CASE UNCHANGED vars
  BY <1>7 DEF vars, Sound
<1>8. ASSUME NEW a \in Attempts,
             \/ Resolve(a) \/ TimeOut(a) \/ KeepNative(a)
             \/ MakeBundle(a) \/ CopyRaw(a)
      PROVE  UNCHANGED store
  BY <1>8 DEF Resolve, TimeOut, KeepNative, MakeBundle, CopyRaw
<1>9. QED BY <1>4, <1>5, <1>6, <1>7, <1>8 DEF Next, Work

\* For any attempts on one tree, with any crashes, timeouts and cleanups, an
\* attempt looks to the run like one step that hands over its result
\* (_spawn_attempt): DiscoveryRun may take it for one.
THEOREM AttemptsHandOverOnce == Spec => HandsOverOnce
<1>1. Init => Handed!Init
  BY DEF Init, Handed!Init, Sound
<1>2. IInv /\ [Next]_vars => [Handed!Next]_(Handed!vars)
  BY HandOverStep
<1>3. QED
  BY <1>1, <1>2, InitIInv, NextIInv, PTL DEF Spec, HandsOverOnce, Handed!Spec
=============================================================================
