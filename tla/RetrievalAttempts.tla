-------------------------- MODULE RetrievalAttempts -------------------------
(***************************************************************************)
(* The attempts of one run's queries, side by side on one staging tree and *)
(* one evidence store. A worker spawns the Node CLI, which writes a raw    *)
(* payload and then an observation document into a directory of its own    *)
(* (packages/obscura-retrieval); the worker resolves the attempt by the    *)
(* document on disk (backend/app/discovery/cli.py), publishes the payload  *)
(* under its digest (backend/app/evidence/store.py) and removes what       *)
(* belongs to the query from the staging tree                              *)
(* (backend/app/discovery/runner.py).                                      *)
(*                                                                         *)
(* DiscoveryRun takes an attempt for one step, SpawnAttempt; this module   *)
(* is what happens in that step, and OwnEvidence what DiscoveryRun assumes *)
(* of it. Attempts of the same query overlap when a lease is lost.         *)
(***************************************************************************)
EXTENDS FiniteSets

CONSTANTS
  Attempts,   \* executions of a query
  Queries,    \* query ids
  Prefixes,   \* <<q, r>>: directories of r begin with the safe name of q
  Contents,   \* digests of raw payloads
  Crashes     \* whether workers die

Nothing == "nothing"
Empty   == "empty"
Nobody  == "nobody"

ASSUME AttemptAssumption ==
  /\ Prefixes \subseteq Queries \X Queries
  /\ \A q \in Queries : <<q, q>> \in Prefixes
  /\ Nobody \notin Attempts
ASSUME ContentAssumption == Nothing \notin Contents /\ Empty \notin Contents
ASSUME CrashAssumption == Crashes \in BOOLEAN

VARIABLES
  queryOf,   \* the query of every attempt; it never changes
  staging,   \* the directory of every attempt: is it there, the raw payload
             \* and the observation document in it
  node,      \* the CLI process of every attempt
  pc,        \* where its worker stands in _spawn_attempt
  held,      \* the attempt whose document it holds, and the document
  temp,      \* the temporary bundle it has beside the published ones: none,
             \* empty, or with a payload
  store,     \* the payloads that have a bundle under the evidence root
  spoiled,   \* those whose bundle has been damaged there before; constant
  outcome,   \* what it hands to the settle
  retrieved  \* history: the payload that each CLI retrieved

vars == <<queryOf, staging, node, pc, held, temp, store, spoiled, outcome,
          retrieved>>

\* What a document may say. Only "usable" and "kept" declare a raw payload, the
\* latter of a failure; "rejected" fails the wire contract.
Documents == {"usable", "kept", "native", "rejected"}
NoDirectory == [there |-> FALSE, raw |-> Nothing, doc |-> Nothing]
NoDocument  == [of |-> Nobody, doc |-> Nothing]
NoOutcome   == [status |-> "none", bundle |-> Nothing]
Failed      == [status |-> "failed", bundle |-> Nothing]

TypeOK ==
  /\ queryOf \in [Attempts -> Queries]
  /\ staging \in [Attempts -> [there : BOOLEAN, raw : Contents \cup {Nothing},
                               doc : Documents \cup {Nothing}]]
  /\ node \in [Attempts -> {"none", "starting", "running", "exited",
                          "failed", "killed"}]
  /\ pc \in [Attempts -> {"idle", "waiting", "holding", "copying", "copied",
                          "renaming", "ended", "done", "lost"}]
  /\ held \in [Attempts -> [of : Attempts \cup {Nobody},
                            doc : Documents \cup {Nothing}]]
  /\ temp \in [Attempts -> Contents \cup {Nothing, Empty}]
  /\ store \subseteq Contents
  /\ spoiled \subseteq store
  /\ outcome \in [Attempts -> [status : {"none", "usable", "native", "failed"},
                               bundle : Contents \cup {Nothing}]]
  /\ retrieved \in [Attempts -> Contents \cup {Nothing}]

Mine(a) == {b \in Attempts : <<queryOf[a], queryOf[b]>> \in Prefixes}
Documented == {b \in Attempts : staging[b].doc # Nothing}

Goto(a, place) == pc' = [pc EXCEPT ![a] = place]
End(a, result) ==
  /\ Goto(a, "ended")
  /\ outcome' = [outcome EXCEPT ![a] = result]
Hold(a, b) ==
  /\ Goto(a, "holding")
  /\ held' = [held EXCEPT ![a] = [of |-> b, doc |-> staging[b].doc]]

(***************************************************************************)
(* The CLI process                                                         *)
(***************************************************************************)
Spawn(a) ==
  /\ pc[a] = "idle"
  /\ Goto(a, "waiting")
  /\ node' = [node EXCEPT ![a] = "starting"]
  /\ UNCHANGED <<staging, held, temp, store, outcome, retrieved>>

CreateAttempt(a) ==
  /\ node[a] = "starting"
  /\ node' = [node EXCEPT ![a] = "running"]
  /\ staging' = [staging EXCEPT ![a].there = TRUE]
  /\ UNCHANGED <<pc, held, temp, store, outcome, retrieved>>

\* A page that is an access failure is not retained.
WriteRaw(a) ==
  /\ node[a] = "running"
  /\ staging[a].there /\ staging[a].raw = Nothing /\ staging[a].doc = Nothing
  /\ \E c \in Contents :
       /\ staging' = [staging EXCEPT ![a].raw = c]
       /\ retrieved' = [retrieved EXCEPT ![a] = c]
  /\ UNCHANGED <<node, pc, held, temp, store, outcome>>

\* The document declares the payload written before it, unless an error made
\* the CLI forget it.
WriteObservation(a) ==
  /\ node[a] = "running"
  /\ staging[a].there /\ staging[a].doc = Nothing
  /\ \E d \in Documents :
       /\ d \in {"usable", "kept"} => staging[a].raw # Nothing
       /\ staging' = [staging EXCEPT ![a].doc = d]
  /\ UNCHANGED <<node, pc, held, temp, store, outcome, retrieved>>

\* The directory is named on stdout once the document is written.
Exit(a) ==
  /\ node[a] = "running"
  /\ staging[a].doc # Nothing
  /\ node' = [node EXCEPT ![a] = "exited"]
  /\ UNCHANGED <<staging, pc, held, temp, store, outcome, retrieved>>

\* The runtime drifts from its pins, or its browser does not come up.
FailToStart(a) ==
  /\ node[a] = "starting"
  /\ node' = [node EXCEPT ![a] = "failed"]
  /\ UNCHANGED <<staging, pc, held, temp, store, outcome, retrieved>>

\* It dies later, or finds its directory gone.
Fail(a) ==
  /\ node[a] = "running"
  /\ node' = [node EXCEPT ![a] = "failed"]
  /\ UNCHANGED <<staging, pc, held, temp, store, outcome, retrieved>>

(***************************************************************************)
(* Resolving the attempt: run_retrieval_cli and _classify_result           *)
(***************************************************************************)

\* Only the document on disk counts, and only if it can be parsed.
Resolve(a) ==
  /\ pc[a] = "waiting"
  /\ node[a] \in {"exited", "failed"}
  /\ IF node[a] = "exited" /\ staging[a].doc \in Documents \ {"rejected"}
     THEN Hold(a, a) /\ UNCHANGED outcome
     ELSE End(a, Failed) /\ UNCHANGED held
  /\ UNCHANGED <<staging, node, temp, store, retrieved>>

Alive(a) == node[a] \in {"starting", "running"}
Kill(a) == node' = IF Alive(a) THEN [node EXCEPT ![a] = "killed"] ELSE node

\* The process group is killed, if it has not just exited; then a document is
\* looked for in the whole tree, first in the directories with this query's
\* prefix.
Recoverable(a) ==
  IF Documented \cap Mine(a) # {} THEN Documented \cap Mine(a) ELSE Documented
TimeOut(a) ==
  /\ pc[a] = "waiting"
  /\ Kill(a)
  /\ \/ /\ Recoverable(a) = {}
        /\ End(a, Failed)
        /\ UNCHANGED held
     \/ \E b \in Recoverable(a) :
          IF staging[b].doc = "rejected"
          THEN End(a, Failed) /\ UNCHANGED held
          ELSE Hold(a, b) /\ UNCHANGED outcome
  /\ UNCHANGED <<staging, temp, store, retrieved>>

\* Mutant: the cancelled task leaves its process group alone.
CancelUnkilled(a) ==
  /\ pc[a] = "waiting"
  /\ Goto(a, "ended")
  /\ UNCHANGED <<staging, node, held, temp, store, outcome, retrieved>>

\* arq's job timeout cancels the task: the process group is killed and the
\* cancellation goes on, through the cleanup.
Cancel(a) ==
  /\ pc[a] = "waiting"
  /\ Kill(a)
  /\ Goto(a, "ended")
  /\ UNCHANGED <<staging, held, temp, store, outcome, retrieved>>

(***************************************************************************)
(* Publishing the payload: _finalize_attempt_evidence, finalize_bundle     *)
(***************************************************************************)

\* A native failure without a payload is recorded as it is.
KeepNative(a) ==
  /\ pc[a] = "holding"
  /\ held[a].doc = "native"
  /\ End(a, [status |-> "native", bundle |-> Nothing])
  /\ UNCHANGED <<staging, node, held, temp, store, retrieved>>

Declared(a) == pc[a] = "holding" /\ held[a].doc \in {"usable", "kept"}

Remove(a) == temp' = [temp EXCEPT ![a] = Nothing]

\* Mutant: any directory of the run will do.
MakeBundleForAny(a) ==
  /\ Declared(a)
  /\ temp' = [temp EXCEPT ![a] = Empty]
  /\ Goto(a, "copying")
  /\ UNCHANGED <<staging, node, held, store, outcome, retrieved>>

\* The declared file must lie in a directory with this query's prefix.
Vetted(a) == held[a].of \in Mine(a) /\ staging[held[a].of].there

MakeBundle(a) ==
  /\ Declared(a)
  /\ IF Vetted(a)
     THEN /\ temp' = [temp EXCEPT ![a] = Empty]
          /\ Goto(a, "copying")
          /\ UNCHANGED outcome
     ELSE End(a, Failed) /\ UNCHANGED temp
  /\ UNCHANGED <<staging, node, held, store, retrieved>>

\* The file must still be there when it has been read.
CopyRaw(a) ==
  /\ pc[a] = "copying"
  /\ LET b == held[a].of
     IN  IF staging[b].there
         THEN /\ temp' = [temp EXCEPT ![a] = staging[b].raw]
              /\ Goto(a, "copied")
              /\ UNCHANGED outcome
         ELSE Remove(a) /\ End(a, Failed)
  /\ UNCHANGED <<staging, node, held, store, retrieved>>

\* Mutant: the outcome takes its status over from the document.
BundledAsDeclared(a) == [status |-> held[a].doc, bundle |-> temp[a]]

\* Of a retained failure the payload is kept, too.
Bundled(a) ==
  [status |-> IF held[a].doc = "usable" THEN "usable" ELSE "native",
   bundle |-> temp[a]]

Sound == store \ spoiled

\* A bundle of this digest is taken for the temporary one, if it verifies.
FindBundle(a) ==
  /\ pc[a] = "copied"
  /\ IF temp[a] \in store
     THEN /\ End(a, IF temp[a] \in Sound THEN Bundled(a) ELSE Failed)
          /\ Remove(a)
     ELSE Goto(a, "renaming") /\ UNCHANGED <<temp, outcome>>
  /\ UNCHANGED <<staging, node, held, store, retrieved>>

\* The temporary bundle is renamed to its digest. A directory that has appeared
\* there meanwhile is not empty, and the rename fails with an OSError that is
\* no FileExistsError; the temporary bundle is removed.
Publish(a) ==
  /\ pc[a] = "renaming"
  /\ store' = store \cup {temp[a]}
  /\ End(a, IF temp[a] \in store THEN Failed ELSE Bundled(a))
  /\ Remove(a)
  /\ UNCHANGED <<staging, node, held, retrieved>>

\* Mutant: the whole tree of the run is removed.
CleanUpRun(a) ==
  /\ pc[a] = "ended"
  /\ staging' = [b \in Attempts |-> NoDirectory]
  /\ Goto(a, "done")
  /\ UNCHANGED <<node, held, temp, store, outcome, retrieved>>

\* Every directory with this query's prefix goes, whoever is at work in it.
CleanUp(a) ==
  /\ pc[a] = "ended"
  /\ staging' = [b \in Attempts |-> IF b \in Mine(a) THEN NoDirectory
                                    ELSE staging[b]]
  /\ Goto(a, "done")
  /\ UNCHANGED <<node, held, temp, store, outcome, retrieved>>

\* The worker dies: nothing is cleaned up, a temporary bundle stays for good,
\* and the CLI, a session of its own, goes on.
Crash(a) ==
  /\ Crashes
  /\ pc[a] \notin {"idle", "done", "lost"}
  /\ Goto(a, "lost")
  /\ UNCHANGED <<staging, node, held, temp, store, outcome, retrieved>>

-----------------------------------------------------------------------------
Init ==
  /\ queryOf \in [Attempts -> Queries]
  /\ staging = [a \in Attempts |-> NoDirectory]
  /\ node = [a \in Attempts |-> "none"]
  /\ pc = [a \in Attempts |-> "idle"]
  /\ held = [a \in Attempts |-> NoDocument]
  /\ temp = [a \in Attempts |-> Nothing]
  /\ store \in SUBSET Contents /\ spoiled \in SUBSET store
  /\ outcome = [a \in Attempts |-> NoOutcome]
  /\ retrieved = [a \in Attempts |-> Nothing]

Cli(a) ==
  \/ CreateAttempt(a) \/ WriteRaw(a) \/ WriteObservation(a)
  \/ Exit(a) \/ FailToStart(a) \/ Fail(a)

Work(a) ==
  \/ Spawn(a) \/ Resolve(a) \/ TimeOut(a) \/ Cancel(a)
  \/ KeepNative(a) \/ MakeBundle(a) \/ CopyRaw(a) \/ FindBundle(a)
  \/ Publish(a) \/ CleanUp(a)

Next ==
  /\ \E a \in Attempts : Cli(a) \/ Work(a) \/ Crash(a)
  /\ UNCHANGED <<queryOf, spoiled>>

Spec == Init /\ [][Next]_vars

-----------------------------------------------------------------------------
\* What DiscoveryRun relies on, whatever was killed, recovered or removed on
\* the shared tree: a usable outcome names a bundle, the bundle is published
\* and sound, and its payload was retrieved for this very query, as far as
\* directory names can tell queries apart.
OwnEvidence ==
  \A a \in Attempts :
    /\ outcome[a].status = "usable" => outcome[a].bundle # Nothing
    /\ outcome[a].bundle # Nothing =>
         /\ outcome[a].bundle \in Sound
         /\ \E b \in Mine(a) : retrieved[b] = outcome[a].bundle

\* An attempt whose CLI has exited with a declared payload.
Retained(a) ==
  node[a] = "exited" /\ held[a].of = a /\ held[a].doc \in {"usable", "kept"}

\* Another attempt with a claim on its directory has cleaned up.
Disturbed(a) == \E b \in Attempts \ {a} : pc[b] = "done" /\ a \in Mine(b)

\* A retained payload gets lost only to the cleanup of an overlapping attempt
\* of its query or to a bundle that another attempt, or an earlier run, has
\* published for the same payload: attempts of other queries, their timeouts,
\* cleanups and crashes, do not disturb it.
LostOnlyToOverlap ==
  \A a \in Attempts :
    pc[a] = "done" /\ Retained(a) /\ ~ Disturbed(a) =>
      outcome[a].bundle # Nothing \/ retrieved[a] \in store

\* An attempt that has ended, by its own end, a timeout or a cancellation,
\* leaves nothing behind: neither a directory that a later recovery might take
\* up, nor a process that still writes one, nor a temporary bundle.
NothingLeftBehind ==
  \A a \in Attempts :
    pc[a] = "done" => ~ Alive(a) /\ ~ staging[a].there /\ temp[a] = Nothing

\* Attempts with the same payload share its bundle ("A concurrent attempt may
\* publish the same content-addressed bundle"): an undisturbed attempt with a
\* retained payload, of which no damaged bundle is in the way, ends with it.
RetainedIsBundled ==
  \A a \in Attempts :
    pc[a] = "done" /\ Retained(a) /\ ~ Disturbed(a) /\ retrieved[a] \notin spoiled =>
      outcome[a].bundle = retrieved[a]

\* Spawning a process, resolving its document and publishing its payload look
\* from outside like the one step that DiscoveryRun takes them for.
Handed == INSTANCE AttemptResults WITH
  results  <- outcome,
  bundles  <- Sound,
  NoResult <- NoOutcome

HandsOverOnce == Handed!Spec
=============================================================================
