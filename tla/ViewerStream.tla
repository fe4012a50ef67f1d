---------------------------- MODULE ViewerStream ----------------------------
(***************************************************************************)
(* A page that watches one discovery run: the run's progress in the        *)
(* database, the best-effort events that workers publish after their       *)
(* commits, the Server-Sent Events stream                                  *)
(* (backend/app/discovery/router.py and events.py), and the run page with  *)
(* its EventSource, its sticky liveness and its polling fallback           *)
(* (frontend/src/routes/campaigns/[campaignId]/runs/[runId]).              *)
(*                                                                         *)
(* What DiscoveryRun and ThreadProcessing model in full is here one        *)
(* variable, stage; they justify that it only advances.                    *)
(***************************************************************************)
EXTENDS Naturals, Sequences

CONSTANT Notes  \* bound: events published besides the two that end a phase
ASSUME NotesAssumption == Notes \in Nat

VARIABLES
  stage,    \* of the run: open, terminal, or complete: terminal with every
            \* Candidate fetched
  due,      \* events to publish for transitions that have committed
  notes,    \* other events published
  server,   \* where the stream's generator stands
  sent,     \* its completion_sent
  queue,    \* events on its subscription
  transit,  \* events on their way to the page
  source,   \* the page's EventSource; streamConnected while it is open
  load,     \* the read that the page's server load waits for
  seen,     \* the run that this load has read
  shown,    \* what the page has loaded: the run, and whether its
            \* Conversations are complete
  live      \* the page's effectiveLive

stream == <<server, sent, queue, transit, source>>
page   == <<load, seen, shown, live>>
vars   == <<stage, due, notes, stream, page>>

Stages == {"open", "terminal", "complete"}
Events == {"completed", "processed", "note"}
Runs   == {"none", "open", "terminal"}
Working == {"requested", "subscribing", "waiting", "checking"}

TypeOK ==
  /\ stage \in Stages
  /\ due \subseteq {"completed", "processed"}
  /\ notes \in 0..Notes
  /\ server \in Working \cup {"none", "ended", "failed"}
  /\ sent \in BOOLEAN
  /\ queue \in Seq(Events) /\ transit \in Seq(Events)
  /\ source \in {"closed", "connecting", "open"}
  /\ load \in {"idle", "run", "conversations"}
  /\ seen \in Runs
  /\ shown \in [run : Runs, conversations : {"unknown", "incomplete", "complete"}]
  /\ live \in BOOLEAN

(***************************************************************************)
(* The workers: commits, and the events they are followed by               *)
(***************************************************************************)
\* The last settle closes the run; without Candidates nothing is left to fetch.
Close ==
  /\ stage = "open"
  /\ \/ stage' = "terminal" /\ due' = due \cup {"completed"}
     \/ stage' = "complete" /\ due' = due \cup {"completed", "processed"}
  /\ UNCHANGED <<notes, stream, page>>

\* The reaper announces nothing.
Reap ==
  /\ stage = "open"
  /\ stage' \in {"terminal", "complete"}
  /\ UNCHANGED <<due, notes, stream, page>>

FetchLast ==
  /\ stage = "terminal"
  /\ stage' = "complete"
  /\ due' = due \cup {"processed"}
  /\ UNCHANGED <<notes, stream, page>>

Subscribed == server \in {"waiting", "checking"}
Deliver(e) == queue' = IF Subscribed THEN Append(queue, e) ELSE queue

\* In any order: the events of one run are published by several processes.
Publish(e) ==
  /\ e \in due
  /\ due' = due \ {e}
  /\ Deliver(e)
  /\ UNCHANGED <<stage, notes, server, sent, transit, source, page>>

PublishNote ==
  /\ notes < Notes
  /\ notes' = notes + 1
  /\ Deliver("note")
  /\ UNCHANGED <<stage, due, server, sent, transit, source, page>>

\* Redis does not answer, or the worker dies after its commit.
Lose(e) ==
  /\ e \in due
  /\ due' = due \ {e}
  /\ UNCHANGED <<stage, notes, stream, page>>

(***************************************************************************)
(* The stream: stream_discovery_events                                     *)
(***************************************************************************)
Streaming(place) == server' = place /\ UNCHANGED <<stage, due, notes, source, page>>

\* A run that has ended is announced at once; a complete one ends the stream.
Snapshot ==
  /\ server = "requested"
  /\ sent' = (stage # "open")
  /\ transit' = IF sent' THEN <<"completed">> ELSE << >>
  /\ Streaming(IF stage = "complete" THEN "ended" ELSE "subscribing")
  /\ UNCHANGED queue

\* What was published before is not heard.
Subscribe ==
  /\ server = "subscribing"
  /\ Streaming("waiting")
  /\ UNCHANGED <<sent, queue, transit>>

\* Mutant: the completion of discovery ends the stream.
ForwardAndEnd ==
  /\ server = "waiting" /\ queue # << >>
  /\ queue' = Tail(queue)
  /\ transit' = Append(transit, Head(queue))
  /\ sent' = (sent \/ Head(queue) = "completed")
  /\ Streaming(IF Head(queue) = "note" THEN "waiting" ELSE "ended")

Forward ==
  /\ server = "waiting" /\ queue # << >>
  /\ queue' = Tail(queue)
  /\ transit' = Append(transit, Head(queue))
  /\ sent' = (sent \/ Head(queue) = "completed")
  /\ Streaming(CASE Head(queue) = "completed" -> "checking"
                 [] Head(queue) = "processed" -> "ended"
                 [] OTHER                     -> "waiting")

\* After discovery.completed the database is read again.
Recheck ==
  /\ server = "checking"
  /\ Streaming(IF stage = "complete" THEN "ended" ELSE "waiting")
  /\ UNCHANGED <<sent, queue, transit>>

\* Mutant: silence is answered with a keepalive comment only.
HeartbeatBlind ==
  /\ server = "waiting" /\ queue = << >>
  /\ Streaming("waiting")
  /\ UNCHANGED <<sent, queue, transit>>

\* After a silence the database is read, for a publication that was lost.
Heartbeat ==
  /\ server = "waiting" /\ queue = << >>
  /\ sent' = (sent \/ stage # "open")
  /\ transit' = IF sent' /\ ~ sent THEN Append(transit, "completed") ELSE transit
  /\ Streaming(IF stage = "complete" THEN "ended" ELSE "waiting")
  /\ UNCHANGED queue

\* The database or Redis fails, the proxy cannot reach the API, or the
\* connection breaks, perhaps with events still on the way.
StreamFails ==
  /\ server \in Working
  /\ Streaming("failed")
  /\ transit' \in {transit, << >>}
  /\ UNCHANGED <<sent, queue>>

(***************************************************************************)
(* The page's EventSource                                                  *)
(***************************************************************************)
Connection(place, state) ==
  /\ server' = place
  /\ source' = state
  /\ sent' = FALSE
  /\ queue' = << >>
  /\ transit' = << >>
Connect    == Connection("requested", "connecting")
Disconnect == Connection("none", "closed")

\* invalidate('app:discovery-run'): the load starts anew, with the run.
Reload == load' = "run" /\ seen' = "none" /\ UNCHANGED <<shown, live>>

OnOpen ==
  /\ source = "connecting"
  /\ server # "failed"
  /\ source' = "open"
  /\ UNCHANGED <<stage, due, notes, server, sent, queue, transit, page>>

\* Mutant: an event that arrives during a load relies on that load.
OnEventMerged ==
  /\ source = "open"
  /\ transit # << >>
  /\ IF load = "idle" THEN Reload ELSE UNCHANGED page
  /\ IF Head(transit) = "processed"
     THEN Disconnect
     ELSE transit' = Tail(transit) /\ UNCHANGED <<server, sent, queue, source>>
  /\ UNCHANGED <<stage, due, notes>>

\* Every event prompts a load; the last one also closes the source.
OnEvent ==
  /\ source = "open"
  /\ transit # << >>
  /\ Reload
  /\ IF Head(transit) = "processed"
     THEN Disconnect
     ELSE transit' = Tail(transit) /\ UNCHANGED <<server, sent, queue, source>>
  /\ UNCHANGED <<stage, due, notes>>

\* The source is closed for good: polling takes over.
OnError ==
  /\ \/ source = "connecting" /\ server = "failed"
     \/ source = "open" /\ transit = << >> /\ server \in {"ended", "failed"}
  /\ Disconnect
  /\ UNCHANGED <<stage, due, notes, page>>

\* The poll timer, armed while the page is live without a stream.
Poll ==
  /\ live
  /\ source # "open"
  /\ Reload
  /\ UNCHANGED <<stage, due, notes, stream>>

(***************************************************************************)
(* The page's load: the run is read first, its Conversations after it      *)
(***************************************************************************)
HasSeen(run) ==
  /\ load = "run"
  /\ load' = "conversations"
  /\ seen' = run
  /\ UNCHANGED <<stage, due, notes, stream, shown, live>>

ReadRun == HasSeen(IF stage = "open" THEN "open" ELSE "terminal")
ReadRunFails == HasSeen("none")

IsLive(data) ==
  data.run = "open" \/ (data.run = "terminal" /\ data.conversations = "incomplete")

\* Mutant: liveness is what the last load says.
StickyLost(data) == IsLive(data)

\* stickyLive: only an authoritative answer takes it back.
EffectiveLive(data) ==
  \/ IsLive(data)
  \/ live /\ ~ (data.run # "none" /\ data.conversations = "complete")

\* The effect that owns the EventSource runs again when the run becomes
\* readable or unreadable and when the page becomes live or stops being so.
Follow(was, is) ==
  IF was = is THEN UNCHANGED stream ELSE IF is THEN Connect ELSE Disconnect

Show(data) ==
  /\ load = "conversations"
  /\ load' = "idle"
  /\ seen' = "none"
  /\ shown' = data
  /\ live' = EffectiveLive(data)
  /\ Follow(live /\ shown.run # "none", live' /\ data.run # "none")
  /\ UNCHANGED <<stage, due, notes>>

\* Mutant: the answer is the run's stage.
ReadConversationsAsStage == Show([run |-> seen, conversations |-> stage])

ReadConversations ==
  Show([run |-> seen,
        conversations |-> IF stage = "complete" THEN "complete" ELSE "incomplete"])
ReadConversationsFails == Show([run |-> seen, conversations |-> "unknown"])

-----------------------------------------------------------------------------
\* A visitor opens the page at any stage; its first load is under way.
Init ==
  /\ stage \in Stages
  /\ due = {} /\ notes = 0
  /\ server = "none" /\ sent = FALSE /\ queue = << >> /\ transit = << >>
  /\ source = "closed"
  /\ load = "run" /\ seen = "none"
  /\ shown = [run |-> "none", conversations |-> "unknown"]
  /\ live = FALSE

Worker ==
  \/ Close \/ Reap \/ FetchLast \/ PublishNote
  \/ \E e \in {"completed", "processed"} : Publish(e) \/ Lose(e)
Stream  == Snapshot \/ Subscribe \/ Forward \/ Recheck \/ Heartbeat
Browser == OnOpen \/ OnEvent \/ OnError
Load    == ReadRun \/ ReadRunFails \/ ReadConversations \/ ReadConversationsFails

Next == Worker \/ Stream \/ StreamFails \/ Browser \/ Poll \/ Load

Spec == Init /\ [][Next]_vars

\* The event loops, the 15 s heartbeat and the poll timer go on. A read may
\* fail, or be overtaken by the next load, any number of times, but not for
\* ever: the poll's delay grows beyond a load's time-outs. Nothing is assumed
\* of the workers, of publication or of the stream's health.
Fairness ==
  /\ WF_vars(Stream)
  /\ WF_vars(Browser)
  /\ WF_vars(Poll)
  /\ WF_vars(Load)
  /\ SF_vars(ReadRun)
  /\ SF_vars(seen # "none" /\ ReadConversations)

FairSpec == Spec /\ Fairness

-----------------------------------------------------------------------------
\* Neither side gives up early, whatever is lost or fails: a live page stops
\* watching only on a run that is complete, having just loaded it as such, and
\* the stream ends of itself only then.
NothingEndsEarly ==
  [][/\ live /\ ~ live' =>
          /\ stage = "complete"
          /\ shown' = [run |-> "terminal", conversations |-> "complete"]
     /\ server' = "ended" => stage = "complete"]_vars

\* A live page that does not show the run's end yet has a way to learn of it:
\* it polls, or a load is under way that will not answer with the run as it was
\* before, or an event waits for it, or its stream has yet to tell of the end,
\* or has stopped, which opens the way to polling. The one completion that the
\* stream sends is not spent on a load that had read the run already.
EndIsComing ==
  live /\ stage # "open" /\ shown.run # "terminal" =>
    \/ source # "open"
    \/ load = "run"
    \/ load = "conversations" /\ seen # "open"
    \/ transit # << >>
    \/ server \in Working /\ ~ sent
    \/ server \in {"ended", "failed"}

\* A live page catches up with the database, although every event may be lost,
\* the reaper sends none, and the stream may connect too late or never: it
\* shows the run's end, and it stops once all Candidates are fetched.
CatchesUp ==
  /\ (live /\ stage # "open") ~> (shown.run = "terminal")
  /\ (live /\ stage = "complete") ~> ~ live
=============================================================================
