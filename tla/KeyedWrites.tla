---------------------------- MODULE KeyedWrites -----------------------------
(***************************************************************************)
(* The keyed writes of a workspace: the creation of campaigns, and PATCHes *)
(* of one campaign and starts of its discovery runs (campaigns/service.py  *)
(* and discovery/service.py under backend/app), through the idempotency    *)
(* seam (backend/app/idempotency/service.py), with concurrent requests,    *)
(* retries of a key, its reuse for another request, and requests that die  *)
(* at any point.                                                           *)
(*                                                                         *)
(* A request is one transaction: it claims its key, locks the campaign,    *)
(* validates and stages its mutation, and commits key, mutation, audit and *)
(* answer together. Until then it holds the unique key and the row lock    *)
(* that others wait for. A start enqueues its run's jobs after the commit. *)
(***************************************************************************)
EXTENDS Naturals, Sequences, FiniteSets

CONSTANTS
  Clients,    \* requests in flight at a time
  Keys,       \* idempotency keys, each chosen by a client
  Requests,   \* the requests clients send
  Faulty      \* whether requests die and the queue refuses jobs

CampaignStatuses == {"draft", "active", "paused", "archived"}
LegalTransitions ==
  {<<"draft", "active">>, <<"active", "paused">>, <<"paused", "active">>,
   <<"active", "archived">>, <<"paused", "archived">>}

\* A PATCH may edit fields, ask for a status, or both; "same" asks for none.
Updates == [op : {"update"}, edits : BOOLEAN, to : CampaignStatuses \cup {"same"}]
Create  == [op |-> "create", edits |-> FALSE, to |-> "same"]
Start   == [op |-> "start", edits |-> FALSE, to |-> "same"]
AllRequests == Updates \cup {Create, Start}

Codes == {"created", "ok", "started",
          "not_found", "not_active", "archived", "illegal"}
Successes == {"created", "ok", "started"}
Answers == [code : Codes, shown : CampaignStatuses \cup {"missing"}]
NoAnswer == [code |-> "none", shown |-> "missing"]
NoKey == "no key"

ASSUME RequestAssumption == Requests \subseteq AllRequests
ASSUME KeyAssumption == NoKey \notin Keys
ASSUME FaultAssumption == Faulty \in BOOLEAN

VARIABLES
  campaign,   \* campaigns.status, "missing" when there is no such row
  audit,      \* audit events of the campaign and its runs, in commit order,
              \* each with the campaign's status before and after it
  made,       \* the number of rows, campaigns and runs, made under each key
  events,     \* idempotency_events: the request and the answer of each key
  offered,    \* keys whose run has had all its jobs offered to the queue
  call,       \* each request in flight: where it stands, its key, what it
              \* asks for, and the answer it has staged or gives
  given       \* every answer given so far, with its key and request

tables == <<campaign, audit, made, events>>
vars == <<tables, offered, call, given>>

NoEvent == [request |-> Start, answer |-> NoAnswer]
Known(k) == events[k] # NoEvent

Idle == [at |-> "idle", key |-> NoKey, request |-> Start, answer |-> NoAnswer]
Calls ==
  [at : {"finding", "inserting", "locking", "staged", "answering", "enqueueing"},
   key : Keys, request : AllRequests, answer : Answers \cup {NoAnswer}]

AuditEvents ==
  [action : {"created", "updated", "transitioned", "run_created"},
   before : CampaignStatuses \cup {"none"}, after : CampaignStatuses]

TypeOK ==
  /\ campaign \in CampaignStatuses \cup {"missing"}
  /\ audit \in Seq(AuditEvents)
  /\ made \in [Keys -> Nat]
  /\ events \in [Keys -> [request : AllRequests,
                          answer : Answers \cup {NoAnswer}]]
  /\ offered \subseteq Keys
  /\ call \in [Clients -> Calls \cup {Idle}]
  /\ given \subseteq Keys \X AllRequests \X Answers

Goto(c, place) == call' = [call EXCEPT ![c].at = place]
Stage(c, answer) ==
  call' = [call EXCEPT ![c].at = "staged", ![c].answer = answer]
Return(c, answer) ==
  call' = [call EXCEPT ![c].at = "answering", ![c].answer = answer]
End(c) == call' = [call EXCEPT ![c] = Idle]
Give(c) ==
  given' = given \cup {<<call[c].key, call[c].request, call[c].answer>>}

(***************************************************************************)
(* The operation, on the status s that the campaign's row lock shows       *)
(***************************************************************************)
Is(code, status) == [code |-> code, shown |-> status]

\* The status the PATCH leaves behind; a draft is not archived, and so on.
Requested(s, r) == IF r.to = "same" THEN s ELSE r.to
Legal(s, r) ==
  Requested(s, r) # s => <<s, Requested(s, r)>> \in LegalTransitions

\* Any PATCH of an archived campaign that carries an intent is refused, even
\* one that asks for the status it has.
Result(s, r) ==
  IF r.op = "create" THEN Is("created", "draft")
  ELSE IF s = "missing" THEN Is("not_found", "missing")
  ELSE IF r.op = "start"
  THEN IF s = "active" THEN Is("started", s) ELSE Is("not_active", s)
  ELSE IF s = "archived" /\ (r.edits \/ r.to # "same") THEN Is("archived", s)
  ELSE IF Legal(s, r) THEN Is("ok", Requested(s, r)) ELSE Is("illegal", s)

Note(action, from, to) ==
  <<[action |-> action, before |-> from, after |-> to]>>

\* The audit events of an update that succeeds, the edit before the
\* transition, and of a start; a creation has those of another campaign.
Trail(s, r, a) ==
  CASE a.code = "started" -> Note("run_created", s, s)
    [] a.code = "ok" ->
         (IF r.edits THEN Note("updated", s, s) ELSE <<>>)
         \o (IF a.shown # s THEN Note("transitioned", s, a.shown) ELSE <<>>)
    [] OTHER -> <<>>

(***************************************************************************)
(* The transaction: idempotency.execute                                    *)
(***************************************************************************)
Submit(c, k, r) ==
  /\ call[c] = Idle
  /\ call' = [call EXCEPT ![c] = [at |-> "finding", key |-> k, request |-> r,
                                  answer |-> NoAnswer]]
  /\ UNCHANGED <<tables, offered, given>>

\* Mutant: another request under a taken key is answered with nothing.
ReplayNothing(c) ==
  LET event == events[call[c].key]
  IN  Return(c, IF event.request = call[c].request THEN event.answer
                ELSE NoAnswer)

\* A committed key gives its recorded answer to the same request and refuses
\* any other.
Replay(c) ==
  LET event == events[call[c].key]
  IN  IF event.request = call[c].request THEN Return(c, event.answer)
      ELSE End(c)

FindKey(c) ==
  /\ call[c].at = "finding"
  /\ IF Known(call[c].key) THEN Replay(c) ELSE Goto(c, "inserting")
  /\ UNCHANGED <<tables, offered, given>>

\* The transaction holds its key from the insert to its end, and the row lock
\* of the campaign from the read.
HoldsCampaign(c) == call[c].at = "staged" /\ call[c].request.op # "create"
HoldsKey(c, k) == call[c].at \in {"locking", "staged"} /\ call[c].key = k

\* Mutant: an insert does not wait for an open claim of the same key.
InsertUnchecked(c) ==
  /\ call[c].at = "inserting"
  /\ Goto(c, "locking")
  /\ UNCHANGED <<tables, offered, given>>

\* The insert waits for an open claim of the key and finds it committed, or
\* gone with a transaction that was rolled back.
InsertKey(c) ==
  /\ call[c].at = "inserting"
  /\ \A d \in Clients : ~ HoldsKey(d, call[c].key)
  /\ IF Known(call[c].key) THEN Replay(c) ELSE Goto(c, "locking")
  /\ UNCHANGED <<tables, offered, given>>

\* Mutant: the campaign is read without its lock.
StageUnlocked(c) ==
  /\ call[c].at = "locking"
  /\ Stage(c, Result(campaign, call[c].request))
  /\ UNCHANGED <<tables, offered, given>>

\* SELECT ... FOR UPDATE, then validation and the staged mutation. The lock
\* waits for a transaction that has the row; a missing row locks nothing, and
\* a creation needs no lock.
StageOperation(c) ==
  /\ call[c].at = "locking"
  /\ \/ call[c].request.op = "create" \/ campaign = "missing"
     \/ \A d \in Clients : ~ HoldsCampaign(d)
  /\ Stage(c, Result(campaign, call[c].request))
  /\ UNCHANGED <<tables, offered, given>>

\* Mutant: an error is answered, but not recorded under its key.
RecordSuccess(c) ==
  events' = IF call[c].answer.code \in Successes
            THEN [events EXCEPT ![call[c].key] =
                    [request |-> call[c].request, answer |-> call[c].answer]]
            ELSE events

\* An error of the domain is recorded like a success.
Record(c) ==
  events' = [events EXCEPT ![call[c].key] =
               [request |-> call[c].request, answer |-> call[c].answer]]

\* Key, mutation, audit and recorded answer become visible together.
Commit(c) ==
  /\ call[c].at = "staged"
  /\ Record(c)
  /\ LET a == call[c].answer
     IN  /\ audit' = audit \o Trail(campaign, call[c].request, a)
         /\ campaign' = IF a.code = "ok" THEN a.shown ELSE campaign
         /\ made' = [made EXCEPT ![call[c].key] =
                       IF a.code \in {"created", "started"} THEN @ + 1 ELSE @]
  /\ Goto(c, "answering")
  /\ UNCHANGED <<offered, given>>

\* Mutant: a replayed answer goes out without its jobs being offered.
AnswerWithoutOffer(c) ==
  /\ call[c].at = "answering"
  /\ Give(c)
  /\ End(c)
  /\ UNCHANGED <<tables, offered>>

\* The answer is given; that of a started run goes by the queue first, fresh
\* or replayed.
Answer(c) ==
  /\ call[c].at = "answering"
  /\ IF call[c].answer.code = "started"
     THEN Goto(c, "enqueueing") /\ UNCHANGED given
     ELSE Give(c) /\ End(c)
  /\ UNCHANGED <<tables, offered>>

OfferJobs(c) ==
  /\ call[c].at = "enqueueing"
  /\ offered' = offered \cup {call[c].key}
  /\ Give(c)
  /\ End(c)
  /\ UNCHANGED tables

\* The queue refuses a job (503, retry with the same key), the plan cannot be
\* loaded, the connection drops or the server stops: an open transaction is
\* rolled back, a committed one stays.
Dies(c) ==
  /\ Faulty
  /\ call[c] # Idle
  /\ End(c)
  /\ UNCHANGED <<tables, offered, given>>

-----------------------------------------------------------------------------
Init ==
  /\ campaign \in {"draft", "missing"}
  /\ audit = Note("created", "none", "draft")
  /\ made = [k \in Keys |-> 0]
  /\ events = [k \in Keys |-> NoEvent]
  /\ offered = {}
  /\ call = [c \in Clients |-> Idle]
  /\ given = {}

Serve(c) ==
  \/ FindKey(c) \/ InsertKey(c) \/ StageOperation(c) \/ Commit(c)
  \/ Answer(c) \/ OfferJobs(c)

Next ==
  \E c \in Clients :
    \/ \E k \in Keys, r \in Requests : Submit(c, k, r)
    \/ Serve(c)
    \/ Dies(c)

Spec == Init /\ [][Next]_vars

-----------------------------------------------------------------------------
\* However often a key is sent and wherever a request dies, its operation
\* takes effect once at most, and its effect and its recorded answer appear
\* together: a row is made under a key exactly when the key answers so.
OncePerKey ==
  \A k \in Keys :
    /\ made[k] <= 1
    /\ made[k] = 1 <=>
         Known(k) /\ events[k].answer.code \in {"created", "started"}

\* Every retry of a key is told the same: one request and one answer per key,
\* also when the campaign has changed since.
SameAnswer == \A g, h \in given : g[1] = h[1] => g = h

\* The audit trail is a legal walk of the campaign from its creation to its
\* present status, with no event after its archiving, although every status
\* was validated before it was committed.
AuditIsALegalWalk ==
  campaign # "missing" =>
    /\ audit[Len(audit)].after = campaign
    /\ \A i \in 2 .. Len(audit) :
         /\ audit[i].before = audit[i - 1].after
         /\ audit[i].before # "archived"
         /\ audit[i].action = "transitioned" =>
              <<audit[i].before, audit[i].after>> \in LegalTransitions

\* Whoever is told that a run was started may count on its jobs having been
\* offered to the queue.
StartedIsOffered == \A g \in given : g[3].code = "started" => g[1] \in offered

\* Seen from outside, every request takes effect in one step, at its commit, on
\* what the others have left by then, although it was validated before and
\* some of them ran in between; and nobody is told anything else.
Committed == [campaign |-> campaign, audit |-> audit, made |-> made]

Reply(s, r) == Result(s.campaign, r)

After(s, k, r) ==
  LET a == Reply(s, r)
  IN  [campaign |-> IF a.code = "ok" THEN a.shown ELSE s.campaign,
       audit |-> s.audit \o Trail(s.campaign, r, a),
       made |-> [s.made EXCEPT ![k] =
                   IF a.code \in {"created", "started"} THEN @ + 1 ELSE @]]

Recorded ==
  {<<k, events[k].request, events[k].answer>> : k \in {j \in Keys : Known(j)}}

Serial == INSTANCE SerialWrites WITH
  Requests   <- AllRequests,
  Beginnings <- [campaign : {"draft", "missing"},
                 audit : {Note("created", "none", "draft")},
                 made : {[k \in Keys |-> 0]}],
  state      <- Committed,
  record     <- Recorded,
  heard      <- given

ActsSerially == Serial!Spec

\* A run is started only while the campaign is active, at the commit and not
\* only at the check: a pause or an archiving never slips in between.
StartedWhileActive ==
  [][\A k \in Keys :
       (events'[k] # events[k] /\ events'[k].answer.code = "started") =>
          campaign = "active"]_vars
=============================================================================
