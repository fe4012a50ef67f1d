-------------------------- MODULE KeyedWritesProofs --------------------------
(***************************************************************************)
(* What the idempotency seam and the campaign's row lock guarantee for any *)
(* set of clients, keys and requests, with or without faults.              *)
(*                                                                         *)
(* The argument has two locks. A key is held by one transaction at a time, *)
(* and only while it is unknown, so its operation commits once. The row is *)
(* held by one transaction at a time, so what was validated on the locked  *)
(* campaign (Result) is still its result at the commit. Everything else    *)
(* follows from recorded events being final (EventsStay).                  *)
(***************************************************************************)
EXTENDS KeyedWrites, SequenceTheorems, TLAPS

\* A request carries what its place in idempotency.execute promises.
CarriesItsPart(c) ==
  /\ call[c].at \in {"locking", "staged"} => ~ Known(call[c].key)
  /\ call[c].at = "staged" => call[c].answer = Result(campaign, call[c].request)
  /\ call[c].at \in {"answering", "enqueueing"} =>
       /\ call[c].answer # NoAnswer
       /\ events[call[c].key] =
            [request |-> call[c].request, answer |-> call[c].answer]

\* Nobody shares a key, nor the row of a campaign that exists.
LocksAreExclusive ==
  \A c, d \in Clients : c # d =>
    /\ call[c].at \in {"locking", "staged"} => ~ HoldsKey(d, call[c].key)
    /\ HoldsCampaign(c) /\ HoldsCampaign(d) => campaign = "missing"

EventsAreAnswered == \A k \in Keys : Known(k) => events[k].answer # NoAnswer
GivenIsRecorded ==
  \A g \in given : events[g[1]] = [request |-> g[2], answer |-> g[3]]
TrailBegins == audit # <<>>

IInv ==
  /\ TypeOK
  /\ \A c \in Clients : CarriesItsPart(c)
  /\ LocksAreExclusive
  /\ EventsAreAnswered
  /\ GivenIsRecorded
  /\ OncePerKey
  /\ TrailBegins
  /\ AuditIsALegalWalk

-----------------------------------------------------------------------------
(* Operators. *)

\* A mutation is validated to an answer of the contract, whatever the status.
LEMMA ResultTypes ==
  ASSUME NEW s \in CampaignStatuses \cup {"missing"}, NEW r \in AllRequests
  PROVE  Result(s, r) \in Answers /\ Result(s, r) # NoAnswer
<1>1. r.op = "update" => r.to \in CampaignStatuses \cup {"same"}
  BY DEF AllRequests, Updates, Create, Start
<1>2. r.op \in {"update", "create", "start"}
  BY DEF AllRequests, Updates, Create, Start
<1>3. QED
  BY <1>1, <1>2
     DEF Result, Is, Requested, Legal, Answers, Codes, NoAnswer,
         CampaignStatuses

LEMMA NoAnswerIsNone == NoAnswer \notin Answers
  BY DEF NoAnswer, Answers, Codes

\* What a success leaves behind: an update moves along a legal transition or
\* not at all and never touches an archived campaign with an intent, a start
\* finds the campaign active.
LEMMA SuccessIsLegal ==
  ASSUME NEW s \in CampaignStatuses \cup {"missing"}, NEW r \in AllRequests
  PROVE  /\ Result(s, r).code = "created" => r.op = "create"
         /\ Result(s, r).code = "started" => r.op = "start" /\ s = "active"
         /\ Result(s, r).code = "ok" =>
              /\ r.op = "update" /\ s # "missing"
              /\ Result(s, r).shown \in CampaignStatuses
              /\ Result(s, r).shown # s =>
                   <<s, Result(s, r).shown>> \in LegalTransitions
              /\ s = "archived" =>
                   ~ r.edits /\ Result(s, r).shown = s
<1>1. r.op = "update" => r.to \in CampaignStatuses \cup {"same"}
  BY DEF AllRequests, Updates, Create, Start
<1>2. r.op \in {"update", "create", "start"}
  BY DEF AllRequests, Updates, Create, Start
<1>3. QED
  BY <1>1, <1>2 DEF Result, Is, Requested, Legal, CampaignStatuses

LEMMA Pair ==
  ASSUME NEW S, NEW x \in S, NEW y \in S
  PROVE  LET t == <<x>> \o <<y>>
         IN  t \in Seq(S) /\ Len(t) = 2 /\ t[1] = x /\ t[2] = y
<1>1. <<x>> \in Seq(S) /\ <<y>> \in Seq(S) /\ Len(<<x>>) = 1 /\ Len(<<y>>) = 1
  OBVIOUS
<1>2. QED BY <1>1, ConcatProperties

\* The audit events of a request are typed, chained and legal from the status
\* the campaign has to the status the request leaves.
LEMMA TrailIsLegal ==
  ASSUME NEW s \in CampaignStatuses \cup {"missing"}, NEW r \in AllRequests
  PROVE  LET t == Trail(s, r, Result(s, r))
             to == IF Result(s, r).code = "ok" THEN Result(s, r).shown ELSE s
         IN  /\ t \in Seq(AuditEvents)
             /\ Len(t) <= 2
             /\ t = <<>> => to = s
             /\ t # <<>> =>
                  /\ s \notin {"missing", "archived"}
                  /\ t[1].before = s
                  /\ t[Len(t)].after = to
                  /\ Len(t) = 2 => t[2].before = t[1].after
                  /\ \A i \in 1 .. Len(t) :
                       /\ t[i].before # "archived"
                       /\ t[i].action = "transitioned" =>
                            <<t[i].before, t[i].after>> \in LegalTransitions
<1> DEFINE a == Result(s, r)
<1>1. CASE a.code = "started"
  <2>1. Trail(s, r, a) = <<[action |-> "run_created", before |-> s, after |-> s]>>
    BY <1>1 DEF Trail, Note
  <2>2. s = "active"  BY <1>1, SuccessIsLegal
  <2>3. QED BY <1>1, <2>1, <2>2 DEF AuditEvents, CampaignStatuses
<1>2. CASE a.code = "ok"
  <2> DEFINE E == [action |-> "updated", before |-> s, after |-> s]
             T == [action |-> "transitioned", before |-> s, after |-> a.shown]
  <2>1. /\ s \in CampaignStatuses
        /\ a.shown \in CampaignStatuses
        /\ a.shown # s => <<s, a.shown>> \in LegalTransitions
        /\ s = "archived" => ~ r.edits /\ a.shown = s
    BY <1>2, SuccessIsLegal
  <2>2. E \in AuditEvents /\ T \in AuditEvents
    BY <2>1 DEF AuditEvents
  <2>3. Trail(s, r, a) = (IF r.edits THEN <<E>> ELSE <<>>)
                      \o (IF a.shown # s THEN <<T>> ELSE <<>>)
    BY <1>2 DEF Trail, Note
  <2>4. CASE r.edits /\ a.shown # s
    <3>1. Trail(s, r, a) = <<E>> \o <<T>>  BY <2>3, <2>4, Zenon
    <3>2. s \notin {"missing", "archived"}
      BY <2>1, <2>4 DEF CampaignStatuses
    <3> HIDE DEF E, T, a
    <3>3. E.before = s /\ E.after = s /\ E.action = "updated"
      BY DEF E
    <3>4. T.before = s /\ T.after = a.shown
      BY DEF T
    <3>5. Trail(s, r, a) \in Seq(AuditEvents) /\ Len(Trail(s, r, a)) = 2
          /\ Trail(s, r, a)[1] = E /\ Trail(s, r, a)[2] = T
      BY <2>2, <3>1, Pair
    <3>6. QED BY <1>2, <2>1, <2>4, <3>2, <3>3, <3>4, <3>5 DEF a
  <2>5. CASE r.edits /\ a.shown = s
    <3>1. Trail(s, r, a) = <<E>>  BY <2>3, <2>5
    <3>2. s \notin {"missing", "archived"}
      BY <2>1, <2>5 DEF CampaignStatuses
    <3>3. QED BY <1>2, <2>2, <2>5, <3>1, <3>2
  <2>6. CASE ~ r.edits /\ a.shown # s
    <3>1. Trail(s, r, a) = <<T>>  BY <2>3, <2>6
    <3>2. s \notin {"missing", "archived"}
      BY <2>1, <2>6 DEF CampaignStatuses
    <3>3. QED BY <1>2, <2>1, <2>2, <2>6, <3>1, <3>2
  <2>7. CASE ~ r.edits /\ a.shown = s
    <3>1. Trail(s, r, a) = <<>>  BY <2>3, <2>7
    <3>2. QED BY <1>2, <2>7, <3>1
  <2>8. QED BY <2>4, <2>5, <2>6, <2>7
<1>3. CASE a.code \notin {"started", "ok"}
  <2>1. Trail(s, r, a) = <<>>  BY <1>3 DEF Trail
  <2>2. QED BY <1>3, <2>1
<1>4. QED BY <1>1, <1>2, <1>3

-----------------------------------------------------------------------------
(* Steps that are not commits change one request, and leave the tables. *)

\* What such a step does to the call of one client.
LEMMA CallMoves ==
  ASSUME TypeOK, NEW c \in Clients, call[c] # Idle
  PROVE  LET k == call[c].key
             r == call[c].request
         IN  /\ call[c] \in Calls /\ k \in Keys /\ r \in AllRequests
             /\ \A p : Goto(c, p) =>
                  call' = [call EXCEPT ![c] =
                    [at |-> p, key |-> k, request |-> r,
                     answer |-> call[c].answer]]
             /\ \A a : Return(c, a) =>
                  call' = [call EXCEPT ![c] =
                    [at |-> "answering", key |-> k, request |-> r, answer |-> a]]
             /\ \A a : Stage(c, a) =>
                  call' = [call EXCEPT ![c] =
                    [at |-> "staged", key |-> k, request |-> r, answer |-> a]]
<1>1. call[c] \in Calls
  BY DEF TypeOK
<1>2. QED BY <1>1 DEF Calls, Goto, Return, Stage

\* The invariant survives when one client's call becomes x.
LEMMA OneCallMoves ==
  ASSUME IInv, UNCHANGED tables, NEW c \in Clients, NEW x \in Calls \cup {Idle},
         call' = [call EXCEPT ![c] = x],
         x.at \in {"locking", "staged"} =>
           /\ ~ Known(x.key)
           /\ \A d \in Clients \ {c} : ~ HoldsKey(d, x.key),
         x.at = "staged" =>
           /\ x.answer = Result(campaign, x.request)
           /\ \/ x.request.op = "create" \/ campaign = "missing"
              \/ \A d \in Clients \ {c} : ~ HoldsCampaign(d),
         x.at \in {"answering", "enqueueing"} =>
           /\ x.answer # NoAnswer
           /\ events[x.key] = [request |-> x.request, answer |-> x.answer],
         offered' \subseteq Keys,
         given' \subseteq Keys \X AllRequests \X Answers,
         GivenIsRecorded'
  PROVE  IInv'
<1>1. call[c]' = x /\ \A d \in Clients \ {c} : call[d]' = call[d]
  BY DEF IInv, TypeOK
<1>2. TypeOK'
  BY DEF IInv, TypeOK, tables
<1>3. \A d \in Clients : CarriesItsPart(d)'
  <2> SUFFICES ASSUME NEW d \in Clients PROVE CarriesItsPart(d)'
    OBVIOUS
  <2>1. campaign' = campaign
    BY DEF tables
  <2>2. CASE d = c
    BY <1>1, <2>1, <2>2 DEF CarriesItsPart, Known, tables
  <2>3. CASE d # c
    BY <1>1, <2>1, <2>3 DEF IInv, CarriesItsPart, Known, tables
  <2>4. QED BY <2>2, <2>3
<1>4. LocksAreExclusive'
  <2> SUFFICES ASSUME NEW d \in Clients, NEW e \in Clients, d # e
               PROVE  /\ call[d]'.at \in {"locking", "staged"} =>
                           ~ HoldsKey(e, call[d].key)'
                      /\ HoldsCampaign(d)' /\ HoldsCampaign(e)' =>
                           campaign' = "missing"
    BY DEF LocksAreExclusive
  <2>1. CASE d # c /\ e # c
    BY <1>1, <2>1 DEF IInv, LocksAreExclusive, HoldsKey, HoldsCampaign, tables
  <2>2. CASE d = c
    BY <1>1, <2>2 DEF IInv, LocksAreExclusive, HoldsKey, HoldsCampaign, tables
  <2>3. CASE e = c
    BY <1>1, <2>3 DEF IInv, LocksAreExclusive, HoldsKey, HoldsCampaign, tables
  <2>4. QED BY <2>1, <2>2, <2>3
<1>5. /\ EventsAreAnswered'
      /\ OncePerKey'
      /\ TrailBegins'
      /\ AuditIsALegalWalk'
  BY DEF IInv, EventsAreAnswered, OncePerKey, TrailBegins, AuditIsALegalWalk,
         Known, tables
<1>6. QED BY <1>2, <1>3, <1>4, <1>5 DEF IInv

LEMMA IdleIsIdle == Idle.at = "idle" /\ Idle \notin Calls
  BY DEF Idle, Calls

\* Giving the recorded answer.
LEMMA GiveStep ==
  ASSUME IInv, NEW c \in Clients, call[c].at \in {"answering", "enqueueing"},
         Give(c), UNCHANGED tables
  PROVE  /\ given' \subseteq Keys \X AllRequests \X Answers
         /\ GivenIsRecorded'
<1>1. call[c] # Idle  BY IdleIsIdle
<1>2. /\ call[c].key \in Keys /\ call[c].request \in AllRequests
      /\ call[c].answer \in Answers
      /\ events[call[c].key] =
           [request |-> call[c].request, answer |-> call[c].answer]
  <2>1. CarriesItsPart(c)  BY DEF IInv
  <2>2. call[c] \in Calls  BY <1>1, CallMoves DEF IInv
  <2>3. QED BY <2>1, <2>2 DEF CarriesItsPart, Calls
<1>3. QED BY <1>2 DEF IInv, TypeOK, GivenIsRecorded, Give, tables

LEMMA ReplayStep ==
  ASSUME IInv, NEW c \in Clients, call[c] # Idle, Known(call[c].key), Replay(c),
         UNCHANGED <<tables, offered, given>>
  PROVE  IInv'
<1> DEFINE k == call[c].key
<1>1. call[c] \in Calls /\ k \in Keys /\ call[c].request \in AllRequests
  BY CallMoves DEF IInv
<1>2. /\ offered' \subseteq Keys /\ GivenIsRecorded'
      /\ given' \subseteq Keys \X AllRequests \X Answers
      /\ UNCHANGED tables
  BY DEF IInv, TypeOK, GivenIsRecorded, tables
<1>3. CASE events[k].request = call[c].request
  <2> DEFINE x == [at |-> "answering", key |-> k, request |-> call[c].request,
                   answer |-> events[k].answer]
  <2>1. call' = [call EXCEPT ![c] = x]
    BY <1>3, CallMoves DEF Replay, IInv
  <2>2. events[k] \in [request : AllRequests, answer : Answers \cup {NoAnswer}]
    BY <1>1 DEF IInv, TypeOK
  <2>3. x \in Calls
    BY <1>1, <2>2 DEF Calls
  <2>4. /\ x.answer # NoAnswer
        /\ events[x.key] = [request |-> x.request, answer |-> x.answer]
    BY <1>1, <1>3, <2>2 DEF IInv, EventsAreAnswered
  <2>5. x.at = "answering"  OBVIOUS
  <2> HIDE DEF x
  <2>6. QED BY <1>2, <2>1, <2>3, <2>4, <2>5, OneCallMoves
<1>4. CASE events[k].request # call[c].request
  BY <1>2, <1>4, OneCallMoves, IdleIsIdle DEF Replay, End
<1>5. QED BY <1>3, <1>4

-----------------------------------------------------------------------------
(* The commit. *)

\* A commit extends the trail by the legal events of what it validated.
LEMMA CommitKeepsTheTrail ==
  ASSUME IInv, NEW c \in Clients, Commit(c)
  PROVE  /\ campaign' \in CampaignStatuses \cup {"missing"}
         /\ audit' \in Seq(AuditEvents)
         /\ TrailBegins'
         /\ AuditIsALegalWalk'
         /\ campaign = "missing" => campaign' = "missing"
<1> DEFINE r == call[c].request
           t == Trail(campaign, r, Result(campaign, r))
           to == IF Result(campaign, r).code = "ok" THEN Result(campaign, r).shown
                 ELSE campaign
<1>1. call[c] # Idle  BY IdleIsIdle DEF Commit
<1>2. r \in AllRequests /\ call[c].answer = Result(campaign, r)
  BY <1>1, CallMoves DEF IInv, CarriesItsPart, Commit
<1>3. audit' = audit \o t /\ campaign' = to
  BY <1>2 DEF Commit
<1>4. /\ t \in Seq(AuditEvents)
      /\ Len(t) <= 2
      /\ t = <<>> => to = campaign
      /\ t # <<>> =>
           /\ campaign \notin {"missing", "archived"}
           /\ t[1].before = campaign
           /\ t[Len(t)].after = to
           /\ Len(t) = 2 => t[2].before = t[1].after
           /\ \A i \in 1 .. Len(t) :
                /\ t[i].before # "archived"
                /\ t[i].action = "transitioned" =>
                     <<t[i].before, t[i].after>> \in LegalTransitions
  <2> HIDE DEF r
  <2>1. campaign \in CampaignStatuses \cup {"missing"}  BY DEF IInv, TypeOK
  <2>2. QED BY <1>2, <2>1, TrailIsLegal
<1>5. to \in CampaignStatuses \cup {"missing"}
  BY <1>2, SuccessIsLegal DEF IInv, TypeOK
<1>6. audit \in Seq(AuditEvents) /\ audit # <<>> /\ Len(audit) \in Nat \ {0}
  BY EmptySeq DEF IInv, TypeOK, TrailBegins
<1>7. campaign = "missing" => to = "missing"
  BY <1>2, SuccessIsLegal DEF IInv
<1> HIDE DEF t, to, r
<1>8. CASE t = <<>>
  <2>1. audit' = audit /\ campaign' = campaign
    BY <1>3, <1>4, <1>6, <1>8, ConcatEmptySeq
  <2>2. QED BY <1>6, <2>1 DEF IInv, TypeOK, TrailBegins, AuditIsALegalWalk
<1>9. CASE t # <<>>
  <2>1. Len(t) \in {1, 2}
    <3>1. Len(t) \in Nat \ {0}
      BY <1>4, <1>9, EmptySeq, Zenon
    <3>2. Len(t) <= 2
      BY <1>4
    <3>3. \A n \in Nat \ {0} : n <= 2 => n \in {1, 2}
      OBVIOUS
    <3>4. QED BY <3>1, <3>2, <3>3, Zenon
  <2>2. /\ audit' \in Seq(AuditEvents)
        /\ Len(audit') = Len(audit) + Len(t)
        /\ \A i \in 1 .. Len(audit) : audit'[i] = audit[i]
        /\ \A i \in 1 .. Len(t) : audit'[Len(audit) + i] = t[i]
    BY <1>3, <1>4, <1>6, ConcatProperties
  <2>3. TrailBegins'
    BY <1>6, <2>1, <2>2, EmptySeq DEF TrailBegins
  <2>4. audit[Len(audit)].after = campaign
    BY <1>4, <1>9 DEF IInv, AuditIsALegalWalk
  <2>5. audit'[Len(audit')].after = campaign'
    BY <1>3, <1>4, <1>9, <2>1, <2>2
  <2>6. ASSUME NEW i \in 2 .. Len(audit')
        PROVE  /\ audit'[i].before = audit'[i - 1].after
               /\ audit'[i].before # "archived"
               /\ audit'[i].action = "transitioned" =>
                    <<audit'[i].before, audit'[i].after>> \in LegalTransitions
    <3>1. CASE i <= Len(audit)
      <4>1. audit'[i] = audit[i] /\ audit'[i - 1] = audit[i - 1]
        BY <1>6, <2>2, <3>1
      <4>2. i \in 2 .. Len(audit)
        BY <1>6, <3>1
      <4>3. QED BY <1>4, <1>9, <4>1, <4>2 DEF IInv, AuditIsALegalWalk
    <3>2. CASE i = Len(audit) + 1
      <4>1. audit'[i] = t[1] /\ audit'[i - 1] = audit[Len(audit)]
        BY <1>6, <2>1, <2>2, <3>2
      <4>2. QED BY <1>4, <1>9, <2>1, <2>4, <4>1
    <3>3. CASE Len(t) = 2 /\ i = Len(audit) + 2
      <4>1. audit'[i] = t[2] /\ audit'[i - 1] = t[1]
        BY <1>6, <2>2, <3>3
      <4>2. QED BY <1>4, <1>9, <3>3, <4>1
    <3>4. \/ i <= Len(audit) \/ i = Len(audit) + 1
          \/ Len(t) = 2 /\ i = Len(audit) + 2
      BY <1>6, <2>1, <2>2
    <3>5. QED BY <3>1, <3>2, <3>3, <3>4
  <2>7. QED BY <1>3, <1>5, <1>7, <2>2, <2>3, <2>5, <2>6 DEF AuditIsALegalWalk
<1>10. QED BY <1>3, <1>7, <1>8, <1>9

\* Recorded answers are final: whoever commits a key has found it unknown.
LEMMA CommitRecords ==
  ASSUME IInv, NEW c \in Clients, Commit(c)
  PROVE  /\ call[c] \in Calls /\ call[c].key \in Keys
         /\ call[c].request \in AllRequests
         /\ call[c].answer \in Answers /\ call[c].answer # NoAnswer
         /\ call[c].answer = Result(campaign, call[c].request)
         /\ ~ Known(call[c].key)
         /\ events' = [events EXCEPT ![call[c].key] =
              [request |-> call[c].request, answer |-> call[c].answer]]
         /\ call' = [call EXCEPT ![c] =
              [at |-> "answering", key |-> call[c].key,
               request |-> call[c].request, answer |-> call[c].answer]]
<1>1. call[c] # Idle  BY IdleIsIdle DEF Commit
<1>2. /\ call[c] \in Calls /\ call[c].key \in Keys
      /\ call[c].request \in AllRequests
  BY <1>1, CallMoves DEF IInv
<1>3. call[c].answer = Result(campaign, call[c].request) /\ ~ Known(call[c].key)
  BY DEF IInv, CarriesItsPart, Commit
<1>4. call[c].answer \in Answers /\ call[c].answer # NoAnswer
  BY <1>2, <1>3, ResultTypes DEF IInv, TypeOK
<1>5. QED BY <1>1, <1>2, <1>3, <1>4, CallMoves DEF IInv, Commit, Record

LEMMA CommitStep ==
  ASSUME IInv, NEW c \in Clients, Commit(c)
  PROVE  IInv'
<1> DEFINE k == call[c].key
           a == call[c].answer
           x == [at |-> "answering", key |-> k, request |-> call[c].request,
                 answer |-> a]
<1>1. /\ k \in Keys /\ a \in Answers /\ a # NoAnswer /\ ~ Known(k)
      /\ call[c].request \in AllRequests
      /\ a = Result(campaign, call[c].request)
      /\ call' = [call EXCEPT ![c] = x]
      /\ events' = [events EXCEPT ![k] = [request |-> call[c].request,
                                          answer |-> a]]
      /\ call[c].at = "staged"
  BY CommitRecords DEF Commit
<1>2. /\ call[c]' = x
      /\ \A d \in Clients \ {c} : call[d]' = call[d]
      /\ \A j \in Keys \ {k} : events'[j] = events[j] /\ made'[j] = made[j]
      /\ events'[k] = [request |-> call[c].request, answer |-> a]
      /\ made'[k] = IF a.code \in {"created", "started"} THEN made[k] + 1
                    ELSE made[k]
      /\ given' = given /\ offered' = offered
  BY <1>1 DEF IInv, TypeOK, Commit
<1>3. TypeOK'
  <2>1. x \in Calls  BY <1>1 DEF Calls
  <2>2. call' \in [Clients -> Calls \cup {Idle}]
    BY <1>1, <2>1 DEF IInv, TypeOK
  <2>3. events' \in [Keys -> [request : AllRequests,
                              answer : Answers \cup {NoAnswer}]]
    BY <1>1 DEF IInv, TypeOK
  <2>4. made' \in [Keys -> Nat]
    BY <1>1 DEF IInv, TypeOK, Commit
  <2>5. QED BY <1>2, <2>2, <2>3, <2>4, CommitKeepsTheTrail DEF IInv, TypeOK
<1>4. \A d \in Clients \ {c} : ~ HoldsKey(d, k)
  BY <1>1 DEF IInv, LocksAreExclusive
<1>5. \A d \in Clients : CarriesItsPart(d)'
  <2> SUFFICES ASSUME NEW d \in Clients PROVE CarriesItsPart(d)'
    OBVIOUS
  <2>1. CASE d = c
    BY <1>1, <1>2, <2>1 DEF CarriesItsPart
  <2>2. CASE d # c
    <3>1. call[d]' = call[d] /\ CarriesItsPart(d)
      BY <1>2, <2>2 DEF IInv
    <3>2. CASE call[d].at \in {"locking", "staged"}
      <4>1. call[d].key \in Keys \ {k} /\ call[d].request \in AllRequests
        BY <1>4, <2>2, <3>2, CallMoves, IdleIsIdle DEF IInv, HoldsKey
      <4>2. ~ Known(call[d].key)'
        BY <1>2, <3>1, <3>2, <4>1 DEF CarriesItsPart, Known
      <4>3. ASSUME call[d].at = "staged"
            PROVE  Result(campaign, call[d].request)'
                   = Result(campaign, call[d].request)
        <5>1. CASE call[d].request.op = "create"
          BY <3>1, <5>1 DEF Result
        <5>2. CASE call[c].request.op = "create"
          <6>1. campaign' = campaign
            BY <1>1, <5>2 DEF Commit, Result, Is
          <6>2. QED BY <3>1, <6>1 DEF Result, Requested, Legal
        <5>3. CASE /\ call[d].request.op # "create"
                   /\ call[c].request.op # "create"
          <6>1. campaign = "missing"
            BY <1>1, <2>2, <4>3, <5>3
               DEF IInv, LocksAreExclusive, HoldsCampaign
          <6>2. campaign' = campaign
            BY <6>1, CommitKeepsTheTrail
          <6>3. QED BY <3>1, <6>2 DEF Result, Requested, Legal
        <5>4. QED BY <5>1, <5>2, <5>3
      <4>4. QED BY <3>1, <3>2, <4>2, <4>3 DEF CarriesItsPart
    <3>3. CASE call[d].at \in {"answering", "enqueueing"}
      <4>1. call[d].key \in Keys /\ Known(call[d].key)
        <5>1. call[d].key \in Keys
          BY <3>3, CallMoves, IdleIsIdle DEF IInv
        <5>2. QED BY <3>1, <3>3, <5>1 DEF CarriesItsPart, Known, NoEvent
      <4>2. events'[call[d].key] = events[call[d].key]
        BY <1>1, <1>2, <4>1
      <4>3. QED BY <3>1, <3>3, <4>2 DEF CarriesItsPart
    <3>4. CASE call[d].at \notin {"locking", "staged", "answering", "enqueueing"}
      BY <3>1, <3>4 DEF CarriesItsPart
    <3>5. QED BY <3>2, <3>3, <3>4
  <2>3. QED BY <2>1, <2>2
<1>6. LocksAreExclusive'
  <2> SUFFICES ASSUME NEW d \in Clients, NEW e \in Clients, d # e
               PROVE  /\ call[d]'.at \in {"locking", "staged"} =>
                           ~ HoldsKey(e, call[d].key)'
                      /\ HoldsCampaign(d)' /\ HoldsCampaign(e)' =>
                           campaign' = "missing"
    BY DEF LocksAreExclusive
  <2>1. CASE d = c \/ e = c
    BY <1>2, <2>1 DEF HoldsKey, HoldsCampaign
  <2>2. CASE d # c /\ e # c
    BY <1>2, <2>2, CommitKeepsTheTrail
       DEF IInv, LocksAreExclusive, HoldsKey, HoldsCampaign
  <2>3. QED BY <2>1, <2>2
<1>7. EventsAreAnswered'
  BY <1>1, <1>2 DEF IInv, EventsAreAnswered, Known
<1>8. GivenIsRecorded'
  <2> SUFFICES ASSUME NEW g \in given
               PROVE  events'[g[1]] = [request |-> g[2], answer |-> g[3]]
    BY <1>2 DEF GivenIsRecorded
  <2>1. g[1] \in Keys /\ g[3] \in Answers
    BY DEF IInv, TypeOK
  <2>2. g[1] # k
    <3>1. events[g[1]] = [request |-> g[2], answer |-> g[3]]
      BY DEF IInv, GivenIsRecorded
    <3>2. g[3] # NoAnswer
      BY <2>1, NoAnswerIsNone
    <3>3. Known(g[1])
      BY <3>1, <3>2 DEF Known, NoEvent
    <3>4. QED BY <1>1, <3>3
  <2>3. QED BY <1>2, <2>1, <2>2 DEF IInv, GivenIsRecorded
<1>9. OncePerKey'
  <2> SUFFICES ASSUME NEW j \in Keys
               PROVE  /\ made'[j] <= 1
                      /\ made'[j] = 1 <=>
                           /\ Known(j)'
                           /\ events'[j].answer.code \in {"created", "started"}
    BY DEF OncePerKey
  <2>1. CASE j # k
    BY <1>2, <2>1 DEF IInv, OncePerKey, Known
  <2>2. CASE j = k
    <3>1. made[k] = 0
      BY <1>1 DEF IInv, OncePerKey, TypeOK
    <3>2. Known(k)'
      BY <1>1, <1>2 DEF Known, NoEvent
    <3>3. QED BY <1>1, <1>2, <2>2, <3>1, <3>2
  <2>3. QED BY <2>1, <2>2
<1>10. QED BY <1>3, <1>5, <1>6, <1>7, <1>8, <1>9, CommitKeepsTheTrail DEF IInv

-----------------------------------------------------------------------------
(* The specification. *)

LEMMA IInvInitially == Init => IInv
<1> SUFFICES ASSUME Init PROVE IInv
  OBVIOUS
<1> DEFINE e == [action |-> "created", before |-> "none", after |-> "draft"]
<1>1. audit = <<e>>
  BY DEF Init, Note
<1>2. e \in AuditEvents /\ e.after = "draft"
  BY DEF AuditEvents, CampaignStatuses
<1>3. audit \in Seq(AuditEvents) /\ Len(audit) = 1 /\ audit[1] = e
  BY <1>1, <1>2
<1>4. TypeOK
  <2>1. NoEvent \in [request : AllRequests, answer : Answers \cup {NoAnswer}]
    BY DEF NoEvent, AllRequests
  <2>2. QED BY <1>3, <2>1 DEF Init, TypeOK, CampaignStatuses
<1>5. \A c \in Clients : call[c] = Idle /\ call[c].at = "idle"
  BY IdleIsIdle DEF Init
<1>6. \A k \in Keys : ~ Known(k) /\ made[k] = 0
  BY DEF Init, Known
<1>7. (\A c \in Clients : CarriesItsPart(c)) /\ LocksAreExclusive
  BY <1>5 DEF CarriesItsPart, LocksAreExclusive, HoldsCampaign
<1>8. EventsAreAnswered /\ GivenIsRecorded /\ OncePerKey
  BY <1>6 DEF Init, EventsAreAnswered, GivenIsRecorded, OncePerKey
<1>9. TrailBegins
  BY <1>1 DEF TrailBegins
<1>10. AuditIsALegalWalk
  BY <1>2, <1>3 DEF Init, AuditIsALegalWalk
<1>11. QED BY <1>4, <1>7, <1>8, <1>9, <1>10 DEF IInv

LEMMA IInvStep ==
  ASSUME IInv, [Next]_vars
  PROVE  IInv'
<1>1. ASSUME NEW c \in Clients, NEW k \in Keys, NEW r \in Requests,
             Submit(c, k, r)
      PROVE  IInv'
  <2> DEFINE x == [at |-> "finding", key |-> k, request |-> r,
                   answer |-> NoAnswer]
  <2>1. x \in Calls  BY RequestAssumption DEF Calls
  <2>2. /\ UNCHANGED tables /\ offered' \subseteq Keys /\ GivenIsRecorded'
        /\ given' \subseteq Keys \X AllRequests \X Answers
        /\ call' = [call EXCEPT ![c] = x] /\ x.at = "finding"
    BY <1>1 DEF Submit, IInv, TypeOK, GivenIsRecorded, tables
  <2> HIDE DEF x
  <2>3. QED BY <2>1, <2>2, OneCallMoves
<1>2. ASSUME NEW c \in Clients, FindKey(c) \/ InsertKey(c) PROVE IInv'
  <2>1. call[c] # Idle  BY <1>2, IdleIsIdle DEF FindKey, InsertKey
  <2>2. CASE Known(call[c].key)
    BY <1>2, <2>1, <2>2, ReplayStep DEF FindKey, InsertKey
  <2>3. CASE ~ Known(call[c].key)
    <3> DEFINE X(p) == [at |-> p, key |-> call[c].key,
                        request |-> call[c].request, answer |-> call[c].answer]
    <3>1. /\ UNCHANGED tables /\ offered' \subseteq Keys /\ GivenIsRecorded'
          /\ given' \subseteq Keys \X AllRequests \X Answers
      BY <1>2 DEF FindKey, InsertKey, IInv, TypeOK, GivenIsRecorded, tables
    <3>2. X("inserting") \in Calls /\ X("locking") \in Calls
      BY <2>1, CallMoves DEF IInv, Calls
    <3>3. CASE FindKey(c)
      <4>1. call' = [call EXCEPT ![c] = X("inserting")]
        BY <2>1, <2>3, <3>3, CallMoves DEF FindKey, IInv
      <4>2. QED BY <3>1, <3>2, <4>1, OneCallMoves
    <3>4. CASE InsertKey(c)
      <4>1. call' = [call EXCEPT ![c] = X("locking")]
        BY <2>1, <2>3, <3>4, CallMoves DEF InsertKey, IInv
      <4>2. /\ ~ Known(X("locking").key)
            /\ \A d \in Clients \ {c} : ~ HoldsKey(d, X("locking").key)
        BY <2>3, <3>4 DEF InsertKey
      <4>3. QED BY <3>1, <3>2, <4>1, <4>2, OneCallMoves
    <3>5. QED BY <1>2, <3>3, <3>4
  <2>4. QED BY <2>2, <2>3
<1>3. ASSUME NEW c \in Clients, StageOperation(c) PROVE IInv'
  <2> DEFINE r == call[c].request
             x == [at |-> "staged", key |-> call[c].key, request |-> r,
                   answer |-> Result(campaign, r)]
  <2>1. call[c] # Idle  BY <1>3, IdleIsIdle DEF StageOperation
  <2>2. call[c] \in Calls /\ r \in AllRequests /\ call[c].key \in Keys
    BY <2>1, CallMoves DEF IInv
  <2>3. x \in Calls
    BY <2>2, ResultTypes DEF IInv, TypeOK, Calls
  <2>4. call' = [call EXCEPT ![c] = x]
    BY <1>3, <2>1, CallMoves DEF StageOperation, IInv
  <2>5. /\ UNCHANGED tables /\ offered' \subseteq Keys /\ GivenIsRecorded'
        /\ given' \subseteq Keys \X AllRequests \X Answers
    BY <1>3 DEF StageOperation, IInv, TypeOK, GivenIsRecorded, tables
  <2>6. /\ ~ Known(x.key)
        /\ \A d \in Clients \ {c} : ~ HoldsKey(d, x.key)
    BY <1>3 DEF StageOperation, IInv, CarriesItsPart, LocksAreExclusive
  <2>7. \/ x.request.op = "create" \/ campaign = "missing"
        \/ \A d \in Clients \ {c} : ~ HoldsCampaign(d)
    BY <1>3 DEF StageOperation
  <2>8. x.at = "staged" /\ x.answer = Result(campaign, x.request)
    OBVIOUS
  <2> HIDE DEF x
  <2>9. QED BY <2>3, <2>4, <2>5, <2>6, <2>7, <2>8, OneCallMoves
<1>4. ASSUME NEW c \in Clients, Commit(c) PROVE IInv'
  BY <1>4, CommitStep
<1>5. ASSUME NEW c \in Clients, Answer(c) PROVE IInv'
  <2>1. call[c] # Idle  BY <1>5, IdleIsIdle DEF Answer
  <2>2. UNCHANGED tables /\ offered' \subseteq Keys
    BY <1>5 DEF Answer, IInv, TypeOK
  <2>3. CASE call[c].answer.code = "started"
    <3> DEFINE x == [at |-> "enqueueing", key |-> call[c].key,
                     request |-> call[c].request, answer |-> call[c].answer]
    <3>1. x \in Calls /\ x.at = "enqueueing"
      BY <2>1, CallMoves DEF IInv, Calls
    <3>2. call' = [call EXCEPT ![c] = x]
      BY <1>5, <2>1, <2>3, CallMoves DEF Answer, IInv
    <3>3. GivenIsRecorded' /\ given' \subseteq Keys \X AllRequests \X Answers
      BY <1>5, <2>3 DEF Answer, IInv, TypeOK, GivenIsRecorded, tables
    <3>4. /\ x.answer # NoAnswer
          /\ events[x.key] = [request |-> x.request, answer |-> x.answer]
      BY <1>5 DEF Answer, IInv, CarriesItsPart
    <3> HIDE DEF x
    <3>5. QED BY <2>2, <3>1, <3>2, <3>3, <3>4, OneCallMoves
  <2>4. CASE call[c].answer.code # "started"
    <3>1. GivenIsRecorded' /\ given' \subseteq Keys \X AllRequests \X Answers
      BY <1>5, <2>2, <2>4, GiveStep DEF Answer
    <3>2. QED
      BY <1>5, <2>2, <2>4, <3>1, OneCallMoves, IdleIsIdle DEF Answer, End
  <2>5. QED BY <2>3, <2>4
<1>6. ASSUME NEW c \in Clients, OfferJobs(c) PROVE IInv'
  <2>1. call[c] # Idle  BY <1>6, IdleIsIdle DEF OfferJobs
  <2>2. UNCHANGED tables /\ offered' \subseteq Keys
    BY <1>6, <2>1, CallMoves DEF OfferJobs, IInv, TypeOK
  <2>3. GivenIsRecorded' /\ given' \subseteq Keys \X AllRequests \X Answers
    BY <1>6, <2>2, GiveStep DEF OfferJobs
  <2>4. QED BY <1>6, <2>2, <2>3, OneCallMoves, IdleIsIdle DEF OfferJobs, End
<1>7. ASSUME NEW c \in Clients, Dies(c) PROVE IInv'
  <2>1. /\ UNCHANGED tables /\ offered' \subseteq Keys /\ GivenIsRecorded'
        /\ given' \subseteq Keys \X AllRequests \X Answers
    BY <1>7 DEF Dies, IInv, TypeOK, GivenIsRecorded, tables
  <2>2. QED BY <1>7, <2>1, OneCallMoves, IdleIsIdle DEF Dies, End
<1>8. CASE UNCHANGED vars
  <2>1. campaign' = campaign
    BY <1>8 DEF vars, tables
  <2>2. \A c \in Clients : CarriesItsPart(c)'
    BY <1>8, <2>1 DEF IInv, vars, tables, CarriesItsPart, Known
  <2>3. QED
    BY <1>8, <2>2
       DEF IInv, vars, tables, TypeOK, LocksAreExclusive, HoldsKey,
           HoldsCampaign, EventsAreAnswered, GivenIsRecorded, OncePerKey,
           TrailBegins, AuditIsALegalWalk, Known
<1>9. QED
  BY <1>1, <1>2, <1>3, <1>4, <1>5, <1>6, <1>7, <1>8 DEF Next, Serve

\* The strengthening holds in every reachable state.
THEOREM WritesAreConsistent == Spec => []IInv
  BY IInvInitially, IInvStep, PTL DEF Spec

\* Types (idempotency.execute and its callers).
THEOREM WriteTypes == Spec => []TypeOK
  BY WritesAreConsistent, PTL DEF IInv

\* One key, one effect, however often it is sent and wherever a request dies
\* (idempotency.service._claim and execute).
THEOREM KeysActOnce == Spec => []OncePerKey
<1>1. IInv => OncePerKey  BY DEF IInv
<1>2. QED BY <1>1, WritesAreConsistent, PTL

\* All retries of a key hear one answer to one request (_replay).
THEOREM RetriesAgree == Spec => []SameAnswer
<1>1. IInv => SameAnswer
  <2> SUFFICES ASSUME IInv, NEW g \in given, NEW h \in given, g[1] = h[1]
               PROVE  g = h
    BY DEF SameAnswer
  <2>1. /\ g \in Keys \X AllRequests \X Answers
        /\ h \in Keys \X AllRequests \X Answers
    BY DEF IInv, TypeOK
  <2>2. [request |-> g[2], answer |-> g[3]] = [request |-> h[2], answer |-> h[3]]
    BY DEF IInv, GivenIsRecorded
  <2>3. g[2] = h[2] /\ g[3] = h[3]
    BY <2>2
  <2>4. QED BY <2>1, <2>3
<1>2. QED BY <1>1, WritesAreConsistent, PTL

\* The campaign's audit trail is a legal walk to its present status, although
\* each PATCH is validated before it is committed (_get_campaign_locked).
THEOREM AuditWalksLegally == Spec => []AuditIsALegalWalk
<1>1. IInv => AuditIsALegalWalk  BY DEF IInv
<1>2. QED BY <1>1, WritesAreConsistent, PTL

\* A run is committed only while its campaign is active (start_discovery_run).
THEOREM RunsStartWhileActive == Spec => StartedWhileActive
<1> DEFINE A == \A k \in Keys :
                  (events'[k] # events[k] /\ events'[k].answer.code = "started")
                     => campaign = "active"
<1>1. IInv /\ [Next]_vars => [A]_vars
  <2> SUFFICES ASSUME IInv, [Next]_vars, NEW k \in Keys,
                      events'[k] # events[k],
                      events'[k].answer.code = "started"
               PROVE  campaign = "active"
    OBVIOUS
  <2>1. ASSUME NEW c \in Clients, Commit(c) PROVE campaign = "active"
    <3>1. /\ call[c].key = k
          /\ events'[k].answer = Result(campaign, call[c].request)
      <4>1. events \in [Keys -> [request : AllRequests,
                                 answer : Answers \cup {NoAnswer}]]
        BY DEF IInv, TypeOK
      <4>2. /\ call[c].key \in Keys
            /\ call[c].answer = Result(campaign, call[c].request)
            /\ events' = [events EXCEPT ![call[c].key] =
                 [request |-> call[c].request, answer |-> call[c].answer]]
        BY <2>1, CommitRecords
      <4>3. QED BY <4>1, <4>2
    <3>2. campaign \in CampaignStatuses \cup {"missing"}
      BY DEF IInv, TypeOK
    <3>3. call[c].request \in AllRequests
      BY <2>1, CommitRecords
    <3>4. QED BY <3>1, <3>2, <3>3, SuccessIsLegal
  <2>2. CASE ~ \E c \in Clients : Commit(c)
    BY <2>2
       DEF Next, Serve, Submit, FindKey, InsertKey, StageOperation, Answer,
           OfferJobs, Dies, tables, vars
  <2>3. QED BY <2>1, <2>2
<1>2. QED BY <1>1, WritesAreConsistent, PTL DEF Spec, StartedWhileActive

\* Whoever is told that a run has started is told so after its jobs were
\* offered, fresh or replayed (start_discovery_run).
THEOREM StartsAreOffered == Spec => []StartedIsOffered
<1>1. Init => StartedIsOffered
  BY IdleIsIdle DEF Init, StartedIsOffered
<1>2. IInv /\ StartedIsOffered /\ [Next]_vars => StartedIsOffered'
  <2> SUFFICES ASSUME IInv, StartedIsOffered, [Next]_vars, NEW g \in given',
                      g[3].code = "started"
               PROVE  g[1] \in offered'
    BY DEF StartedIsOffered
  <2>1. ASSUME NEW c \in Clients, Answer(c) PROVE g[1] \in offered'
    BY <2>1 DEF Answer, Give, StartedIsOffered, tables
  <2>2. ASSUME NEW c \in Clients, OfferJobs(c) PROVE g[1] \in offered'
    BY <2>2 DEF OfferJobs, Give, StartedIsOffered, tables
  <2>3. ASSUME NEW c \in Clients, Commit(c) PROVE g[1] \in offered'
    BY <2>3 DEF Commit, StartedIsOffered
  <2>4. CASE ~ \E c \in Clients : Answer(c) \/ OfferJobs(c) \/ Commit(c)
    BY <2>4
       DEF Next, Serve, Submit, FindKey, InsertKey, StageOperation, Dies, vars,
           StartedIsOffered
  <2>5. QED BY <2>1, <2>2, <2>3, <2>4
<1>3. QED BY <1>1, <1>2, WritesAreConsistent, PTL DEF Spec

-----------------------------------------------------------------------------
(* Refinement: KeyedWrites implements SerialWrites. A request takes effect  *)
(* at its commit, the rest of it is not seen.                               *)

\* What a commit does to the tables is what the request does at once.
LEMMA CommitPerforms ==
  ASSUME IInv, NEW c \in Clients, Commit(c)
  PROVE  Serial!Perform(call[c].key, call[c].request)
<1>0. /\ call[c].key \in Keys /\ call[c].request \in AllRequests
      /\ call[c].answer \in Answers
  BY CommitRecords
<1>1. PICK k \in Keys, r \in AllRequests, a \in Answers :
        /\ k = call[c].key /\ r = call[c].request
        /\ a = Result(campaign, r) /\ a = call[c].answer
        /\ a # NoAnswer /\ ~ Known(k)
        /\ events' = [events EXCEPT ![k] = [request |-> r, answer |-> a]]
  <2>1. /\ call[c].answer = Result(campaign, call[c].request)
        /\ call[c].answer # NoAnswer /\ ~ Known(call[c].key)
        /\ events' = [events EXCEPT ![call[c].key] =
             [request |-> call[c].request, answer |-> call[c].answer]]
    BY CommitRecords
  <2>2. QED BY <1>0, <2>1, Zenon
<1>2. \A entry \in Recorded : entry[1] # k
  BY <1>1 DEF Recorded
<1>3. Recorded' = Recorded \cup {<<k, r, a>>}
  <2>1. /\ Known(k)' /\ events'[k] = [request |-> r, answer |-> a]
        /\ \A j \in Keys \ {k} :
             events'[j] = events[j] /\ (Known(j)' <=> Known(j))
    BY <1>1 DEF IInv, TypeOK, Known, NoEvent
  <2>2. {j \in Keys : Known(j)}' = {j \in Keys : Known(j)} \cup {k}
    BY <1>1, <2>1
  <2>3. QED BY <1>1, <2>1, <2>2 DEF Recorded
<1>4. Reply(Committed, r) = a
  BY <1>1 DEF Reply, Committed
<1>5. Committed' = After(Committed, k, r)
  <2>1. /\ audit' = audit \o Trail(campaign, r, a)
        /\ campaign' = IF a.code = "ok" THEN a.shown ELSE campaign
        /\ made' = [made EXCEPT ![k] =
                      IF a.code \in {"created", "started"} THEN @ + 1 ELSE @]
    BY <1>1 DEF Commit
  <2>2. QED BY <1>4, <2>1 DEF After, Committed
<1>6. given' = given
  BY DEF Commit
<1>7. Serial!Perform(k, r)
  BY <1>2, <1>3, <1>4, <1>5, <1>6 DEF Serial!Perform
<1>8. QED BY <1>1, <1>7

\* What a client is told is on record.
LEMMA AnswersTell ==
  ASSUME IInv, NEW c \in Clients, call[c].at \in {"answering", "enqueueing"},
         Give(c), UNCHANGED tables
  PROVE  \E entry \in Recorded : Serial!Tell(entry)
<1> DEFINE entry == <<call[c].key, call[c].request, call[c].answer>>
<1>1. /\ call[c].answer # NoAnswer
      /\ events[call[c].key] =
           [request |-> call[c].request, answer |-> call[c].answer]
  BY DEF IInv, CarriesItsPart
<1>2. call[c].key \in Keys
  BY IdleIsIdle, CallMoves DEF IInv
<1>3. entry \in Recorded
  BY <1>1, <1>2 DEF Recorded, Known, NoEvent
<1>4. Committed' = Committed /\ Recorded' = Recorded
  BY DEF tables, Committed, Recorded, Known
<1>5. given' = given \cup {entry}
  BY DEF Give
<1>6. QED BY <1>3, <1>4, <1>5 DEF Serial!Tell

\* Clients see requests that take effect one after the other, each at once
\* (idempotency.execute with the row lock of _get_campaign_locked).
THEOREM WritesActSerially == Spec => ActsSerially
<1>1. Init => Serial!Init
  <2> SUFFICES ASSUME Init PROVE Serial!Init
    OBVIOUS
  <2>1. Recorded = {}
    BY DEF Init, Recorded, Known
  <2>2. Committed \in [campaign : {"draft", "missing"},
                       audit : {Note("created", "none", "draft")},
                       made : {[k \in Keys |-> 0]}]
    BY DEF Init, Committed
  <2>3. QED BY <2>1, <2>2 DEF Init, Serial!Init
<1>2. IInv /\ [Next]_vars => [Serial!Next]_(Serial!vars)
  <2> SUFFICES ASSUME IInv, [Next]_vars
               PROVE  Serial!Next \/ UNCHANGED Serial!vars
    OBVIOUS
  <2>1. ASSUME NEW c \in Clients, Commit(c) PROVE Serial!Next
    <3>1. call[c].key \in Keys /\ call[c].request \in AllRequests
      BY <2>1, CommitRecords
    <3>2. QED BY <2>1, <3>1, CommitPerforms DEF Serial!Next
  <2>2. ASSUME NEW c \in Clients, Answer(c) \/ OfferJobs(c), Give(c)
        PROVE  Serial!Next
    <3>1. call[c].at \in {"answering", "enqueueing"} /\ UNCHANGED tables
      BY <2>2 DEF Answer, OfferJobs
    <3>2. QED BY <2>2, <3>1, AnswersTell DEF Serial!Next
  <2>3. CASE UNCHANGED <<tables, given>>
    BY <2>3 DEF Serial!vars, tables, Committed, Recorded, Known
  <2>4. CASE UNCHANGED vars
    BY <2>3, <2>4 DEF vars
  <2>5. ASSUME NEW c \in Clients,
               \/ Serve(c) \/ Dies(c)
               \/ \E k \in Keys, r \in Requests : Submit(c, k, r)
        PROVE  \/ Commit(c)
               \/ (Answer(c) \/ OfferJobs(c)) /\ Give(c)
               \/ UNCHANGED <<tables, given>>
    BY <2>5 DEF Serve, Dies, Submit, FindKey, InsertKey, StageOperation,
                Answer, OfferJobs
  <2>6. QED BY <2>1, <2>2, <2>3, <2>4, <2>5 DEF Next
<1>3. QED
  BY <1>1, <1>2, WritesAreConsistent, PTL DEF Spec, ActsSerially, Serial!Spec
=============================================================================
