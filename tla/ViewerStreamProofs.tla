-------------------------- MODULE ViewerStreamProofs --------------------------
(***************************************************************************)
(* Proofs about ViewerStream: that neither side gives up early rests on    *)
(* the order of commit and publication, and on nothing the channel does.   *)
(***************************************************************************)
EXTENDS ViewerStream, TLAPS

\* That all Candidates are fetched is announced after it is committed, and the
\* stream ends of itself only on that.
Announced ==
  /\ "processed" \in due => stage = "complete"
  /\ \A i \in 1..Len(queue) : queue[i] = "processed" => stage = "complete"
  /\ server = "ended" => stage = "complete"

IInv == TypeOK /\ Announced

-----------------------------------------------------------------------------
LEMMA InitIInv == Init => IInv
<1> SUFFICES ASSUME Init PROVE IInv
  OBVIOUS
<1>1. queue = << >> /\ transit = << >> /\ queue \in Seq(Events) /\ transit \in Seq(Events)
  BY DEF Init
<1>2. TypeOK
  <2>1. notes \in 0..Notes /\ due \subseteq {"completed", "processed"}
    BY NotesAssumption DEF Init
  <2>2. shown \in [run : Runs, conversations : {"unknown", "incomplete", "complete"}]
    BY DEF Init, Runs
  <2>3. QED BY <1>1, <2>1, <2>2 DEF Init, TypeOK, Runs
<1>3. Announced
  BY <1>1 DEF Init, Announced
<1>4. QED BY <1>2, <1>3 DEF IInv

LEMMA QueueLemma ==
  ASSUME NEW q \in Seq(Events), NEW word, NEW P,
         \A i \in 1..Len(q) : q[i] = word => P
  PROVE  /\ \A e \in Events : /\ Append(q, e) \in Seq(Events)
                              /\ (e = word => P) =>
                                   \A i \in 1..Len(Append(q, e)) :
                                     Append(q, e)[i] = word => P
         /\ q # << >> => /\ Head(q) \in Events /\ Tail(q) \in Seq(Events)
                         /\ Head(q) = word => P
                         /\ \A i \in 1..Len(Tail(q)) : Tail(q)[i] = word => P
  OBVIOUS

\* A step of the workers publishes no more than what is committed.
LEMMA WorkerPreserves == IInv /\ Worker => IInv'
<1> SUFFICES ASSUME IInv, Worker PROVE IInv'
  OBVIOUS
<1> USE DEF stream, page
<1>1. \A e \in Events : /\ Append(queue, e) \in Seq(Events)
                        /\ (e = "processed" => stage = "complete") =>
                             \A i \in 1..Len(Append(queue, e)) :
                               Append(queue, e)[i] = "processed" => stage = "complete"
  BY QueueLemma DEF IInv, TypeOK, Announced
<1>2. CASE Close \/ Reap \/ FetchLast
  <2>1. TypeOK'
    BY <1>2 DEF Close, Reap, FetchLast, IInv, TypeOK, Stages
  <2>2. Announced'
    BY <1>2 DEF Close, Reap, FetchLast, IInv, Announced
  <2>3. QED BY <2>1, <2>2 DEF IInv
<1>3. CASE PublishNote
  <2>1. queue' \in {queue, Append(queue, "note")} /\ "note" \in Events
    BY <1>3 DEF PublishNote, Deliver, Events
  <2>2. TypeOK'
    BY <1>1, <1>3, <2>1, NotesAssumption DEF PublishNote, IInv, TypeOK
  <2>3. Announced'
    BY <1>1, <1>3, <2>1 DEF PublishNote, IInv, Announced
  <2>4. QED BY <2>2, <2>3 DEF IInv
<1>4. ASSUME NEW e \in {"completed", "processed"}, Publish(e) PROVE IInv'
  <2>1. /\ queue' \in {queue, Append(queue, e)} /\ e \in Events
        /\ e = "processed" => stage = "complete"
    BY <1>4 DEF Publish, Deliver, Events, IInv, Announced
  <2>2. TypeOK'
    BY <1>1, <1>4, <2>1 DEF Publish, IInv, TypeOK
  <2>3. Announced'
    BY <1>1, <1>4, <2>1 DEF Publish, IInv, Announced
  <2>4. QED BY <2>2, <2>3 DEF IInv
<1>5. ASSUME NEW e \in {"completed", "processed"}, Lose(e) PROVE IInv'
  BY <1>5 DEF Lose, IInv, TypeOK, Announced
<1>6. QED BY <1>2, <1>3, <1>4, <1>5 DEF Worker

\* The stream ends on a run that is complete.
LEMMA StreamPreserves == IInv /\ (Stream \/ StreamFails) => IInv'
<1> SUFFICES ASSUME IInv, Stream \/ StreamFails PROVE IInv'
  OBVIOUS
<1> USE DEF page, Streaming
<1>1. /\ \A e \in Events : Append(transit, e) \in Seq(Events)
      /\ << >> \in Seq(Events) /\ <<"completed">> \in Seq(Events)
      /\ "completed" \in Events
  BY DEF IInv, TypeOK, Events
<1>2. queue # << >> =>
        /\ Head(queue) \in Events /\ Tail(queue) \in Seq(Events)
        /\ Head(queue) = "processed" => stage = "complete"
        /\ \A i \in 1..Len(Tail(queue)) : Tail(queue)[i] = "processed" => stage = "complete"
  BY QueueLemma DEF IInv, TypeOK, Announced
<1>3. CASE Snapshot \/ Subscribe \/ Recheck \/ Heartbeat
  <2>1. TypeOK'
    BY <1>1, <1>3 DEF Snapshot, Subscribe, Recheck, Heartbeat, IInv, TypeOK, Working
  <2>2. Announced'
    BY <1>3 DEF Snapshot, Subscribe, Recheck, Heartbeat, IInv, Announced
  <2>3. QED BY <2>1, <2>2 DEF IInv
<1>4. CASE Forward
  <2>1. TypeOK'
    BY <1>1, <1>2, <1>4 DEF Forward, IInv, TypeOK, Working
  <2>2. Announced'
    BY <1>2, <1>4 DEF Forward, IInv, Announced
  <2>3. QED BY <2>1, <2>2 DEF IInv
<1>5. CASE StreamFails
  BY <1>1, <1>5 DEF StreamFails, IInv, TypeOK, Announced
<1>6. QED BY <1>3, <1>4, <1>5 DEF Stream

\* The page opens, reads and closes streams.
LEMMA PagePreserves == IInv /\ (Browser \/ Poll \/ Load) => IInv'
<1> SUFFICES ASSUME IInv, Browser \/ Poll \/ Load PROVE IInv'
  OBVIOUS
<1> USE DEF Connection, Connect, Disconnect, Reload
<1>1. << >> \in Seq(Events) /\ (transit # << >> => Tail(transit) \in Seq(Events))
  BY DEF IInv, TypeOK
<1>2. CASE OnOpen \/ OnEvent \/ OnError
  <2>1. TypeOK'
    BY <1>1, <1>2 DEF OnOpen, OnEvent, OnError, page, IInv, TypeOK, Working, Runs
  <2>2. Announced'
    BY <1>2 DEF OnOpen, OnEvent, OnError, page, IInv, Announced
  <2>3. QED BY <2>1, <2>2 DEF IInv
<1>3. CASE Poll \/ ReadRun \/ ReadRunFails
  <2>1. TypeOK'
    BY <1>3 DEF Poll, ReadRun, ReadRunFails, HasSeen, stream, IInv, TypeOK, Runs
  <2>2. Announced'
    BY <1>3 DEF Poll, ReadRun, ReadRunFails, HasSeen, stream, IInv, Announced
  <2>3. QED BY <2>1, <2>2 DEF IInv
<1>4. ASSUME NEW answer \in {"unknown", "incomplete", "complete"},
             Show([run |-> seen, conversations |-> answer])
      PROVE  IInv'
  <2>1. \/ UNCHANGED stream
        \/ /\ server' \in {"requested", "none"} /\ source' \in {"connecting", "closed"}
           /\ sent' = FALSE /\ queue' = << >> /\ transit' = << >>
    BY <1>4 DEF Show, Follow
  <2>2. /\ UNCHANGED <<stage, due, notes>> /\ load' = "idle" /\ seen' = "none"
        /\ shown' = [run |-> seen, conversations |-> answer] /\ live' \in BOOLEAN
    BY <1>4 DEF Show, EffectiveLive, IsLive, IInv, TypeOK
  <2>3. TypeOK'
    BY <1>1, <2>1, <2>2 DEF stream, IInv, TypeOK, Working, Runs
  <2>4. Announced'
    BY <2>1, <2>2 DEF stream, IInv, Announced
  <2>5. QED BY <2>3, <2>4 DEF IInv
<1>5. CASE ReadConversations \/ ReadConversationsFails
  BY <1>4, <1>5 DEF ReadConversations, ReadConversationsFails
<1>6. QED BY <1>2, <1>3, <1>5 DEF Browser, Load

LEMMA NextIInv == IInv /\ [Next]_vars => IInv'
<1>1. IInv /\ UNCHANGED vars => IInv'
  BY DEF vars, stream, page, IInv, TypeOK, Announced
<1>2. QED BY <1>1, WorkerPreserves, StreamPreserves, PagePreserves DEF Next

-----------------------------------------------------------------------------
(* That the end is coming *)

\* The run's completion, too, is announced after it is committed, and only a
\* run that has ended is taken for one.
EndIsTrue ==
  /\ "completed" \in due => stage # "open"
  /\ \A i \in 1..Len(queue) : queue[i] = "completed" => stage # "open"
  /\ sent \/ seen = "terminal" \/ shown.run = "terminal" => stage # "open"
  /\ shown.run = "terminal" => seen # "open"

\* The page has a source only while it is live with a readable run, the source
\* has a stream, and what the stream has sent waits until the source is open.
SourceIsOwned ==
  /\ source # "closed" => live /\ shown.run # "none"
  /\ source # "closed" => server # "none"
  /\ source = "connecting" /\ sent => transit # << >> \/ server = "failed"

Coming == EndIsTrue /\ SourceIsOwned /\ EndIsComing

LEMMA InitComing == Init => Coming
  BY DEF Init, Coming, EndIsTrue, SourceIsOwned, EndIsComing

LEMMA WorkerKeepsComing == IInv /\ Coming /\ Worker => Coming'
<1> SUFFICES ASSUME IInv, Coming, Worker PROVE Coming'
  OBVIOUS
<1> USE DEF stream, page
<1>1. CASE Close \/ Reap \/ FetchLast
  <2>1. EndIsTrue' /\ SourceIsOwned'
    BY <1>1 DEF Close, Reap, FetchLast, Coming, EndIsTrue, SourceIsOwned
  <2>2. EndIsComing'
    <3>1. stage = "open" => ~ sent
      BY DEF Coming, EndIsTrue
    <3>2. source = "open" => server \in Working \cup {"ended", "failed"}
      BY DEF IInv, TypeOK, Coming, SourceIsOwned
    <3>3. UNCHANGED <<stream, page>>
      BY <1>1 DEF Close, Reap, FetchLast
    <3>4. QED BY <3>1, <3>2, <3>3 DEF Coming, EndIsComing
  <2>3. QED BY <2>1, <2>2 DEF Coming
<1>2. ASSUME NEW e \in Events, e = "completed" => stage # "open",
             queue' \in {queue, Append(queue, e)}, due' \subseteq due,
             UNCHANGED <<stage, server, sent, transit, source, page>>
      PROVE  Coming'
  <2>1. \A i \in 1..Len(queue') : queue'[i] = "completed" => stage # "open"
    <3>1. \A i \in 1..Len(Append(queue, e)) :
            Append(queue, e)[i] = "completed" => stage # "open"
      BY <1>2 DEF IInv, TypeOK, Coming, EndIsTrue
    <3>2. QED BY <1>2, <3>1 DEF Coming, EndIsTrue
  <2>2. EndIsTrue' /\ SourceIsOwned' /\ EndIsComing'
    BY <1>2, <2>1 DEF Coming, EndIsTrue, SourceIsOwned, EndIsComing
  <2>3. QED BY <2>2 DEF Coming
<1>3. CASE PublishNote
  BY <1>2, <1>3 DEF PublishNote, Deliver, Events
<1>4. ASSUME NEW e \in {"completed", "processed"}, Publish(e) PROVE Coming'
  <2>1. e \in Events /\ (e = "completed" => stage # "open")
    BY <1>4 DEF Publish, Events, Coming, EndIsTrue
  <2>2. QED BY <1>2, <1>4, <2>1 DEF Publish, Deliver
<1>5. ASSUME NEW e \in {"completed", "processed"}, Lose(e) PROVE Coming'
  BY <1>5 DEF Lose, Coming, EndIsTrue, SourceIsOwned, EndIsComing
<1>6. QED BY <1>1, <1>3, <1>4, <1>5 DEF Worker

\* Whatever makes the stream take the end for told also sends it.
LEMMA StreamKeepsComing == IInv /\ Coming /\ (Stream \/ StreamFails) => Coming'
<1> SUFFICES ASSUME IInv, Coming, Stream \/ StreamFails PROVE Coming'
  OBVIOUS
<1> USE DEF page, Streaming
<1>1. Append(transit, "completed") # << >>
  BY DEF IInv, TypeOK, Events
<1>2. CASE Snapshot \/ Subscribe \/ Recheck \/ Heartbeat
  <2>1. UNCHANGED <<stage, due, queue, source, page>>
    BY <1>2 DEF Snapshot, Subscribe, Recheck, Heartbeat
  <2>2. /\ sent' => stage # "open"
        /\ sent' => (sent /\ transit' = transit) \/ transit' # << >>
    <3>1. CASE Snapshot
      BY <3>1 DEF Snapshot
    <3>2. CASE Subscribe \/ Recheck
      BY <3>2 DEF Subscribe, Recheck, Coming, EndIsTrue
    <3>3. CASE Heartbeat
      BY <1>1, <3>3 DEF Heartbeat, Coming, EndIsTrue
    <3>4. QED BY <1>2, <3>1, <3>2, <3>3
  <2>3. server \in Working /\ server' \in Working \cup {"ended"}
    BY <1>2 DEF Snapshot, Subscribe, Recheck, Heartbeat, Working
  <2>4. EndIsTrue'
    BY <2>1, <2>2 DEF Coming, EndIsTrue
  <2>5. SourceIsOwned'
    BY <2>1, <2>2, <2>3 DEF Coming, SourceIsOwned, Working
  <2>6. EndIsComing'
    BY <2>1, <2>2, <2>3 DEF Coming, EndIsComing, Working
  <2>7. QED BY <2>4, <2>5, <2>6 DEF Coming
<1>3. CASE Forward
  <2>1. /\ Head(queue) \in Events
        /\ Head(queue) = "completed" => stage # "open"
        /\ \A i \in 1..Len(Tail(queue)) : Tail(queue)[i] = "completed" => stage # "open"
    BY <1>3, QueueLemma DEF Forward, IInv, TypeOK, Coming, EndIsTrue
  <2>2. transit' # << >>
    BY <1>3, <2>1 DEF Forward, IInv, TypeOK
  <2>3. server' # "none"
    BY <1>3 DEF Forward
  <2>4. EndIsTrue' /\ SourceIsOwned' /\ EndIsComing'
    BY <1>3, <2>1, <2>2, <2>3 DEF Forward, Coming, EndIsTrue, SourceIsOwned, EndIsComing
  <2>5. QED BY <2>4 DEF Coming
<1>4. CASE StreamFails
  BY <1>4 DEF StreamFails, Coming, EndIsTrue, SourceIsOwned, EndIsComing
<1>5. QED BY <1>2, <1>3, <1>4 DEF Stream

\* An event is spent on a load that reads the run after it; a load that fails
\* closes the source; one that brings old news changes nothing.
LEMMA PageKeepsComing == IInv /\ Coming /\ (Browser \/ Poll \/ Load) => Coming'
<1> SUFFICES ASSUME IInv, Coming, Browser \/ Poll \/ Load PROVE Coming'
  OBVIOUS
<1> USE DEF Connection, Connect, Disconnect, Reload
<1>1. CASE OnOpen
  <2>1. server \in Working \cup {"ended"}
    BY <1>1 DEF OnOpen, IInv, TypeOK, Coming, SourceIsOwned
  <2>2. QED BY <1>1, <2>1 DEF OnOpen, page, Coming, EndIsTrue, SourceIsOwned, EndIsComing
<1>2. CASE OnEvent \/ OnError \/ Poll
  BY <1>2 DEF OnEvent, OnError, Poll, page, stream, Coming, EndIsTrue, SourceIsOwned,
              EndIsComing
<1>3. CASE ReadRun \/ ReadRunFails
  BY <1>3 DEF ReadRun, ReadRunFails, HasSeen, stream, Coming, EndIsTrue, SourceIsOwned,
              EndIsComing
<1>4. ASSUME NEW answer, Show([run |-> seen, conversations |-> answer])
      PROVE  Coming'
  <2> DEFINE was == live /\ shown.run # "none"
             is  == live' /\ seen # "none"
  <2>1. /\ UNCHANGED <<stage, due>> /\ seen' = "none" /\ load = "conversations"
        /\ shown'.run = seen
        /\ IF was = is THEN UNCHANGED stream ELSE IF is THEN Connect ELSE Disconnect
    BY <1>4 DEF Show, Follow
  <2>2. was \in BOOLEAN /\ is \in BOOLEAN
    BY <1>4 DEF Show, EffectiveLive, IsLive, IInv, TypeOK
  <2>3. \/ was /\ is /\ UNCHANGED stream
        \/ ~ was /\ ~ is /\ UNCHANGED stream
        \/ ~ was /\ is /\ Connect
        \/ was /\ ~ is /\ Disconnect
    BY <2>1, <2>2
  <2>4. EndIsTrue'
    BY <2>1, <2>3 DEF stream, Coming, EndIsTrue
  <2>5. SourceIsOwned'
    BY <2>1, <2>3 DEF stream, Coming, SourceIsOwned
  <2>6. EndIsComing'
    <3>1. CASE was /\ is /\ UNCHANGED stream
      BY <2>1, <3>1 DEF stream, IInv, TypeOK, Runs, Coming, EndIsTrue, EndIsComing
    <3>2. CASE ~ was /\ ~ is /\ UNCHANGED stream
      BY <2>1, <3>2 DEF stream, Coming, SourceIsOwned, EndIsComing
    <3>3. CASE Connect \/ Disconnect
      BY <2>1, <3>3 DEF EndIsComing
    <3>4. QED BY <2>3, <3>1, <3>2, <3>3
  <2>7. QED BY <2>4, <2>5, <2>6 DEF Coming
<1>5. CASE ReadConversations \/ ReadConversationsFails
  BY <1>4, <1>5 DEF ReadConversations, ReadConversationsFails
<1>6. QED BY <1>1, <1>2, <1>3, <1>5 DEF Browser, Load

\* The safety half of CatchesUp: whatever is lost, fails or overlaps, a live page
\* that does not show the end of its run has a way to learn of it.
THEOREM LivePagesHearOfTheEnd == Spec => []EndIsComing
<1>1. IInv /\ Coming /\ UNCHANGED vars => Coming'
  BY DEF vars, stream, page, Coming, EndIsTrue, SourceIsOwned, EndIsComing
<1>2. IInv /\ Coming /\ [Next]_vars => Coming'
  BY <1>1, WorkerKeepsComing, StreamKeepsComing, PageKeepsComing DEF Next
<1>3. Coming => EndIsComing
  BY DEF Coming
<1>4. QED BY <1>2, <1>3, InitIInv, NextIInv, InitComing, PTL DEF Spec

-----------------------------------------------------------------------------
\* With any number of events the stream and the page stay within their states.
THEOREM ViewerIsTyped == Spec => []TypeOK
<1>1. IInv => TypeOK
  BY DEF IInv
<1>2. QED BY <1>1, InitIInv, NextIInv, PTL DEF Spec

\* Whatever is lost or fails, a page stops watching only on a run that is
\* complete, and the stream ends of itself only on such a run.
THEOREM WatchersStayToTheEnd == Spec => NothingEndsEarly
<1> DEFINE Step == /\ live /\ ~ live' =>
                        /\ stage = "complete"
                        /\ shown' = [run |-> "terminal", conversations |-> "complete"]
                   /\ server' = "ended" => stage = "complete"
<1>1. ASSUME IInv, [Next]_vars PROVE [Step]_vars
  <2>1. CASE Worker
    BY <1>1, <2>1 DEF Worker, Close, Reap, FetchLast, PublishNote, Publish, Lose, stream,
                      page, IInv, Announced
  <2>2. CASE Stream \/ StreamFails
    <3>1. queue # << >> /\ Head(queue) = "processed" => stage = "complete"
      BY <1>1, QueueLemma DEF IInv, TypeOK, Announced
    <3>2. queue # << >> => Head(queue) \in Events
      BY <1>1, QueueLemma DEF IInv, TypeOK, Announced
    <3>3. QED BY <1>1, <2>2, <3>1, <3>2 DEF Stream, Snapshot, Subscribe, Forward, Recheck,
                 Heartbeat, StreamFails, Streaming, page, Events, IInv, Announced
  <2>3. CASE Browser \/ Poll \/ ReadRun \/ ReadRunFails
    BY <1>1, <2>3 DEF Browser, OnOpen, OnEvent, OnError, Poll, Reload, ReadRun, ReadRunFails,
                      HasSeen, Connection, Disconnect, stream, page, IInv, Announced
  <2>4. ASSUME NEW answer \in {"unknown", "incomplete", "complete"},
               answer = "complete" => stage = "complete",
               Show([run |-> seen, conversations |-> answer])
        PROVE  Step
    <3>1. server' = "ended" => stage = "complete"
      BY <1>1, <2>4 DEF Show, Follow, Connect, Disconnect, Connection, stream, IInv, Announced
    <3>2. live /\ ~ live' => seen = "terminal" /\ answer = "complete"
      BY <1>1, <2>4 DEF Show, EffectiveLive, IsLive, IInv, TypeOK, Runs
    <3>3. QED BY <2>4, <3>1, <3>2 DEF Show
  <2>5. CASE ReadConversations \/ ReadConversationsFails
    BY <2>4, <2>5 DEF ReadConversations, ReadConversationsFails
  <2>6. QED BY <1>1, <2>1, <2>2, <2>3, <2>5 DEF Next, Load
<1>2. QED BY <1>1, InitIInv, NextIInv, PTL DEF Spec, NothingEndsEarly
=============================================================================
