------------------------- MODULE ServerWorkerProofs -------------------------
(***************************************************************************)
(* What holds of ServerWorker for every set of clients, events, messages   *)
(* and calls, checked by TLAPS.  The worker only ever takes steps of the   *)
(* transport, so all that is proved of the transport holds with a worker   *)
(* in front of it, and the worker's own properties rest on it.             *)
(***************************************************************************)
EXTENDS ServerWorker, ServerTransportProofs, SequenceTheorems

-----------------------------------------------------------------------------
(* The transport under a worker *)

\* A request of the peer has an event, an id and a sender.
LEMMA PeerRequestType ==
  ASSUME TypeOK, NEW r, PeerRequest(r)
  PROVE  /\ r \in Requests /\ r \in Admitted /\ r \in Readings
         /\ origin[r].id \in EventIds
         /\ RequestId(r) \in RequestIds
         /\ active_client_pubkey \in Clients
         /\ Asked(active_client_pubkey, origin[r].id)
<1>1. r \in Requests /\ r \in Admitted /\ r \in Readings /\ origin[r] \in Inbound
  BY DEF PeerRequest, Requests, Admitted, Keys, TypeOK, Map
<1>2. /\ origin[r].msg \in Messages /\ origin[r].from \in Clients
      /\ origin[r].id \in EventIds /\ origin[r].msg.kind = "request"
  BY <1>1 DEF Requests, Inbound
<1>3. origin[r].msg.id \in RequestIds
  BY <1>2, MessageAssumption
<1>4. QED
  BY <1>1, <1>2, <1>3 DEF RequestId, PeerRequest, Asked

\* Each step of the worker is a step of the transport, or none.
LEMMA WorkerStepIsTransportStep ==
  ASSUME WorkerTypeOK, [WorkerNext]_allVars
  PROVE  [Next]_vars
<1>1. CASE Background
  BY <1>1 DEF Background, Next, OwnStep
<1>2. CASE Enqueue
  BY <1>2 DEF Enqueue, Next, OwnStep
<1>3. CASE Ignore
  BY <1>3 DEF Ignore
<1>4. CASE Accept
  BY <1>4 DEF Accept
<1>5. ASSUME NEW t \in Calls, NEW r \in Readings, Answer(t, r)
      PROVE  [Next]_vars
  BY <1>5 DEF Answer, Next, OwnStep
<1>6. ASSUME NEW r \in Readings, AnswerUnknown(r)
      PROVE  [Next]_vars
  BY <1>6 DEF AnswerUnknown
<1>7. ASSUME NEW n \in Notices, SendToPeer(n)
      PROVE  [Next]_vars
  BY <1>7 DEF SendToPeer, Next, OwnStep, WorkerTypeOK
<1>8. CASE Continue
  BY <1>8 DEF Continue, Next, OwnStep
<1>9. CASE Quit
  BY <1>9 DEF Quit, Next, OwnStep
<1>10. CASE FinishClose
  BY <1>10 DEF FinishClose, Next, OwnStep
<1>11. CASE UNCHANGED allVars
  BY <1>11 DEF allVars
<1>12. QED
  BY <1>1, <1>2, <1>3, <1>4, <1>5, <1>6, <1>7, <1>8, <1>9, <1>10, <1>11
     DEF WorkerNext

-----------------------------------------------------------------------------
(* Type correctness *)

LEMMA WorkerInitType == WorkerInit => WorkerTypeOK
BY InitType DEF WorkerInit, WorkerTypeOK, EmptyMap, Map

LEMMA WorkerNextType ==
  ASSUME WorkerTypeOK, Correlation, WorkerInvariant, [WorkerNext]_allVars
  PROVE  WorkerTypeOK'
<1>0. TypeOK'
  BY WorkerStepIsTransportStep, NextType DEF WorkerTypeOK
<1>1. ASSUME UNCHANGED worker
      PROVE  WorkerTypeOK'
  BY <1>0, <1>1 DEF worker, WorkerTypeOK
<1>2. CASE Enqueue
  <2>1. channel' \in Seq(Readings)
    BY <1>2 DEF Enqueue, Forward, WorkerTypeOK, TypeOK
  <2>2. QED
    BY <1>0, <1>2, <2>1 DEF Enqueue, WorkerTypeOK
<1>3. CASE Ignore
  BY <1>0, <1>3, HeadTailProperties DEF Ignore, WorkerTypeOK
<1>4. CASE Accept
  <2>1. /\ Head(channel) \in Readings
        /\ channel' \in Seq(Readings)
    BY <1>4, HeadTailProperties DEF Accept, WorkerTypeOK
  <2>2. Head(channel) \in InChannel
    BY <1>4, EmptySeq DEF Accept, InChannel, WorkerTypeOK
  <2>3. Head(channel) \in Keys(origin)
    BY <2>2 DEF WorkerInvariant, ChannelIsFresh, Correlation, ChannelMatchesOrigin,
       Admitted
  <2>4. origin[Head(channel)] \in Inbound
    BY <2>1, <2>3 DEF WorkerTypeOK, TypeOK, Keys, Map
  <2>5. /\ origin[Head(channel)].from \in Clients
        /\ origin[Head(channel)].id \in EventIds
        /\ origin[Head(channel)].msg.kind = "request" =>
             origin[Head(channel)].msg.id \in RequestIds
    BY <2>4, MessageAssumption DEF Inbound
  <2>6. QED
    BY <1>0, <1>4, <2>1, <2>5 DEF Accept, Remember, Put, Map, WorkerTypeOK
<1>5. ASSUME NEW t \in Calls, NEW r \in Readings, Answer(t, r)
      PROVE  WorkerTypeOK'
  BY <1>0, <1>5 DEF Answer, Forget, Without, Put, Map, WorkerTypeOK
<1>6. ASSUME NEW r \in Readings, AnswerUnknown(r)
      PROVE  WorkerTypeOK'
  BY <1>0, <1>6 DEF AnswerUnknown, WorkerTypeOK
<1>7. CASE Quit
  BY <1>0, <1>7 DEF Quit, WorkerTypeOK
<1>8. QED
  BY <1>1, <1>2, <1>3, <1>4, <1>5, <1>6, <1>7
     DEF WorkerNext, Background, SendToPeer, Continue, FinishClose, allVars

-----------------------------------------------------------------------------
(* What a send in progress changes *)

\* A step of send_response keeps its event, and publishes at most an answer under
\* that event, to a client that asked under it.
LEMMA CallStepKeeps ==
  ASSUME TypeOK, Correlation, NEW t \in Calls, CallStep(t)
  PROVE  /\ UNCHANGED <<loop, forwarded, notices, origin>>
         /\ calls[t].pc # "idle"
         /\ \A u \in Calls : /\ calls'[u].event = calls[u].event
                             /\ calls'[u].pc = "idle" <=> calls[u].pc = "idle"
         /\ \A p \in published' \ published :
              p.kind = "response" /\ p.event = calls[t].event /\ Asked(p.to, p.event)
<1>1. calls[t] \in Call /\ calls \in [Calls -> Call]
  BY DEF TypeOK
<1>2. CASE LookUpSession(t)
  BY <1>1, <1>2 DEF LookUpSession, Call, Running
<1>3. CASE \E ok, reached \in BOOLEAN : PublishResponse(t, ok, reached)
  <2>1. PICK ok \in BOOLEAN, reached \in BOOLEAN : PublishResponse(t, ok, reached)
    BY <1>3
  <2>2. Asked(calls[t].client, calls[t].event)
    BY <2>1 DEF PublishResponse, Correlation, CallsMatchOrigin
  <2>3. /\ ResponseOf(calls[t]).to = calls[t].client
        /\ ResponseOf(calls[t]).event = calls[t].event
        /\ ResponseOf(calls[t]).kind = "response"
    BY DEF ResponseOf
  <2>4. \A u \in Calls : /\ calls'[u].event = calls[u].event
                         /\ calls'[u].pc = "idle" <=> calls[u].pc = "idle"
    BY <1>1, <2>1 DEF PublishResponse, Call
  <2>5. QED
    BY <2>1, <2>2, <2>3, <2>4 DEF PublishResponse
<1>4. CASE Untrack(t)
  BY <1>1, <1>4 DEF Untrack, Call
<1>5. CASE Unroute(t)
  BY <1>1, <1>5 DEF Unroute, Call
<1>6. QED
  BY <1>2, <1>3, <1>4, <1>5 DEF CallStep

\* A step of a notification call publishes at most to one of its targets, and
\* has no targets it did not have.
LEMMA NoticeStepKeeps ==
  ASSUME TypeOK, NEW n \in Notices, NoticeStep(n)
  PROVE  /\ UNCHANGED <<loop, forwarded, calls, origin>>
         /\ \A m \in Notices :
              /\ notices'[m].todo \subseteq notices[m].todo
              /\ notices'[m].target \in {None, notices[m].target} \cup notices[m].todo
         /\ \A p \in published' \ published :
              p.to = notices[n].target /\ p.to \in Clients
<1>1. notices \in [Notices -> Notice] /\ notices[n] \in Notice
  BY DEF TypeOK
<1>2. \A c, ok : /\ NoticeAfter(notices[n], c, ok).todo \subseteq notices[n].todo
                 /\ NoticeAfter(notices[n], c, ok).target = None
  BY <1>1 DEF NoticeAfter, Notice
<1>3. CASE \E c \in Clients : LookUpTarget(n, c)
  <2>1. PICK c \in Clients : LookUpTarget(n, c)
    BY <1>3
  <2>2. CASE c \in Keys(sessions)
    BY <1>1, <2>1, <2>2 DEF LookUpTarget, Notice
  <2>3. CASE c \notin Keys(sessions)
    BY <1>1, <1>2, <2>1, <2>3 DEF LookUpTarget
  <2>4. QED
    BY <2>2, <2>3
<1>4. CASE \E ok, reached \in BOOLEAN : PublishNotice(n, ok, reached)
  <2>1. PICK ok \in BOOLEAN, reached \in BOOLEAN : PublishNotice(n, ok, reached)
    BY <1>4
  <2>2. notices[n].target \in Clients
    BY <2>1 DEF PublishNotice, TypeOK, CallsHaveTargets
  <2>3. NotificationOf(notices[n]).to = notices[n].target
    BY DEF NotificationOf
  <2>4. QED
    BY <1>1, <1>2, <2>1, <2>2, <2>3 DEF PublishNotice
<1>5. QED
  BY <1>3, <1>4 DEF NoticeStep

-----------------------------------------------------------------------------
(* What each operation of the worker keeps *)

\* The peer's request under an event came twice if two of its requests did.
LEMMA TwoRequests ==
  ASSUME NEW q, NEW r, q # r, PeerRequest(q), PeerRequest(r), NEW e,
         origin[q].id = e, origin[r].id = e
  PROVE  ComesTwice(e)
BY DEF ComesTwice, PeerRequest

\* A request of the peer stays one, whoever the peer is by then known to be; so
\* what was taken from the channel, asked for, or read twice stays so.
LEMMA PeerFactsStay ==
  ASSUME WorkerTypeOK, [Next]_vars, forwarded \subseteq forwarded',
         active_client_pubkey \in {None, active_client_pubkey'},
         InChannel' \cap forwarded \subseteq InChannel
  PROVE  /\ \A r : PeerRequest(r) => /\ PeerRequest(r)'
                                     /\ origin'[r] = origin[r]
                                     /\ RequestId(r)' = RequestId(r)
         /\ \A e, id : /\ Taken(e, id) => Taken(e, id)'
                       /\ PeerAsked(e, id) => PeerAsked(e, id)'
         /\ \A e : ComesTwice(e) => ComesTwice(e)'
<1>1. ASSUME NEW r, PeerRequest(r)
      PROVE  /\ PeerRequest(r)'
             /\ origin'[r] = origin[r]
             /\ RequestId(r)' = RequestId(r)
             /\ r \notin InChannel => r \notin InChannel'
  <2>1. r \in Requests /\ active_client_pubkey \in Clients
    BY <1>1, PeerRequestType DEF WorkerTypeOK
  <2>2. r \in Requests' /\ origin'[r] = origin[r]
    BY <2>1, FactsStay DEF WorkerTypeOK
  <2>3. active_client_pubkey' = active_client_pubkey
    BY <2>1, NoneAssumption
  <2>4. QED
    BY <1>1, <2>2, <2>3 DEF PeerRequest, RequestId
<1>2. ASSUME NEW e, NEW id, Taken(e, id)
      PROVE  Taken(e, id)'
  <2>1. PICK r \in Readings : IsTaken(r, e, id)
    BY <1>2 DEF Taken
  <2>2. IsTaken(r, e, id)'
    BY <1>1, <2>1 DEF IsTaken
  <2>3. QED
    BY <2>2 DEF Taken
<1>3. ASSUME NEW e, NEW id, PeerAsked(e, id)
      PROVE  PeerAsked(e, id)'
  <2>1. PICK q \in forwarded \cap Requests : /\ origin[q].from = active_client_pubkey
                                             /\ origin[q].id = e
                                             /\ RequestId(q) = id
    BY <1>3 DEF PeerAsked
  <2>2. PeerRequest(q)' /\ origin'[q].id = e /\ RequestId(q)' = id
    BY <1>1, <2>1 DEF PeerRequest
  <2>3. QED
    BY <2>2 DEF PeerAsked, PeerRequest
<1>4. ASSUME NEW e, ComesTwice(e)
      PROVE  ComesTwice(e)'
  <2>1. PICK q \in forwarded \cap Requests, r \in forwarded \cap Requests :
          /\ q # r
          /\ \A x \in {q, r} : origin[x].id = e /\ origin[x].from = active_client_pubkey
    BY <1>4 DEF ComesTwice
  <2>2. \A x \in {q, r} : PeerRequest(x)' /\ origin'[x].id = e
    BY <1>1, <2>1 DEF PeerRequest
  <2>3. QED
    BY <2>1, <2>2 DEF ComesTwice, PeerRequest
<1>5. QED
  BY <1>1, <1>2, <1>3, <1>4

\* Publications stay within the circle of OnePeer, whoever the peer becomes.
LEMMA PublishedStay ==
  ASSUME WorkerTypeOK, WorkerInvariant, [Next]_vars,
         active_client_pubkey \in {None, active_client_pubkey'},
         overlapped \subseteq overlapped'
  PROVE  \A p \in published :
           \/ p.to = active_client_pubkey'
           \/ /\ p.kind = "response"
              /\ Asked(p.to, p.event)'
              /\ \/ Asked(active_client_pubkey, p.event)'
                 \/ p.event \in overlapped'
<1> SUFFICES ASSUME NEW p \in published
             PROVE  \/ p.to = active_client_pubkey'
                    \/ /\ p.kind = "response"
                       /\ Asked(p.to, p.event)'
                       /\ \/ Asked(active_client_pubkey, p.event)'
                          \/ p.event \in overlapped'
  OBVIOUS
<1>1. p.to \in Clients
  BY DEF WorkerTypeOK, TypeOK, Responses, Notifications
<1>2. \/ p.to = active_client_pubkey
      \/ /\ p.kind = "response"
         /\ Asked(p.to, p.event)
         /\ Asked(active_client_pubkey, p.event) \/ p.event \in overlapped
  BY DEF WorkerInvariant, OnePeer
<1>3. \A c, e : Asked(c, e) => Asked(c, e)'
  BY FactsStay DEF WorkerTypeOK
<1>4. \A e : ~Asked(None, e)
  BY NoneAssumption DEF Asked, Requests, Admitted, Keys, WorkerTypeOK, TypeOK, Map, Inbound
<1>5. CASE active_client_pubkey = None
  BY <1>1, <1>2, <1>3, <1>4, <1>5, NoneAssumption
<1>6. CASE active_client_pubkey' = active_client_pubkey
  <2>1. Asked(active_client_pubkey, p.event) => Asked(active_client_pubkey, p.event)'
    BY <1>3, <1>6 DEF Asked
  <2>2. QED
    BY <1>2, <1>3, <1>6, <2>1
<1>7. QED
  BY <1>5, <1>6

\* What a step keeps that leaves alone the worker and the events of the calls.
LEMMA WorkerFrame ==
  ASSUME WorkerTypeOK, WorkerInvariant, [Next]_vars,
         UNCHANGED <<channel, active_client_pubkey, request_id_to_event_id,
                     handling, results, overlapped, forwarded>>,
         loop' \notin forwarded,
         \A t \in Calls : /\ calls'[t].event = calls[t].event
                          /\ calls'[t].pc = "idle" <=> calls[t].pc = "idle"
  PROVE  /\ ChannelIsFresh' /\ MapIsSound' /\ WorkIsForPeer'
         /\ HandledIsKnown' /\ OverlapsAreSeen'
         /\ ResultsReachTheirRequests' /\ AnsweredOnce'
         /\ \A r \in handling' : (origin[r].from = active_client_pubkey)'
<1>1. Keys(results)' = Keys(results) /\ Keys(results) \subseteq Calls
  BY DEF Keys, WorkerTypeOK, Map
<1>2. InChannel' = InChannel
  BY DEF InChannel
<1>3. /\ \A r : PeerRequest(r) => /\ PeerRequest(r)'
                                  /\ origin'[r] = origin[r]
                                  /\ RequestId(r)' = RequestId(r)
      /\ \A e, id : /\ Taken(e, id) => Taken(e, id)'
                    /\ PeerAsked(e, id) => PeerAsked(e, id)'
      /\ \A e : ComesTwice(e) => ComesTwice(e)'
  BY <1>2, PeerFactsStay
<1>4. ChannelIsFresh'
  BY <1>2 DEF WorkerInvariant, ChannelIsFresh
<1>5. MapIsSound'
  BY <1>1, <1>3 DEF WorkerInvariant, MapIsSound, Keys
<1>6. WorkIsForPeer'
  <2>1. \A t \in Keys(results) : RequestId(results[t])' = RequestId(results[t])
    BY <1>3 DEF WorkerInvariant, WorkIsForPeer, RequestId
  <2>2. QED
    BY <1>1, <1>2, <1>3, <2>1 DEF WorkerInvariant, WorkIsForPeer, PeerRequest
<1>7. HandledIsKnown' /\ OverlapsAreSeen'
  <2>1. \A r \in handling : RequestId(r)' = RequestId(r) /\ origin'[r] = origin[r]
    BY <1>3 DEF WorkerInvariant, WorkIsForPeer
  <2>2. QED
    BY <2>1 DEF WorkerInvariant, HandledIsKnown, OverlapsAreSeen
<1>8. ResultsReachTheirRequests'
  <2>1. \A t \in Keys(results) : /\ origin'[results[t]] = origin[results[t]]
                                 /\ RequestId(results[t])' = RequestId(results[t])
    BY <1>3 DEF WorkerInvariant, WorkIsForPeer, RequestId
  <2>2. QED
    BY <1>1, <1>3, <2>1 DEF WorkerInvariant, ResultsReachTheirRequests
<1>9. AnsweredOnce'
  BY <1>1, <1>3 DEF WorkerInvariant, AnsweredOnce
<1>10. \A r \in handling' : (origin[r].from = active_client_pubkey)'
  BY <1>6 DEF WorkIsForPeer, PeerRequest
<1>11. QED
  BY <1>4, <1>5, <1>6, <1>7, <1>8, <1>9, <1>10

\* Steps of the transport's own tasks, of a send in progress, and the start of a
\* notification.
LEMMA TransportSteps ==
  ASSUME WorkerTypeOK, Correlation, WorkerInvariant,
         Background \/ Continue \/ FinishClose \/ \E n \in Notices : SendToPeer(n)
  PROVE  WorkerInvariant'
<1>1. [Next]_vars /\ UNCHANGED worker
  BY WorkerStepIsTransportStep
     DEF WorkerNext, Background, Continue, FinishClose, SendToPeer
<1>2. forwarded \subseteq Keys(origin) /\ loop \notin forwarded
  BY DEF Correlation, ChannelMatchesOrigin, Admitted, WorkerInvariant, ChannelIsFresh
<1>3. \A p \in published :
        \/ p.to = active_client_pubkey'
        \/ /\ p.kind = "response"
           /\ Asked(p.to, p.event)'
           /\ Asked(active_client_pubkey, p.event)' \/ p.event \in overlapped'
  BY <1>1, PublishedStay DEF worker
<1>4. ASSUME UNCHANGED <<calls, notices, published, forwarded>>, loop' \notin forwarded
      PROVE  WorkerInvariant'
  <2>1. NoticesAreForPeer'
    BY <1>1, <1>4 DEF worker, WorkerInvariant, NoticesAreForPeer
  <2>2. QED
    BY <1>1, <1>3, <1>4, <2>1, WorkerFrame DEF worker, WorkerInvariant, OnePeer
<1>5. CASE Background
  <2>1. ASSUME NEW r \in Readings, NEW ev \in Traffic[r], Read(r, ev)
        PROVE  WorkerInvariant'
    BY <1>2, <1>4, <2>1 DEF Read, Discard, Track
  <2>2. ASSUME NEW c \in Clients, BecomeIdle(c)
        PROVE  WorkerInvariant'
    BY <1>2, <1>4, <2>2 DEF BecomeIdle
  <2>3. CASE CleanupSessions
    BY <1>2, <1>4, <2>3 DEF CleanupSessions
  <2>4. QED
    BY <1>5, <2>1, <2>2, <2>3 DEF Background
<1>6. ASSUME NEW t \in Calls, CallStep(t)
      PROVE  WorkerInvariant'
  <2>1. UNCHANGED <<loop, forwarded, notices, origin>>
    BY <1>6, CallStepKeeps DEF WorkerTypeOK
  <2>2. \A u \in Calls : /\ calls'[u].event = calls[u].event
                         /\ calls'[u].pc = "idle" <=> calls[u].pc = "idle"
    BY <1>6, CallStepKeeps DEF WorkerTypeOK
  <2>3. \/ Asked(active_client_pubkey, calls[t].event)
        \/ calls[t].event \in overlapped
    <3>1. t \in Keys(results)
      BY <1>6, CallStepKeeps DEF WorkerTypeOK, WorkerInvariant, WorkIsForPeer
    <3>2. \/ Taken(calls[t].event, RequestId(results[t]))
          \/ calls[t].event \in overlapped
      BY <3>1 DEF WorkerInvariant, WorkIsForPeer
    <3>3. QED
      BY <3>2, PeerRequestType DEF Taken, IsTaken, WorkerTypeOK
  <2>4. \A c, e : Asked(c, e) => Asked(c, e)'
    BY <1>1, FactsStay DEF WorkerTypeOK
  <2>5. \A p \in published' \ published :
          /\ p.kind = "response"
          /\ Asked(p.to, p.event)'
          /\ Asked(active_client_pubkey, p.event)' \/ p.event \in overlapped'
    <3>1. \A p \in published' \ published :
            p.kind = "response" /\ p.event = calls[t].event /\ Asked(p.to, p.event)
      BY <1>6, CallStepKeeps DEF WorkerTypeOK
    <3>2. overlapped' = overlapped /\ active_client_pubkey' = active_client_pubkey
      BY <1>1 DEF worker
    <3>3. SUFFICES ASSUME NEW p \in published' \ published
                   PROVE  /\ p.kind = "response"
                          /\ Asked(p.to, p.event)'
                          /\ \/ Asked(active_client_pubkey, p.event)'
                             \/ p.event \in overlapped'
      OBVIOUS
    <3>4. Asked(active_client_pubkey, p.event) => Asked(active_client_pubkey, p.event)'
      <4>1. Asked(active_client_pubkey, p.event)' <=>
              \E r \in Requests' : /\ origin'[r].from = active_client_pubkey
                                   /\ origin'[r].id = p.event
        BY <3>2 DEF Asked
      <4>2. \A r \in Requests : r \in Requests' /\ origin'[r] = origin[r]
        BY <1>1, FactsStay DEF WorkerTypeOK
      <4>3. QED
        BY <4>1, <4>2 DEF Asked
    <3>5. QED
      BY <2>3, <2>4, <3>1, <3>2, <3>4
  <2>6. NoticesAreForPeer'
    BY <1>1, <2>1 DEF worker, WorkerInvariant, NoticesAreForPeer
  <2>7. QED
    BY <1>1, <1>2, <1>3, <2>1, <2>2, <2>5, <2>6, WorkerFrame
       DEF worker, WorkerInvariant, OnePeer
<1>7. ASSUME NEW n \in Notices, NoticeStep(n)
      PROVE  WorkerInvariant'
  <2>1. UNCHANGED <<loop, forwarded, calls>>
    BY <1>7, NoticeStepKeeps DEF WorkerTypeOK
  <2>2. NoticesAreForPeer'
    BY <1>1, <1>7, NoticeStepKeeps
       DEF WorkerTypeOK, worker, WorkerInvariant, NoticesAreForPeer
  <2>3. \A p \in published' \ published : p.to = active_client_pubkey'
    BY <1>1, <1>7, NoticeStepKeeps, NoneAssumption
       DEF WorkerTypeOK, worker, WorkerInvariant, NoticesAreForPeer
  <2>4. QED
    BY <1>1, <1>2, <1>3, <2>1, <2>2, <2>3, WorkerFrame DEF worker, WorkerInvariant, OnePeer
<1>8. CASE FinishClose
  BY <1>2, <1>4, <1>8 DEF FinishClose, ClearRoutes
<1>9. ASSUME NEW n \in Notices, SendToPeer(n)
      PROVE  WorkerInvariant'
  <2>1. UNCHANGED <<loop, forwarded, calls, published>>
    BY <1>9 DEF SendToPeer, Notify
  <2>2. NoticesAreForPeer'
    BY <1>1, <1>9 DEF SendToPeer, Notify, NoNotice, worker, WorkerInvariant,
       NoticesAreForPeer, WorkerTypeOK, TypeOK, Notice
  <2>3. QED
    BY <1>1, <1>2, <1>3, <2>1, <2>2, WorkerFrame DEF worker, WorkerInvariant, OnePeer
<1>10. QED
  BY <1>5, <1>6, <1>7, <1>8, <1>9 DEF Continue

\* The event loop appends a reading that nothing knows yet.
LEMMA EnqueueStep ==
  ASSUME WorkerTypeOK, Correlation, WorkerInvariant, Enqueue
  PROVE  WorkerInvariant'
<1>1. [Next]_vars
  BY WorkerStepIsTransportStep DEF WorkerNext
<1>2. /\ loop \in Readings /\ loop \notin forwarded
      /\ forwarded' = forwarded \cup {loop} /\ loop' = None
      /\ channel' = Append(channel, loop)
      /\ UNCHANGED <<calls, notices, published, origin>>
      /\ UNCHANGED <<active_client_pubkey, request_id_to_event_id, handling,
                     results, overlapped>>
  BY DEF Enqueue, Forward, WorkerTypeOK, TypeOK, WorkerInvariant, ChannelIsFresh
<1>3. /\ channel' \in Seq(Readings) /\ Len(channel') = Len(channel) + 1
      /\ \A i \in 1 .. Len(channel) : channel'[i] = channel[i]
      /\ channel'[Len(channel) + 1] = loop
      /\ Len(channel) \in Nat
  BY <1>2 DEF WorkerTypeOK
<1>4. InChannel' = InChannel \cup {loop}
  <2>1. ASSUME NEW r
        PROVE  r \in InChannel' <=> r \in InChannel \cup {loop}
    BY <1>3 DEF InChannel
  <2>2. QED
    BY <2>1
<1>5. /\ \A r : PeerRequest(r) => PeerRequest(r)'
      /\ \A e, id : /\ Taken(e, id) => Taken(e, id)'
                    /\ PeerAsked(e, id) => PeerAsked(e, id)'
      /\ \A e : ComesTwice(e) => ComesTwice(e)'
  BY <1>1, <1>2, <1>4, PeerFactsStay
<1>6. loop' \notin forwarded'
  BY <1>2, NoneAssumption DEF WorkerTypeOK, TypeOK
<1>7. \A i, j \in 1 .. Len(channel') : channel'[i] = channel'[j] => i = j
  <2>1. \A i \in 1 .. Len(channel) : channel[i] # loop
    BY <1>2 DEF InChannel, WorkerInvariant, ChannelIsFresh
  <2>2. QED
    BY <1>3, <2>1 DEF WorkerInvariant, ChannelIsFresh
<1>8. ChannelIsFresh'
  BY <1>2, <1>4, <1>6, <1>7 DEF WorkerInvariant, ChannelIsFresh
<1>9. MapIsSound'
  BY <1>2, <1>5 DEF WorkerInvariant, MapIsSound, Keys
<1>10. WorkIsForPeer'
  <2>1. \A r \in handling : PeerRequest(r)' /\ r \notin InChannel'
    BY <1>2, <1>4, <1>5 DEF WorkerInvariant, WorkIsForPeer, PeerRequest
  <2>2. QED
    BY <1>2, <1>5, <2>1 DEF WorkerInvariant, WorkIsForPeer, Keys, RequestId, PeerRequest
<1>11. HandledIsKnown' /\ OverlapsAreSeen' /\ NoticesAreForPeer'
  BY <1>2 DEF WorkerInvariant, HandledIsKnown, OverlapsAreSeen, NoticesAreForPeer,
     RequestId
<1>12. ResultsReachTheirRequests' /\ AnsweredOnce'
  BY <1>2, <1>5 DEF WorkerInvariant, ResultsReachTheirRequests, AnsweredOnce, Keys, RequestId
<1>13. OnePeer'
  BY <1>1, <1>2, PublishedStay DEF WorkerInvariant, OnePeer
<1>14. QED
  BY <1>8, <1>9, <1>10, <1>11, <1>12, <1>13 DEF WorkerInvariant

\* Taking the head of the channel takes one reading from it, for good.
LEMMA HeadIsTaken ==
  ASSUME WorkerTypeOK, WorkerInvariant, channel # <<>>, channel' = Tail(channel)
  PROVE  /\ Head(channel) \in InChannel
         /\ InChannel' = InChannel \ {Head(channel)}
         /\ \A i, j \in 1 .. Len(channel') : channel'[i] = channel'[j] => i = j
<1>1. /\ channel \in Seq(Readings) /\ Len(channel) \in Nat \ {0}
      /\ Head(channel) = channel[1]
      /\ Len(channel') = Len(channel) - 1
      /\ \A i \in 1 .. Len(channel') : channel'[i] = channel[i + 1]
  BY HeadTailProperties, EmptySeq DEF WorkerTypeOK
<1>2. \A i, j \in 1 .. Len(channel) : channel[i] = channel[j] => i = j
  BY DEF WorkerInvariant, ChannelIsFresh
<1>3. Head(channel) \in InChannel
  BY <1>1 DEF InChannel
<1>4. \A i, j \in 1 .. Len(channel') : channel'[i] = channel'[j] => i = j
  BY <1>1, <1>2
<1>5. ASSUME NEW e
      PROVE  e \in InChannel' <=> e \in InChannel /\ e # Head(channel)
  <2>1. ASSUME e \in InChannel'
        PROVE  e \in InChannel /\ e # Head(channel)
    <3>1. PICK i \in 1 .. Len(channel') : e = channel'[i]
      BY <2>1 DEF InChannel
    <3>2. i + 1 \in 1 .. Len(channel) /\ e = channel[i + 1]
      BY <1>1, <3>1
    <3>3. QED
      BY <1>1, <1>2, <3>2 DEF InChannel
  <2>2. ASSUME e \in InChannel, e # Head(channel)
        PROVE  e \in InChannel'
    <3>1. PICK i \in 1 .. Len(channel) : e = channel[i]
      BY <2>2 DEF InChannel
    <3>2. i - 1 \in 1 .. Len(channel') /\ e = channel'[i - 1]
      BY <1>1, <2>2, <3>1
    <3>3. QED
      BY <3>2 DEF InChannel
  <2>3. QED
    BY <2>1, <2>2
<1>6. QED
  BY <1>3, <1>4, <1>5

LEMMA IgnoreStep ==
  ASSUME WorkerTypeOK, WorkerInvariant, Ignore
  PROVE  WorkerInvariant'
<1>1. /\ UNCHANGED vars
      /\ UNCHANGED <<active_client_pubkey, request_id_to_event_id, handling,
                     results, overlapped>>
      /\ channel # <<>> /\ channel' = Tail(channel)
  BY DEF Ignore
<1>2. InChannel' \subseteq InChannel
  BY <1>1, HeadIsTaken
<1>3. ChannelIsFresh'
  BY <1>1, <1>2, HeadIsTaken DEF vars, WorkerInvariant, ChannelIsFresh
<1>4. /\ \A r : PeerRequest(r) => PeerRequest(r)'
      /\ \A e, id : /\ Taken(e, id) => Taken(e, id)'
                    /\ PeerAsked(e, id) => PeerAsked(e, id)'
      /\ \A e : ComesTwice(e) => ComesTwice(e)'
  BY <1>1, <1>2, PeerFactsStay DEF vars
<1>5. MapIsSound'
  BY <1>1, <1>4 DEF vars, WorkerInvariant, MapIsSound, Keys
<1>6. WorkIsForPeer'
  <2>1. \A r \in handling : PeerRequest(r)' /\ r \notin InChannel'
    BY <1>2, <1>4 DEF WorkerInvariant, WorkIsForPeer
  <2>2. QED
    BY <1>1, <1>4, <2>1 DEF vars, WorkerInvariant, WorkIsForPeer, Keys, RequestId, PeerRequest
<1>7. HandledIsKnown' /\ OverlapsAreSeen' /\ NoticesAreForPeer'
  BY <1>1 DEF vars, WorkerInvariant, HandledIsKnown, OverlapsAreSeen,
     NoticesAreForPeer, RequestId
<1>8. ResultsReachTheirRequests' /\ AnsweredOnce'
  BY <1>1, <1>4 DEF vars, WorkerInvariant, ResultsReachTheirRequests, AnsweredOnce, Keys,
     RequestId
<1>9. OnePeer'
  BY <1>1, PublishedStay DEF vars, WorkerInvariant, OnePeer
<1>10. QED
  BY <1>3, <1>5, <1>6, <1>7, <1>8, <1>9 DEF WorkerInvariant

\* A request taken from the channel is in the map or has an answer only if its
\* event came before, so the entry made for it is true, whatever entry it is
\* written over.
LEMMA AcceptStep ==
  ASSUME WorkerTypeOK, Correlation, WorkerInvariant, Accept
  PROVE  WorkerInvariant'
<1>0. PICK head, ev, id, e :
        head = Head(channel) /\ ev = origin[head] /\ id = ev.msg.id /\ e = ev.id
  OBVIOUS
<1>1. /\ UNCHANGED vars
      /\ UNCHANGED results
      /\ channel # <<>> /\ channel' = Tail(channel)
      /\ active_client_pubkey \in {None, ev.from}
      /\ active_client_pubkey' = ev.from
  BY <1>0 DEF Accept, Serves
<1>2. /\ head \in InChannel
      /\ InChannel' = InChannel \ {head}
      /\ \A i, j \in 1 .. Len(channel') : channel'[i] = channel'[j] => i = j
  BY <1>0, <1>1, HeadIsTaken
<1>3. head \in forwarded /\ head \in Admitted /\ head \in Readings
  BY <1>2 DEF WorkerInvariant, ChannelIsFresh, Correlation, ChannelMatchesOrigin,
     WorkerTypeOK, TypeOK
<1>4. [Next]_vars /\ forwarded \subseteq forwarded'
  BY <1>1 DEF vars
<1>5. /\ \A r : PeerRequest(r) => PeerRequest(r)'
      /\ \A d, i : /\ Taken(d, i) => Taken(d, i)'
                   /\ PeerAsked(d, i) => PeerAsked(d, i)'
      /\ \A d : ComesTwice(d) => ComesTwice(d)'
  BY <1>1, <1>2, <1>4, PeerFactsStay
<1>6. \A r : RequestId(r)' = RequestId(r) /\ origin'[r] = origin[r]
  BY <1>1 DEF vars, RequestId
<1>7. ev.msg.kind = "request" =>
        IsTaken(head, e, id)' /\ id \in RequestIds /\ e \in EventIds
  <2>1. ev \in Inbound
    BY <1>0, <1>3 DEF Admitted, Keys, WorkerTypeOK, TypeOK, Map
  <2>2. id \in RequestIds \/ ev.msg.kind # "request"
    BY <1>0, <2>1, MessageAssumption DEF Inbound
  <2>3. ev.msg.kind = "request" => head \in Requests'
    <3>1. ev.msg.kind = "request" => head \in Requests
      BY <1>0, <1>3 DEF Requests
    <3>2. Requests' = Requests
      BY <1>1 DEF vars, Requests, Admitted, Keys
    <3>3. QED
      BY <3>1, <3>2
  <2>4. head \notin InChannel' /\ forwarded' = forwarded
    BY <1>1, <1>2 DEF vars
  <2>5. QED
    BY <1>0, <1>1, <1>3, <1>6, <2>1, <2>2, <2>3, <2>4
       DEF IsTaken, PeerRequest, RequestId, Inbound
<1>8. Keys(results)' = Keys(results) /\ calls' = calls /\ results' = results
  BY <1>1 DEF vars, Keys
<1>9. /\ request_id_to_event_id \in [RequestIds -> EventIds \cup {None}]
      /\ request_id_to_event_id' \in [RequestIds -> EventIds \cup {None}]
      /\ \A k \in RequestIds : request_id_to_event_id'[k] =
           IF ev.msg.kind = "request" /\ k = id THEN e
                                                 ELSE request_id_to_event_id[k]
  BY <1>0, <1>7 DEF WorkerTypeOK, Map, Accept, Remember, Put
<1>10. handling \subseteq handling' /\ overlapped \subseteq overlapped'
  BY <1>0 DEF Accept
<1>11. /\ handling' \subseteq handling \cup {head}
       /\ head \in handling' => head \in handling \/ ev.msg.kind = "request"
  BY <1>0 DEF Accept
<1>12. ev.msg.kind = "request" =>
         \A d \in handling : RequestId(d) = id => id \in overlapped'
  BY <1>0 DEF Accept
<1>13. ChannelIsFresh'
  BY <1>1, <1>2 DEF vars, WorkerInvariant, ChannelIsFresh
<1>14. MapIsSound'
  <2> SUFFICES ASSUME NEW k \in Keys(request_id_to_event_id')
               PROVE  /\ Taken(request_id_to_event_id[k], k)'
                      /\ \A t \in Keys(results) :
                           calls[t].event = request_id_to_event_id'[k] =>
                             \/ ComesTwice(request_id_to_event_id[k])'
                             \/ request_id_to_event_id'[k] \in overlapped'
    BY <1>8 DEF MapIsSound
  <2>1. k \in RequestIds
    BY <1>9 DEF Keys
  <2>2. CASE ev.msg.kind = "request" /\ k = id
    <3>1. request_id_to_event_id'[k] = e
      BY <1>9, <2>1, <2>2
    <3>2. Taken(e, id)'
      BY <1>3, <1>7, <2>2 DEF Taken
    <3>3. ASSUME NEW t \in Keys(results), calls[t].event = e
          PROVE  ComesTwice(e)' \/ e \in overlapped'
      <4>1. CASE e \in overlapped
        BY <1>10, <4>1
      <4>2. CASE e \notin overlapped
        <5>1. PICK r \in Readings : IsTaken(r, e, RequestId(results[t]))
          BY <3>3, <4>2 DEF WorkerInvariant, WorkIsForPeer, Taken
        <5>2. r # head /\ PeerRequest(r)' /\ origin'[r].id = e
          BY <1>2, <1>5, <1>6, <5>1 DEF IsTaken
        <5>3. PeerRequest(head)' /\ origin'[head].id = e
          BY <1>7, <2>2 DEF IsTaken
        <5>4. QED
          BY <5>2, <5>3 DEF ComesTwice, PeerRequest
      <4>3. QED
        BY <4>1, <4>2
    <3>4. Taken(request_id_to_event_id[k], k)'
      BY <2>2, <3>1, <3>2 DEF Taken, IsTaken
    <3>5. ComesTwice(request_id_to_event_id[k])' <=> ComesTwice(e)'
      BY <3>1 DEF ComesTwice
    <3>6. QED
      BY <3>1, <3>3, <3>4, <3>5
  <2>3. CASE ~(ev.msg.kind = "request" /\ k = id)
    <3>1. PICK d : d = request_id_to_event_id[k]
      OBVIOUS
    <3>2. request_id_to_event_id'[k] = d /\ k \in Keys(request_id_to_event_id)
      BY <1>9, <2>1, <2>3, <3>1 DEF Keys
    <3>3. /\ Taken(d, k)
          /\ \A t \in Keys(results) :
               calls[t].event = d => ComesTwice(d) \/ d \in overlapped
      BY <3>1, <3>2 DEF WorkerInvariant, MapIsSound
    <3>4. Taken(request_id_to_event_id[k], k)' <=> Taken(d, k)'
      BY <3>2 DEF Taken, IsTaken
    <3>5. ComesTwice(request_id_to_event_id[k])' <=> ComesTwice(d)'
      BY <3>2 DEF ComesTwice
    <3>6. QED
      BY <1>5, <1>10, <3>2, <3>3, <3>4, <3>5
  <2>4. QED
    BY <2>2, <2>3
<1>15. WorkIsForPeer'
  <2>1. ASSUME NEW r \in handling'
        PROVE  PeerRequest(r)' /\ r \notin InChannel'
    <3>1. CASE r \in handling
      BY <1>2, <1>5, <3>1 DEF WorkerInvariant, WorkIsForPeer
    <3>2. CASE r = head /\ ev.msg.kind = "request"
      BY <1>7, <3>2 DEF IsTaken
    <3>3. QED
      BY <1>11, <2>1, <3>1, <3>2
  <2>2. \A t \in Keys(results) : RequestId(results[t])' = RequestId(results[t])
    BY <1>6, <1>8 DEF RequestId
  <2>3. \A t \in Keys(results) :
          /\ PeerRequest(results[t])'
          /\ \/ Taken(calls[t].event, RequestId(results[t]))'
             \/ /\ calls'[t].event = RequestId(results[t])
                /\ calls'[t].event \in overlapped'
    <3>1. \A t \in Keys(results) :
            /\ PeerRequest(results[t])
            /\ \/ Taken(calls[t].event, RequestId(results[t]))
               \/ /\ calls[t].event = RequestId(results[t])
                  /\ calls[t].event \in overlapped
      BY DEF WorkerInvariant, WorkIsForPeer
    <3>3. QED
      <4> SUFFICES ASSUME NEW t \in Keys(results)
                   PROVE  /\ PeerRequest(results[t])'
                          /\ \/ Taken(calls[t].event, RequestId(results[t]))'
                             \/ /\ calls'[t].event = RequestId(results[t])
                                /\ calls'[t].event \in overlapped'
        OBVIOUS
      <4>1. PICK r, d, i : r = results[t] /\ d = calls[t].event /\ i = RequestId(r)
        OBVIOUS
      <4>2. results'[t] = r /\ calls'[t].event = d /\ RequestId(r)' = i
        BY <1>6, <1>8, <4>1
      <4>3. PeerRequest(r)' /\ (Taken(d, i)' \/ (d = i /\ d \in overlapped'))
        BY <1>5, <1>10, <3>1, <4>1
      <4>4. PeerRequest(results[t])' <=> PeerRequest(r)'
        BY <4>2 DEF PeerRequest
      <4>5. RequestId(results[t])' = i
        BY <4>2 DEF RequestId
      <4>6. Taken(calls[t].event, RequestId(results[t]))' <=> Taken(d, i)'
        BY <4>2, <4>5 DEF Taken, IsTaken
      <4>7. QED
        BY <4>1, <4>2, <4>3, <4>4, <4>6
  <2>4. QED
    BY <1>8, <2>1, <2>2, <2>3 DEF WorkerInvariant, WorkIsForPeer
<1>16. HandledIsKnown'
  <2>1. ASSUME NEW d \in handling'
        PROVE  \/ request_id_to_event_id'[RequestId(d)] = origin[d].id
               \/ RequestId(d) \in overlapped'
    <3>1. CASE d = head /\ ev.msg.kind = "request"
      BY <1>0, <1>7, <1>9, <3>1 DEF RequestId
    <3>2. CASE d \in handling
      <4>1. RequestId(d) \in RequestIds
        BY <3>2, PeerRequestType DEF WorkerTypeOK, WorkerInvariant, WorkIsForPeer
      <4>2. \/ request_id_to_event_id[RequestId(d)] = origin[d].id
            \/ RequestId(d) \in overlapped
        BY <3>2 DEF WorkerInvariant, HandledIsKnown
      <4>3. QED
        BY <1>9, <1>10, <1>12, <3>2, <4>1, <4>2
    <3>3. QED
      BY <1>11, <2>1, <3>1, <3>2
  <2>2. QED
    BY <1>6, <2>1 DEF HandledIsKnown
<1>17. ResultsReachTheirRequests'
  <2> SUFFICES ASSUME NEW t \in Keys(results)
               PROVE  \/ calls'[t].event = origin'[results'[t]].id
                      \/ /\ RequestId(results[t])' \in overlapped'
                         /\ \/ PeerAsked(calls[t].event, RequestId(results[t]))'
                            \/ calls'[t].event = RequestId(results[t])'
    BY <1>8 DEF ResultsReachTheirRequests
  <2>1. PICK r, d, i : r = results[t] /\ d = calls[t].event /\ i = RequestId(r)
    OBVIOUS
  <2>2. results'[t] = r /\ calls'[t].event = d /\ RequestId(r)' = i
    BY <1>6, <1>8, <2>1
  <2>3. d = origin[r].id \/ (i \in overlapped /\ (PeerAsked(d, i) \/ d = i))
    BY <2>1 DEF WorkerInvariant, ResultsReachTheirRequests
  <2>4. RequestId(results[t])' = i
    BY <2>2 DEF RequestId
  <2>5. PeerAsked(calls[t].event, RequestId(results[t]))' <=> PeerAsked(d, i)'
    BY <2>2, <2>4 DEF PeerAsked
  <2>6. QED
    BY <1>5, <1>6, <1>10, <2>2, <2>3, <2>4, <2>5
<1>18. AnsweredOnce'
  <2> SUFFICES ASSUME NEW t \in Keys(results), NEW u \in Keys(results), t # u,
                      calls[t].event = calls[u].event
               PROVE  ComesTwice(calls[t].event)' \/ calls'[t].event \in overlapped'
    BY <1>8 DEF AnsweredOnce
  <2>1. PICK d : d = calls[t].event
    OBVIOUS
  <2>2. ComesTwice(d) \/ d \in overlapped
    BY <2>1 DEF WorkerInvariant, AnsweredOnce
  <2>3. ComesTwice(calls[t].event)' <=> ComesTwice(d)'
    BY <1>8, <2>1 DEF ComesTwice
  <2>4. QED
    BY <1>5, <1>8, <1>10, <2>1, <2>2, <2>3
<1>19. NoticesAreForPeer'
  <2>1. active_client_pubkey # None => active_client_pubkey' = active_client_pubkey
    BY <1>1
  <2>2. active_client_pubkey = None => \A n \in Notices : notices[n].todo = {}
    BY NoneAssumption DEF WorkerTypeOK, TypeOK, WorkerInvariant, NoticesAreForPeer, Notice
  <2>3. QED
    BY <1>1, <2>1, <2>2 DEF vars, WorkerInvariant, NoticesAreForPeer
<1>20. OnePeer'
  <2>1. published' = published
    BY <1>1 DEF vars
  <2>2. QED
    BY <1>1, <1>4, <1>10, <1>15, <2>1, PublishedStay DEF OnePeer, WorkIsForPeer, PeerRequest
<1>21. OverlapsAreSeen'
  <2>1. ASSUME NEW q \in handling', NEW r \in handling', q # r,
               RequestId(q) = RequestId(r)
        PROVE  RequestId(r) \in overlapped'
    <3>1. CASE q \in handling /\ r \in handling
      BY <1>10, <2>1, <3>1 DEF WorkerInvariant, OverlapsAreSeen
    <3>2. CASE q \notin handling \/ r \notin handling
      <4>1. \E x \in handling : RequestId(x) = id /\ RequestId(r) = id
        BY <1>0, <1>11, <2>1, <3>2 DEF RequestId
      <4>2. ev.msg.kind = "request"
        BY <1>11, <2>1, <3>2
      <4>3. QED
        BY <1>0, <4>1, <4>2 DEF Accept
    <3>3. QED
      BY <3>1, <3>2
  <2>2. QED
    BY <1>6, <2>1 DEF OverlapsAreSeen
<1>22. QED
  BY <1>13, <1>14, <1>15, <1>16, <1>17, <1>18, <1>19, <1>20,
     <1>21 DEF WorkerInvariant


\* An answer goes where the map leads, to an event not answered yet unless it came
\* twice; without an entry its id was overlapped, whatever event the id names.
LEMMA AnswerStep ==
  ASSUME WorkerTypeOK, Correlation, WorkerInvariant, NEW t \in Calls,
         NEW r \in Readings, Answer(t, r)
  PROVE  WorkerInvariant'
<1>0. PICK id, d : id = RequestId(r) /\ d = Destination(id)
  OBVIOUS
<1>1. /\ r \in handling /\ handling' = handling \ {r}
      /\ results' = Put(results, t, r)
      /\ request_id_to_event_id' = Without(request_id_to_event_id, {id})
      /\ UNCHANGED <<channel, active_client_pubkey, overlapped, loop, forwarded,
                     notices, published, origin>>
      /\ calls[t].pc = "idle" /\ d \in EventIds
  BY <1>0 DEF Answer, LookUpRoute, Forget
<1>2. /\ [Next]_vars
      /\ PeerRequest(r) /\ r \notin InChannel
      /\ id \in RequestIds /\ origin[r].id \in EventIds
  BY <1>0, <1>1, WorkerStepIsTransportStep, PeerRequestType
     DEF WorkerNext, WorkerTypeOK, WorkerInvariant, WorkIsForPeer
<1>3. /\ calls'[t].event = d /\ calls'[t].pc # "idle"
      /\ \A u \in Calls \ {t} : calls'[u] = calls[u]
  <2>1. calls \in [Calls -> Call]
    BY DEF WorkerTypeOK, TypeOK
  <2>2. /\ calls' = [calls EXCEPT ![t] = calls'[t]]
        /\ calls'[t].event = d /\ calls'[t].pc # "idle"
    BY <1>0, <2>1 DEF Answer, LookUpRoute, NoCall
  <2>3. QED
    BY <2>1, <2>2
<1>4. t \notin Keys(results) /\ Keys(results) \subseteq Calls
  BY <1>1 DEF WorkerInvariant, WorkIsForPeer, Keys, WorkerTypeOK, Map
<1>5. /\ Keys(results') = Keys(results) \cup {t}
      /\ results'[t] = r
      /\ \A u \in Keys(results) : /\ results'[u] = results[u]
                                  /\ calls'[u] = calls[u]
  <2>1. results \in [Calls -> Readings \cup {None}] /\ r # None
    BY NoneAssumption DEF WorkerTypeOK, Map
  <2>2. QED
    BY <1>1, <1>3, <1>4, <2>1 DEF Put, Keys
<1>6. /\ request_id_to_event_id \in [RequestIds -> EventIds \cup {None}]
      /\ \A k \in RequestIds : request_id_to_event_id'[k] =
           IF k = id THEN None ELSE request_id_to_event_id[k]
      /\ Keys(request_id_to_event_id') = Keys(request_id_to_event_id) \ {id}
  BY <1>1 DEF WorkerTypeOK, Map, Without, Keys
<1>7. /\ \A q : PeerRequest(q) => PeerRequest(q)'
      /\ \A e, i : /\ Taken(e, i) => Taken(e, i)'
                   /\ PeerAsked(e, i) => PeerAsked(e, i)'
      /\ \A e : ComesTwice(e) => ComesTwice(e)'
      /\ \A q : RequestId(q)' = RequestId(q)
      /\ InChannel' = InChannel
  BY <1>1, <1>2, PeerFactsStay DEF InChannel, RequestId
<1>8. /\ id \in Keys(request_id_to_event_id) =>
           /\ d = request_id_to_event_id[id]
           /\ Taken(d, id)
           /\ \A u \in Keys(results) :
                calls[u].event = d => ComesTwice(d) \/ d \in overlapped
      /\ id \notin Keys(request_id_to_event_id) => d = id /\ d \in overlapped
  <2>1. id \in Keys(request_id_to_event_id) => d = request_id_to_event_id[id]
    BY <1>0 DEF Destination
  <2>2. id \notin Keys(request_id_to_event_id) => d = id /\ d \in overlapped
    <3>1. \/ request_id_to_event_id[id] = origin[r].id
          \/ id \in overlapped
      BY <1>0, <1>1 DEF WorkerInvariant, HandledIsKnown
    <3>2. request_id_to_event_id[id] = origin[r].id => id \in Keys(request_id_to_event_id)
      BY <1>2, <1>6, NoneAssumption DEF Keys
    <3>3. QED
      BY <1>0, <3>1, <3>2 DEF Destination
  <2>3. QED
    BY <2>1, <2>2 DEF WorkerInvariant, MapIsSound
<1>9. Taken(d, id) \/ (d = id /\ d \in overlapped)
  BY <1>8
<1>10. ChannelIsFresh'
  BY <1>1, <1>7 DEF WorkerInvariant, ChannelIsFresh
<1>11. MapIsSound'
  <2> SUFFICES ASSUME NEW k \in Keys(request_id_to_event_id) \ {id}
               PROVE  /\ Taken(request_id_to_event_id[k], k)'
                      /\ \A u \in Keys(results') :
                           calls'[u].event = request_id_to_event_id'[k] =>
                             \/ ComesTwice(request_id_to_event_id[k])'
                             \/ request_id_to_event_id'[k] \in overlapped'
    BY <1>6 DEF MapIsSound
  <2>1. PICK e : e = request_id_to_event_id[k]
    OBVIOUS
  <2>2. request_id_to_event_id'[k] = e
    BY <1>6, <2>1 DEF Keys
  <2>3. /\ Taken(e, k)
        /\ \A u \in Keys(results) :
             calls[u].event = e => ComesTwice(e) \/ e \in overlapped
    BY <2>1 DEF WorkerInvariant, MapIsSound
  <2>4. d = e => ComesTwice(e) \/ e \in overlapped
    <3>1. ASSUME d = e, Taken(d, id)
          PROVE  ComesTwice(e)
      <4>1. PICK q \in Readings : IsTaken(q, e, id)
        BY <3>1 DEF Taken
      <4>2. PICK x \in Readings : IsTaken(x, e, k)
        BY <2>3 DEF Taken
      <4>3. q # x
        BY <4>1, <4>2 DEF IsTaken
      <4>4. QED
        BY <4>1, <4>2, <4>3, TwoRequests DEF IsTaken
    <3>2. QED
      BY <1>9, <3>1
  <2>5. \A u \in Keys(results') :
          calls'[u].event = e => ComesTwice(e)' \/ e \in overlapped'
    BY <1>1, <1>3, <1>5, <1>7, <2>3, <2>4
  <2>6. Taken(request_id_to_event_id[k], k)' <=> Taken(e, k)'
    BY <2>2 DEF Taken, IsTaken
  <2>7. ComesTwice(request_id_to_event_id[k])' <=> ComesTwice(e)'
    BY <2>2 DEF ComesTwice
  <2>8. QED
    BY <1>7, <2>2, <2>3, <2>5, <2>6, <2>7
<1>12. WorkIsForPeer'
  <2>1. \A u \in Calls : calls'[u].pc # "idle" => u \in Keys(results')
    BY <1>3, <1>5 DEF WorkerInvariant, WorkIsForPeer
  <2>2. \A q \in handling' : PeerRequest(q)' /\ q \notin InChannel'
    BY <1>1, <1>7 DEF WorkerInvariant, WorkIsForPeer
  <2>3. ASSUME NEW u \in Keys(results')
        PROVE  /\ calls'[u].pc # "idle"
               /\ PeerRequest(results[u])'
               /\ \/ Taken(calls[u].event, RequestId(results[u]))'
                  \/ /\ calls'[u].event = RequestId(results[u])'
                     /\ calls'[u].event \in overlapped'
    <3>1. PICK q, e, i : q = results'[u] /\ e = calls'[u].event /\ i = RequestId(q)
      OBVIOUS
    <3>2. calls'[u].pc # "idle" /\ PeerRequest(q) /\ (Taken(e, i) \/ (e = i /\ e \in overlapped))
      <4>1. CASE u = t
        BY <1>0, <1>2, <1>3, <1>5, <1>9, <3>1, <4>1
      <4>2. CASE u # t
        BY <1>5, <3>1, <4>2 DEF WorkerInvariant, WorkIsForPeer
      <4>3. QED
        BY <4>1, <4>2
    <3>3. RequestId(results[u])' = i
      BY <1>7, <3>1 DEF RequestId
    <3>4. PeerRequest(results[u])' <=> PeerRequest(q)'
      BY <3>1 DEF PeerRequest
    <3>5. Taken(calls[u].event, RequestId(results[u]))' <=> Taken(e, i)'
      BY <3>1, <3>3 DEF Taken, IsTaken
    <3>6. QED
      BY <1>1, <1>7, <3>1, <3>2, <3>3, <3>4, <3>5
  <2>4. QED
    BY <2>1, <2>2, <2>3 DEF WorkIsForPeer
<1>13. HandledIsKnown' /\ OverlapsAreSeen'
  <2>1. ASSUME NEW q \in handling, q # r
        PROVE  \/ request_id_to_event_id'[RequestId(q)] = origin[q].id
               \/ RequestId(q) \in overlapped
    <3>1. RequestId(q) \in RequestIds /\ origin[q].id \in EventIds
      BY <2>1, PeerRequestType DEF WorkerTypeOK, WorkerInvariant, WorkIsForPeer
    <3>2. \/ request_id_to_event_id[RequestId(q)] = origin[q].id
          \/ RequestId(q) \in overlapped
      BY <2>1 DEF WorkerInvariant, HandledIsKnown
    <3>3. RequestId(q) = id => RequestId(q) \in overlapped
      BY <1>0, <1>1, <2>1 DEF WorkerInvariant, OverlapsAreSeen
    <3>4. QED
      BY <1>6, <3>1, <3>2, <3>3
  <2>2. QED
    BY <1>1, <1>7, <2>1 DEF WorkerInvariant, HandledIsKnown, OverlapsAreSeen
<1>14. ResultsReachTheirRequests'
  <2>1. d = origin[r].id \/ (id \in overlapped /\ (PeerAsked(d, id) \/ d = id))
    <3>1. \/ request_id_to_event_id[id] = origin[r].id
          \/ id \in overlapped
      BY <1>0, <1>1 DEF WorkerInvariant, HandledIsKnown
    <3>2. Taken(d, id) => PeerAsked(d, id)
      BY DEF Taken, IsTaken, PeerRequest, PeerAsked
    <3>3. QED
      BY <1>8, <3>1, <3>2
  <2> SUFFICES ASSUME NEW u \in Keys(results')
               PROVE  \/ calls'[u].event = origin'[results'[u]].id
                      \/ /\ RequestId(results[u])' \in overlapped'
                         /\ \/ PeerAsked(calls[u].event, RequestId(results[u]))'
                            \/ calls'[u].event = RequestId(results[u])'
    BY DEF ResultsReachTheirRequests
  <2>2. PICK q, e, i : q = results'[u] /\ e = calls'[u].event /\ i = RequestId(q)
    OBVIOUS
  <2>3. e = origin[q].id \/ (i \in overlapped /\ (PeerAsked(e, i) \/ e = i))
    <3>1. CASE u = t
      BY <1>0, <1>3, <1>5, <2>1, <2>2, <3>1
    <3>2. CASE u # t
      BY <1>5, <2>2, <3>2 DEF WorkerInvariant, ResultsReachTheirRequests
    <3>3. QED
      BY <3>1, <3>2
  <2>4. RequestId(results[u])' = i
    BY <1>7, <2>2 DEF RequestId
  <2>5. PeerAsked(calls[u].event, RequestId(results[u]))' <=> PeerAsked(e, i)'
    BY <2>2, <2>4 DEF PeerAsked
  <2>6. QED
    BY <1>1, <1>7, <2>2, <2>3, <2>4, <2>5
<1>15. AnsweredOnce'
  <2> SUFFICES ASSUME NEW u \in Keys(results'), NEW v \in Keys(results'), u # v,
                      calls'[u].event = calls'[v].event
               PROVE  ComesTwice(calls[u].event)' \/ calls'[u].event \in overlapped'
    BY DEF AnsweredOnce
  <2>1. PICK e : e = calls'[u].event
    OBVIOUS
  <2>2. ComesTwice(e) \/ e \in overlapped
    <3>1. CASE u = t \/ v = t
      <4>1. e = d /\ \E x \in Keys(results) : calls[x].event = d
        BY <1>3, <1>5, <2>1, <3>1
      <4>2. QED
        BY <1>8, <4>1
    <3>2. CASE u # t /\ v # t
      BY <1>5, <2>1, <3>2 DEF WorkerInvariant, AnsweredOnce
    <3>3. QED
      BY <3>1, <3>2
  <2>3. ComesTwice(calls[u].event)' <=> ComesTwice(e)'
    BY <2>1 DEF ComesTwice
  <2>4. QED
    BY <1>1, <1>7, <2>1, <2>2, <2>3
<1>16. NoticesAreForPeer'
  BY <1>1 DEF WorkerInvariant, NoticesAreForPeer
<1>17. OnePeer'
  <2>1. \A p \in published' :
          \/ p.to = active_client_pubkey'
          \/ /\ p.kind = "response"
             /\ Asked(p.to, p.event)'
             /\ Asked(active_client_pubkey, p.event)' \/ p.event \in overlapped'
    BY <1>1, <1>2, PublishedStay
  <2>2. QED
    BY <1>1, <2>1 DEF WorkerInvariant, OnePeer
<1>18. QED
  BY <1>10, <1>11, <1>12, <1>13, <1>14, <1>15, <1>16, <1>17 DEF WorkerInvariant

\* An answer whose id is no event's changes nothing but the handler.
LEMMA AnswerUnknownStep ==
  ASSUME WorkerTypeOK, WorkerInvariant, NEW r \in Readings, AnswerUnknown(r)
  PROVE  WorkerInvariant'
<1>1. /\ handling' \subseteq handling
      /\ UNCHANGED <<vars, channel, active_client_pubkey, request_id_to_event_id,
                     results, overlapped>>
  BY DEF AnswerUnknown
<1>2. /\ [Next]_vars
      /\ UNCHANGED <<loop, forwarded, calls, notices, published, origin>>
      /\ InChannel' = InChannel
  BY <1>1 DEF vars, InChannel
<1>3. /\ \A q : PeerRequest(q) => PeerRequest(q)'
      /\ \A e, i : /\ Taken(e, i) => Taken(e, i)'
                   /\ PeerAsked(e, i) => PeerAsked(e, i)'
      /\ \A e : ComesTwice(e) => ComesTwice(e)'
  BY <1>1, <1>2, PeerFactsStay
<1>4. ChannelIsFresh'
  BY <1>1, <1>2 DEF WorkerInvariant, ChannelIsFresh
<1>5. MapIsSound'
  BY <1>1, <1>2, <1>3 DEF WorkerInvariant, MapIsSound, Keys
<1>6. WorkIsForPeer'
  <2>1. \A q \in handling' : PeerRequest(q)' /\ q \notin InChannel'
    BY <1>1, <1>2, <1>3 DEF WorkerInvariant, WorkIsForPeer
  <2>2. QED
    BY <1>1, <1>2, <1>3, <2>1 DEF WorkerInvariant, WorkIsForPeer, Keys, RequestId, PeerRequest
<1>7. HandledIsKnown' /\ OverlapsAreSeen' /\ NoticesAreForPeer'
  BY <1>1, <1>2 DEF WorkerInvariant, HandledIsKnown, OverlapsAreSeen,
     NoticesAreForPeer, RequestId
<1>8. ResultsReachTheirRequests' /\ AnsweredOnce'
  BY <1>1, <1>2, <1>3 DEF WorkerInvariant, ResultsReachTheirRequests, AnsweredOnce, Keys,
     RequestId
<1>9. OnePeer'
  BY <1>1, <1>2, PublishedStay DEF WorkerInvariant, OnePeer
<1>10. QED
  BY <1>4, <1>5, <1>6, <1>7, <1>8, <1>9 DEF WorkerInvariant

LEMMA QuitStep ==
  ASSUME WorkerTypeOK, WorkerInvariant, Quit
  PROVE  WorkerInvariant'
<1>1. [Next]_vars
  BY WorkerStepIsTransportStep DEF WorkerNext
<1>2. /\ UNCHANGED <<loop, forwarded, calls, notices, published, origin>>
      /\ UNCHANGED <<channel, active_client_pubkey, request_id_to_event_id,
                     handling, results, overlapped>>
  BY DEF Quit, ClearSessions
<1>3. NoticesAreForPeer'
  BY <1>2 DEF WorkerInvariant, NoticesAreForPeer
<1>4. OnePeer'
  BY <1>1, <1>2, PublishedStay DEF WorkerInvariant, OnePeer
<1>5. loop' \notin forwarded
  BY <1>2 DEF WorkerInvariant, ChannelIsFresh
<1>6. QED
  BY <1>1, <1>2, <1>3, <1>4, <1>5, WorkerFrame DEF WorkerInvariant

-----------------------------------------------------------------------------

LEMMA InitWorker == WorkerInit => WorkerInvariant
BY NoneAssumption DEF WorkerInit, Init, WorkerInvariant, ChannelIsFresh, MapIsSound,
   WorkIsForPeer, OverlapsAreSeen, NoticesAreForPeer, OnePeer, HandledIsKnown,
   ResultsReachTheirRequests, AnsweredOnce, EmptyMap, Keys, InChannel, NoCall, NoNotice

LEMMA NextWorker ==
  ASSUME WorkerTypeOK, Correlation, WorkerInvariant, [WorkerNext]_allVars
  PROVE  WorkerInvariant'
<1>1. CASE UNCHANGED allVars
  <2>1. UNCHANGED vars /\ UNCHANGED worker
    BY <1>1 DEF allVars
  <2>2. [Next]_vars /\ NoticesAreForPeer' /\ loop' \notin forwarded
    BY <2>1 DEF vars, worker, WorkerInvariant, NoticesAreForPeer, ChannelIsFresh
  <2>3. OnePeer'
    BY <2>1, <2>2, PublishedStay DEF vars, worker, WorkerInvariant, OnePeer
  <2>4. QED
    BY <2>1, <2>2, <2>3, WorkerFrame DEF vars, worker, WorkerInvariant
<1>2. QED
  BY <1>1, TransportSteps, EnqueueStep, IgnoreStep, AcceptStep, AnswerStep,
     AnswerUnknownStep, QuitStep DEF WorkerNext

LEMMA WorkerInductive ==
  WorkerSpec => [](WorkerTypeOK /\ Correlation /\ WorkerInvariant)
<1>1. WorkerInit => WorkerTypeOK /\ Correlation /\ WorkerInvariant
  BY WorkerInitType, InitCorrelation, InitWorker DEF WorkerInit
<1>2. ASSUME WorkerTypeOK, Correlation, WorkerInvariant, [WorkerNext]_allVars
      PROVE  WorkerTypeOK' /\ Correlation' /\ WorkerInvariant'
  BY <1>2, WorkerNextType, WorkerStepIsTransportStep, NextCorrelation, NextWorker
     DEF WorkerTypeOK
<1>3. QED
  BY <1>1, <1>2, PTL DEF WorkerSpec

\* Types of the worker's state (worker.rs, NostrServerWorker).
THEOREM WorkerTypeCorrect == WorkerSpec => []WorkerTypeOK
BY WorkerInductive, PTL

\* A transport with a worker in front of it is a transport: the worker never
\* takes it anywhere its own operations could not, not even when it takes a
\* JSON-RPC id for an event's (worker.rs, run).
THEOREM WorkerImplementsTransport == WorkerSpec => Spec
<1>1. WorkerInit => Init
  BY DEF WorkerInit
<1>2. WorkerTypeOK /\ [WorkerNext]_allVars => [Next]_vars
  BY WorkerStepIsTransportStep
<1>3. QED
  BY <1>1, <1>2, WorkerInductive, PTL DEF WorkerSpec, Spec

\* The service hears from one client only, and what is written to another is a
\* response to an id that both have used, or that the client had in use for two
\* requests (worker.rs, run and forward_server_internal).
THEOREM WorkerHasOnePeer == WorkerSpec => []OnePeer
<1>1. WorkerInvariant => OnePeer
  BY DEF WorkerInvariant
<1>2. QED
  BY <1>1, WorkerInductive, PTL

\* A request the handler works on can be answered, unless its id was used again
\* meanwhile (worker.rs, run).
THEOREM WorkerKnowsItsRequests == WorkerSpec => []HandledIsKnown
<1>1. WorkerInvariant => HandledIsKnown
  BY DEF WorkerInvariant
<1>2. QED
  BY <1>1, WorkerInductive, PTL

\* Every answer is sent for its request, unless its id was used for two at a time;
\* then for one with the same id, or for the event the id names (worker.rs,
\* forward_server_internal).
THEOREM WorkerAnswersTheRequest == WorkerSpec => []ResultsReachTheirRequests
<1>1. WorkerInvariant => ResultsReachTheirRequests
  BY DEF WorkerInvariant
<1>2. QED
  BY <1>1, WorkerInductive, PTL

\* No event is answered twice that was read once, unless its id was used for two
\* requests at a time (worker.rs, forward_server_internal).
THEOREM WorkerAnswersOnce == WorkerSpec => []AnsweredOnce
<1>1. WorkerInvariant => AnsweredOnce
  BY DEF WorkerInvariant
<1>2. QED
  BY <1>1, WorkerInductive, PTL
=============================================================================
