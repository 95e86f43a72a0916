---------------------------- MODULE ServerWorker ----------------------------
(***************************************************************************)
(* NostrServerWorker (src/rmcp_transport/worker.rs): the task that puts an *)
(* rmcp service, made for one peer, behind a NostrServerTransport, made    *)
(* for many clients.  One select loop takes messages from the transport's  *)
(* channel to the handler, and from the handler to the transport; it       *)
(* awaits each send to its end, so it has at most one in progress.         *)
(*                                                                         *)
(* The handler knows a request by its JSON-RPC id and the transport by the *)
(* id of its event; request_id_to_event_id leads from one to the other.    *)
(* An id it does not lead from is itself taken for an event's id.          *)
(* The transport is the one of ServerTransport: each of its steps is here  *)
(* a step of its own tasks, or one the worker makes.                       *)
(***************************************************************************)
EXTENDS ServerTransport, Integers, Sequences

CONSTANT Unconvertible  \* the messages that have no rmcp form

ASSUME UnconvertibleAssumption == Unconvertible \subseteq Messages

VARIABLES
  channel,                 \* the transport's channel of incoming messages
  active_client_pubkey,    \* the one client served, or None
  request_id_to_event_id,  \* the correlation map
  handling,                \* the requests the handler works on
  running,                 \* the select loop
  results,                 \* history: the request each send_response is the
                           \*   handler's answer to
  overlapped               \* history: the ids used for a request while the
                           \*   handler worked on another with the same id

worker == <<channel, active_client_pubkey, request_id_to_event_id, handling,
            running, results, overlapped>>

allVars == <<vars, worker>>

InChannel == {channel[i] : i \in 1 .. Len(channel)}

RequestId(r) == origin[r].msg.id

WorkerTypeOK ==
  /\ TypeOK
  /\ channel \in Seq(Readings)
  /\ active_client_pubkey \in Clients \cup {None}
  /\ request_id_to_event_id \in Map(RequestIds, EventIds)
  /\ handling \subseteq Readings
  /\ running \in BOOLEAN
  /\ results \in Map(Calls, Readings)
  /\ overlapped \subseteq RequestIds

WorkerInit ==
  /\ Init
  /\ channel = <<>>
  /\ active_client_pubkey = None
  /\ request_id_to_event_id = EmptyMap(RequestIds)
  /\ handling = {}
  /\ running = TRUE
  /\ results = EmptyMap(Calls)
  /\ overlapped = {}

-----------------------------------------------------------------------------
(* The transport's own tasks *)

\* The event loop reads an event; sessions expire and are removed.
Background ==
  /\ \/ \E r \in Readings : \E ev \in Traffic[r] : Read(r, ev)
     \/ \E c \in Clients : BecomeIdle(c)
     \/ CleanupSessions
  /\ UNCHANGED worker

\* The event loop forwards a message.
Enqueue ==
  /\ Forward
  /\ channel' = Append(channel, loop)
  /\ UNCHANGED <<active_client_pubkey, request_id_to_event_id, handling,
                 running, results, overlapped>>

-----------------------------------------------------------------------------
(* From the channel to the handler *)

Sending ==
  \/ \E t \in Calls : Running(t)
  \/ \E n \in Notices : notices[n].pc \in {"lookup", "publish"}

\* Mutant of Free: a send that failed is waited for.
FreeAfterSuccess ==
  running /\ ~Sending /\ \A t \in Calls : calls[t].pc # "err"

\* The loop is at its select.
Free == running /\ ~Sending

\* Mutant of Serves: the worker serves whoever wrote last.
ServesAnyone(c) == c \in Clients

\* The worker serves the first client it hears of.
Serves(c) == active_client_pubkey \in {None, c}

\* A message of another client is dropped.
Ignore ==
  /\ Free
  /\ channel # <<>>
  /\ ~Serves(origin[Head(channel)].from)
  /\ channel' = Tail(channel)
  /\ UNCHANGED <<vars, active_client_pubkey, request_id_to_event_id,
                 handling, running, results, overlapped>>

\* Mutants of Remember: an entry is never overwritten; the id is stored.
RememberFirst(id, e) ==
  IF id \in Keys(request_id_to_event_id)
    THEN request_id_to_event_id
    ELSE Put(request_id_to_event_id, id, e)
RememberId(id, e) == Put(request_id_to_event_id, id, id)

\* The map once a request has come with this id, under event e.
Remember(id, e) == Put(request_id_to_event_id, id, e)

\* The message has an rmcp form (internal_to_rmcp_server_rx).
Converts(msg) == msg \notin Unconvertible

\* A request is entered in the map, over the entry an unanswered request with
\* the same id may have there; then what has an rmcp form is handed over.
Accept ==
  LET r == Head(channel)
      ev == origin[r]
      request == ev.msg.kind = "request"
  IN
  /\ Free
  /\ channel # <<>>
  /\ Serves(ev.from)
  /\ channel' = Tail(channel)
  /\ active_client_pubkey' = ev.from
  /\ request_id_to_event_id' =
       IF request THEN Remember(ev.msg.id, ev.id) ELSE request_id_to_event_id
  /\ overlapped' =
       IF request /\ \E q \in handling : RequestId(q) = ev.msg.id
         THEN overlapped \cup {ev.msg.id}
         ELSE overlapped
  /\ handling' = IF request /\ Converts(ev.msg)
                   THEN handling \cup {r}
                   ELSE handling
  /\ UNCHANGED <<vars, running, results>>

-----------------------------------------------------------------------------
(* From the handler to the transport: forward_server_internal *)

\* Mutant of Forget: the entry stays.
ForgetNothing(id) == request_id_to_event_id

\* The map once an answer with this id is being sent.
Forget(id) == Without(request_id_to_event_id, {id})

\* Mutant of Destination: an id that may be an event's is taken for one first.
DestinationByName(id) == IF id \in EventIds THEN id ELSE request_id_to_event_id[id]

\* Where the answer with this id goes: to the event the map leads to, or else to
\* the event whose id it is.
Destination(id) ==
  IF id \in Keys(request_id_to_event_id) THEN request_id_to_event_id[id] ELSE id

\* The handler answers request r, with a result or an error.  The worker finds
\* the event by the id alone, and forgets it before it sends.
Answer(t, r) ==
  LET id == RequestId(r) IN
  /\ Free
  /\ r \in handling
  /\ Destination(id) \in EventIds
  /\ LookUpRoute(t, Destination(id))
  /\ request_id_to_event_id' = Forget(id)
  /\ results' = Put(results, t, r)
  /\ handling' = handling \ {r}
  /\ UNCHANGED <<channel, active_client_pubkey, running, overlapped>>

\* The id is not in the map, and is a number, or a string that is no event's id:
\* an error, here or in the first step of send_response.
AnswerUnknown(r) ==
  /\ Free
  /\ r \in handling
  /\ Destination(RequestId(r)) \notin EventIds
  /\ handling' = handling \ {r}
  /\ UNCHANGED <<vars, channel, active_client_pubkey,
                 request_id_to_event_id, running, results, overlapped>>

\* The handler sends a notification, or a request of its own, to its peer; with
\* no client yet that is an error.
SendToPeer(n) ==
  /\ Free
  /\ active_client_pubkey # None
  /\ Notify(n, active_client_pubkey, None)
  /\ UNCHANGED worker

\* The send in progress goes on.
Continue ==
  /\ \/ \E t \in Calls : CallStep(t)
     \/ \E n \in Notices : NoticeStep(n)
  /\ UNCHANGED worker

-----------------------------------------------------------------------------

\* Cancelled, or the handler is gone: the loop ends and closes the transport.
Quit ==
  /\ Free
  /\ ClearSessions
  /\ running' = FALSE
  /\ UNCHANGED <<channel, active_client_pubkey, request_id_to_event_id,
                 handling, results, overlapped>>

FinishClose ==
  /\ ClearRoutes
  /\ UNCHANGED worker

WorkerNext ==
  \/ Background
  \/ Enqueue
  \/ Ignore
  \/ Accept
  \/ \E t \in Calls, r \in Readings : Answer(t, r)
  \/ \E r \in Readings : AnswerUnknown(r)
  \/ \E n \in Notices : SendToPeer(n)
  \/ Continue
  \/ Quit
  \/ FinishClose

WorkerSpec == WorkerInit /\ [][WorkerNext]_allVars

\* The tasks of the runtime run.  While the channel holds a message the select
\* loop comes to it again and again between its sends, and select! chooses at
\* random among what is ready, so it is taken in the end: strong fairness.
WorkerFairness ==
  /\ WF_allVars(Enqueue)
  /\ WF_allVars(Continue)
  /\ SF_allVars(Ignore \/ Accept)

FairWorkerSpec == WorkerSpec /\ WorkerFairness

-----------------------------------------------------------------------------
(* Safety *)

\* The service has one peer: all it is given, and all it sends, is of one and
\* the same client, while the transport serves many.  There are two ways for an
\* answer to leave this circle, and both need the peer to use the id of an event
\* another client asked under: for an event of its own, or as the JSON-RPC id of
\* two requests at a time, whose second answer is not in the map any more.
OnePeer ==
  /\ \A r \in handling : origin[r].from = active_client_pubkey
  /\ \A p \in published :
       \/ p.to = active_client_pubkey
       \/ /\ p.kind = "response"
          /\ Asked(p.to, p.event)
          /\ Asked(active_client_pubkey, p.event) \/ p.event \in overlapped

\* While the handler works on a request, its answer finds the request's event,
\* unless the client uses one id for two requests at a time: the second entry is
\* written over the first, and the first answer takes the second entry away.
HandledIsKnown ==
  \A r \in handling : \/ request_id_to_event_id[RequestId(r)] = origin[r].id
                      \/ RequestId(r) \in overlapped

\* The peer has asked under event e with this JSON-RPC id.
PeerAsked(e, id) ==
  \E q \in forwarded \cap Requests : /\ origin[q].from = active_client_pubkey
                                    /\ origin[q].id = e
                                    /\ RequestId(q) = id

\* An answer is sent for the event of the request it was made for.  Only with an
\* id that was used for two requests at a time is it sent for another, and then
\* for one with the same id, or for the event whose id the id is.
ResultsReachTheirRequests ==
  \A t \in Keys(results) :
    LET event == calls[t].event
        id == RequestId(results[t])
    IN \/ event = origin[results[t]].id
       \/ id \in overlapped /\ (PeerAsked(event, id) \/ event = id)

\* The peer's request under event e was read, and passed on, twice.
ComesTwice(e) ==
  \E q, r \in forwarded \cap Requests :
    /\ q # r
    /\ \A x \in {q, r} : origin[x].id = e /\ origin[x].from = active_client_pubkey

\* No event is answered twice, although two requests with one id make two answers
\* with that id, unless it was read twice, or its id is such an id.
AnsweredOnce ==
  \A t, u \in Keys(results) :
    t # u /\ calls[t].event = calls[u].event =>
      ComesTwice(calls[t].event) \/ calls[t].event \in overlapped

-----------------------------------------------------------------------------
(* The inductive invariant behind them *)

\* A request of the client that is served.
PeerRequest(r) == /\ r \in forwarded \cap Requests
                  /\ origin[r].from = active_client_pubkey

\* One that was taken from the channel, under event e and with this JSON-RPC id.
IsTaken(r, e, id) == /\ PeerRequest(r)
                     /\ r \notin InChannel
                     /\ origin[r].id = e
                     /\ RequestId(r) = id

Taken(e, id) == \E r \in Readings : IsTaken(r, e, id)

\* A reading comes once: what is in the channel, or not yet, is nowhere else.
ChannelIsFresh ==
  /\ loop \notin forwarded
  /\ InChannel \subseteq forwarded
  /\ \A i, j \in 1 .. Len(channel) : channel[i] = channel[j] => i = j

\* The map leads from an id to the event of a request that had it, and that has
\* not been answered.
MapIsSound ==
  \A id \in Keys(request_id_to_event_id) :
    LET e == request_id_to_event_id[id] IN
    /\ Taken(e, id)
    /\ \A t \in Keys(results) :
         calls[t].event = e => ComesTwice(e) \/ e \in overlapped

\* The handler works on, and has answered, requests of its peer.
WorkIsForPeer ==
  /\ \A r \in handling : PeerRequest(r) /\ r \notin InChannel
  /\ \A t \in Calls : calls[t].pc # "idle" => t \in Keys(results)
  /\ \A t \in Keys(results) :
       LET e == calls[t].event
           id == RequestId(results[t])
       IN /\ calls[t].pc # "idle"
          /\ PeerRequest(results[t])
          /\ Taken(e, id) \/ (e = id /\ e \in overlapped)

\* Two requests with one id, at the handler at a time, are an overlap.
OverlapsAreSeen ==
  \A q, r \in handling :
    q # r /\ RequestId(q) = RequestId(r) => RequestId(r) \in overlapped

\* Its notifications are on their way to its peer.
NoticesAreForPeer ==
  \A n \in Notices : /\ notices[n].todo \subseteq {active_client_pubkey}
                     /\ notices[n].target \in {active_client_pubkey, None}

WorkerInvariant ==
  /\ ChannelIsFresh
  /\ MapIsSound
  /\ WorkIsForPeer
  /\ OverlapsAreSeen
  /\ NoticesAreForPeer
  /\ OnePeer
  /\ HandledIsKnown
  /\ ResultsReachTheirRequests
  /\ AnsweredOnce

-----------------------------------------------------------------------------
(* Liveness, under Fairness *)

\* No failure, expiry or ignored client keeps the worker from its channel: once
\* there is something in it, it will be empty, unless the worker ends.  (There are
\* finitely many readings.)
ChannelIsDrained == channel # <<>> ~> channel = <<>> \/ ~running
==============================================================================
