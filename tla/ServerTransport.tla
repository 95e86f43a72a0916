--------------------------- MODULE ServerTransport ---------------------------
(***************************************************************************)
(* NostrServerTransport (src/transport/server.rs): one event loop, one     *)
(* cleanup task, and any number of application tasks that answer requests  *)
(* or send notifications, all sharing two maps under two separate locks:   *)
(*                                                                         *)
(*   sessions         client key -> ClientSession                          *)
(*   event_to_client  event id   -> client key                             *)
(*                                                                         *)
(* An action is a stretch of code between two points where another task    *)
(* can see or change a map.  The event loop takes the event_to_client lock *)
(* while it holds the sessions lock, and so does cleanup, so each of them  *)
(* updates both maps in one step; send_response takes four locks one after *)
(* the other and is four steps around the publication.                     *)
(*                                                                         *)
(* The loop takes the id, the author and the content of the event within a *)
(* gift wrap as they stand there.  So a reading, which is one passage of   *)
(* the loop, may have any: one event may be read in several wraps, and one *)
(* id with more than one author or content; and a progress token may be    *)
(* any string, that of an event's id too.  What follows from a client's    *)
(* name is said of what was read in its name.                              *)
(***************************************************************************)
EXTENDS BaseTransport, MapOps

CONSTANTS
  Clients,        \* public keys of clients
  Readings,       \* what the event loop reads, one passage each
  EventIds,       \* ids of inner (signed) events
  RequestIds,     \* JSON-RPC ids
  AppId,          \* the id the application itself puts in a response
  Tokens,         \* MCP progress tokens
  Messages,       \* what an event may carry
  Traffic,        \* the events that may come at each reading
  Calls,          \* invocations of send_response
  Notices,        \* invocations of send_notification and broadcast_notification
  EncryptionMode, \* config.encryption_mode
  AllowedKeys,    \* config.allowed_public_keys, {} when everyone is allowed
  ExcludedCapabilities  \* config.excluded_capabilities

MessageKinds == {"request", "notification", "response", "malformed"}

VARIABLES
  sessions,        \* the session map
  event_to_client, \* the reverse lookup
  loop,            \* the reading tracked but not yet forwarded, or None
  forwarded,       \* the readings in, or taken from, the message channel
  calls,           \* the progress of each send_response
  notices,         \* the progress of each notification call
  published,       \* what has reached a relay
  origin,          \* history: the event of every reading so far
  phase            \* "open", "clearing" (inside close), "closed"

vars == <<sessions, event_to_client, loop, forwarded, calls, notices,
          published, origin, phase>>

-----------------------------------------------------------------------------
(* Data *)

\* An event as the loop sees it, taken out of its wrap if it came in one.
Inbound == [id : EventIds, from : Clients, wrapped : BOOLEAN, msg : Messages]

\* ClientSession.  Event ids and progress tokens are keys of one map; idle
\* stands for last_activity.elapsed() > session_timeout.
Session ==
  [is_initialized : BOOLEAN, is_encrypted : BOOLEAN, idle : BOOLEAN,
   pending_requests : Map(EventIds \cup Tokens, RequestIds \cup EventIds),
   event_to_progress_token : Map(EventIds, Tokens)]

ASSUME ModeAssumption == EncryptionMode \in EncryptionModes
ASSUME TrafficAssumption == Traffic \in [Readings -> SUBSET Inbound]
ASSUME MessageAssumption ==
  \A m \in Messages :
    /\ m.kind \in MessageKinds
    /\ m.token \in Tokens \cup {None}
    /\ m.kind = "request" => m.id \in RequestIds
ASSUME NoneAssumption ==
  /\ None \notin Clients \cup Readings \cup EventIds \cup RequestIds \cup Tokens
  /\ None \notin Session
  /\ None \notin Inbound

NewSession(is_encrypted) ==
  [is_initialized |-> FALSE, is_encrypted |-> is_encrypted, idle |-> FALSE,
   pending_requests |-> EmptyMap(EventIds \cup Tokens),
   event_to_progress_token |-> EmptyMap(EventIds)]

CallPc == {"idle", "session", "publish", "untrack", "unroute", "ok", "err"}

Call == [pc : CallPc, event : EventIds \cup {None}, client : Clients \cup {None},
         id : RequestIds \cup EventIds \cup {AppId}, encrypted : BOOLEAN,
         dropped : BOOLEAN]

NoCall == [pc |-> "idle", event |-> None, client |-> None, id |-> AppId,
           encrypted |-> FALSE, dropped |-> FALSE]

NoticePc == {"idle", "lookup", "publish", "ok", "err", "dropped"}

Notice == [pc : NoticePc, broadcast : BOOLEAN, todo : SUBSET Clients,
           target : Clients \cup {None}, event : EventIds \cup {None},
           encrypted : BOOLEAN]

NoNotice == [pc |-> "idle", broadcast |-> FALSE, todo |-> {}, target |-> None,
             event |-> None, encrypted |-> FALSE]

\* An event on the relay: its p tag, its e tag, whether it is gift wrapped.
Responses ==
  [kind : {"response"}, to : Clients, event : EventIds,
   id : RequestIds \cup EventIds \cup {AppId}, encrypted : BOOLEAN]
Notifications ==
  [kind : {"direct", "broadcast"}, to : Clients,
   event : EventIds \cup {None}, encrypted : BOOLEAN]

\* A send_response in progress knows its event and its client; a notification
\* call about to publish knows its target.
CallsHaveTargets ==
  /\ \A t \in Calls : calls[t].pc \in {"session", "publish", "untrack", "unroute"} =>
       calls[t].event \in EventIds /\ calls[t].client \in Clients
  /\ \A n \in Notices :
       notices[n].pc = "publish" => notices[n].target \in Clients

TypeOK ==
  /\ sessions \in Map(Clients, Session)
  /\ event_to_client \in Map(EventIds, Clients)
  /\ loop \in Readings \cup {None}
  /\ forwarded \subseteq Readings
  /\ calls \in [Calls -> Call]
  /\ notices \in [Notices -> Notice]
  /\ CallsHaveTargets
  /\ published \subseteq Responses \cup Notifications
  /\ origin \in Map(Readings, Inbound)
  /\ phase \in {"open", "clearing", "closed"}

Init ==
  /\ sessions = EmptyMap(Clients)
  /\ event_to_client = EmptyMap(EventIds)
  /\ loop = None
  /\ forwarded = {}
  /\ calls = [t \in Calls |-> NoCall]
  /\ notices = [n \in Notices |-> NoNotice]
  /\ published = {}
  /\ origin = EmptyMap(Readings)
  /\ phase = "open"

-----------------------------------------------------------------------------
(* The event loop *)

\* is_capability_excluded: what a key outside the allow list may still send.
IsCapabilityExcluded(msg) ==
  \/ msg.method \in {"initialize", "notifications/initialized"}
  \/ \E x \in ExcludedCapabilities :
       x.method = msg.method /\ x.name \in {None, msg.name}

\* Mutant of Admissible: a key that has a session is not checked again.
AdmissibleOnceKnown(ev) ==
  /\ EncryptionMode # (IF ev.wrapped THEN "Disabled" ELSE "Required")
  /\ ev.msg.kind # "malformed"
  /\ \/ AllowedKeys = {}
     \/ ev.from \in AllowedKeys \cup Keys(sessions)
     \/ IsCapabilityExcluded(ev.msg)

\* The filters of the loop, in its order: the encryption mode, decryption and
\* parsing ("malformed" stands for what fails either), authorization.
Admissible(ev) ==
  /\ EncryptionMode # (IF ev.wrapped THEN "Disabled" ELSE "Required")
  /\ ev.msg.kind # "malformed"
  /\ \/ AllowedKeys = {}
     \/ ev.from \in AllowedKeys
     \/ IsCapabilityExcluded(ev.msg)

\* The correlation entries of a request: its id under the event's id, and,
\* when it asks for progress, the event's id under the token.
WithRequest(pending, e, msg) ==
  IF msg.token = None
    THEN Put(pending, e, msg.id)
    ELSE Put(Put(pending, e, msg.id), msg.token, e)

\* The session of the sender, made on its first message, after its event.
SessionAfter(ev) ==
  LET session == IF ev.from \in Keys(sessions) THEN sessions[ev.from]
                                                ELSE NewSession(ev.wrapped)
      request == ev.msg.kind = "request"
  IN [is_initialized |->
        \/ session.is_initialized
        \/ /\ ev.msg.kind = "notification"
           /\ ev.msg.method = "notifications/initialized",
      is_encrypted |-> ev.wrapped,
      idle |-> FALSE,
      pending_requests |->
        IF request THEN WithRequest(session.pending_requests, ev.id, ev.msg)
                   ELSE session.pending_requests,
      event_to_progress_token |->
        IF request /\ ev.msg.token # None
          THEN Put(session.event_to_progress_token, ev.id, ev.msg.token)
          ELSE session.event_to_progress_token]

\* The relay pool verifies what it hands out and hands no event out twice.  Of
\* what is in a wrap it knows nothing.
Unseen(ev) ==
  ev.wrapped \/ \A r \in Keys(origin) : origin[r].id = ev.id => origin[r].wrapped

\* The loop reads an event and drops it at one of its filters.
Discard(r, ev) ==
  /\ loop = None
  /\ r \notin Keys(origin)
  /\ Unseen(ev)
  /\ ~Admissible(ev)
  /\ origin' = Put(origin, r, ev)
  /\ UNCHANGED <<sessions, event_to_client, loop, forwarded, calls, notices,
                 published, phase>>

\* The loop reads an event, and records its sender and its request.
Track(r, ev) ==
  /\ loop = None
  /\ r \notin Keys(origin)
  /\ Unseen(ev)
  /\ Admissible(ev)
  /\ origin' = Put(origin, r, ev)
  /\ sessions' = Put(sessions, ev.from, SessionAfter(ev))
  /\ event_to_client' = IF ev.msg.kind = "request"
                          THEN Put(event_to_client, ev.id, ev.from)
                          ELSE event_to_client
  /\ loop' = r
  /\ UNCHANGED <<forwarded, calls, notices, published, phase>>

\* Mutant of Forward: the message is lost once the transport is closed.
ForwardWhileOpen ==
  /\ loop # None
  /\ forwarded' = IF phase = "open" THEN forwarded \cup {loop} ELSE forwarded
  /\ loop' = None
  /\ UNCHANGED <<sessions, event_to_client, calls, notices, published, origin,
                 phase>>

\* The locks are released; the message goes to the consumer's channel.
Forward ==
  /\ loop # None
  /\ forwarded' = forwarded \cup {loop}
  /\ loop' = None
  /\ UNCHANGED <<sessions, event_to_client, calls, notices, published, origin,
                 phase>>

-----------------------------------------------------------------------------
(* The cleanup task *)

\* The session timeout of client c elapses.
BecomeIdle(c) ==
  /\ c \in Keys(sessions)
  /\ ~sessions[c].idle
  /\ sessions' = [sessions EXCEPT ![c].idle = TRUE]
  /\ UNCHANGED <<event_to_client, loop, forwarded, calls, notices, published,
                 origin, phase>>

Expired == {c \in Keys(sessions) : sessions[c].idle}

\* Mutant of SessionKeys: only the requests with a progress token.
TokenKeys(c) == Keys(sessions[c].event_to_progress_token)

\* The keys a cleanup removes from event_to_client along with session c.
SessionKeys(c) == Keys(sessions[c].pending_requests)
                    \cup Keys(sessions[c].event_to_progress_token)

\* Mutant of CleanupSessions: a session with an unanswered request is spared.
CleanupQuietSessions ==
  LET quiet == {c \in Expired : Keys(sessions[c].pending_requests) = {}} IN
  /\ quiet # {}
  /\ sessions' = Without(sessions, quiet)
  /\ UNCHANGED <<event_to_client, loop, forwarded, calls, notices, published,
                 origin, phase>>

\* The tick of the interval: every expired session goes, with its routes.
CleanupSessions ==
  /\ Expired # {}
  /\ sessions' = Without(sessions, Expired)
  /\ event_to_client' =
       Without(event_to_client, UNION {SessionKeys(c) : c \in Expired})
  /\ UNCHANGED <<loop, forwarded, calls, notices, published, origin, phase>>

-----------------------------------------------------------------------------
(* send_response *)

Running(t) == calls[t].pc \notin {"idle", "ok", "err"} /\ ~calls[t].dropped

\* Mutant of LookUpRoute: an event without a route is not an error.
LookUpRouteUnchecked(t, e) ==
  /\ phase # "clearing"
  /\ calls[t].pc = "idle"
  /\ calls' = [calls EXCEPT ![t] =
       [NoCall EXCEPT !.pc = "session", !.event = e,
                      !.client = event_to_client[e]]]
  /\ UNCHANGED <<sessions, event_to_client, loop, forwarded, notices,
                 published, origin, phase>>

\* Mutant of LookUpRoute: the route is taken out at once.
LookUpRouteTaking(t, e) ==
  /\ phase # "clearing"
  /\ calls[t].pc = "idle"
  /\ calls' = [calls EXCEPT ![t] =
       IF e \in Keys(event_to_client)
         THEN [NoCall EXCEPT !.pc = "session", !.event = e,
                             !.client = event_to_client[e]]
         ELSE [NoCall EXCEPT !.pc = "err", !.event = e]]
  /\ event_to_client' = Without(event_to_client, {e})
  /\ UNCHANGED <<sessions, loop, forwarded, notices, published, origin, phase>>

\* A task calls send_response, and reads the client of the event it names.
LookUpRoute(t, e) ==
  /\ phase # "clearing"
  /\ calls[t].pc = "idle"
  /\ calls' = [calls EXCEPT ![t] =
       IF e \in Keys(event_to_client)
         THEN [NoCall EXCEPT !.pc = "session", !.event = e,
                             !.client = event_to_client[e]]
         ELSE [NoCall EXCEPT !.pc = "err", !.event = e]]
  /\ UNCHANGED <<sessions, event_to_client, loop, forwarded, notices,
                 published, origin, phase>>

\* Mutant of RestoredId: the id of whatever the session has pending.
AnyPendingId(session, e) ==
  IF Keys(session.pending_requests) # {}
    THEN session.pending_requests[CHOOSE k \in Keys(session.pending_requests) : TRUE]
    ELSE AppId

\* The id the response leaves with: the request's own, when it is still known.
RestoredId(session, e) ==
  IF e \in Keys(session.pending_requests) THEN session.pending_requests[e]
                                           ELSE AppId

\* It reads the client's session: the original id and the encryption flag.
LookUpSession(t) ==
  LET call == calls[t] IN
  /\ Running(t)
  /\ call.pc = "session"
  /\ calls' = [calls EXCEPT ![t] =
       IF call.client \in Keys(sessions)
         THEN LET session == sessions[call.client]
              IN [call EXCEPT !.pc = "publish",
                              !.id = RestoredId(session, call.event),
                              !.encrypted = session.is_encrypted]
         ELSE [call EXCEPT !.pc = "err"]]
  /\ UNCHANGED <<sessions, event_to_client, loop, forwarded, notices,
                 published, origin, phase>>

\* Mutant of ResponseOf: the session's flag is not passed on.
ResponseUnmirrored(call) ==
  [kind |-> "response", to |-> call.client, event |-> call.event,
   id |-> call.id, encrypted |-> ShouldEncrypt(EncryptionMode, FALSE, "none")]

\* The event that answers, tagged with its client and with the request.
ResponseOf(call) ==
  [kind |-> "response", to |-> call.client, event |-> call.event,
   id |-> call.id,
   encrypted |-> ShouldEncrypt(EncryptionMode, FALSE, Wish(call.encrypted))]

\* Mutant of PublishResponse: a failure is logged and the call goes on.
PublishRegardless(t, ok, reached) ==
  /\ Running(t)
  /\ calls[t].pc = "publish"
  /\ ok => reached
  /\ calls' = [calls EXCEPT ![t].pc = "untrack"]
  /\ published' = IF reached THEN published \cup {ResponseOf(calls[t])}
                             ELSE published
  /\ UNCHANGED <<sessions, event_to_client, loop, forwarded, notices, origin,
                 phase>>

\* It publishes.  An error may be reported for an event a relay has kept.
PublishResponse(t, ok, reached) ==
  /\ Running(t)
  /\ calls[t].pc = "publish"
  /\ ok => reached
  /\ calls' = [calls EXCEPT ![t].pc = IF ok THEN "untrack" ELSE "err"]
  /\ published' = IF reached THEN published \cup {ResponseOf(calls[t])}
                             ELSE published
  /\ UNCHANGED <<sessions, event_to_client, loop, forwarded, notices, origin,
                 phase>>

\* Mutant of KeysOf: the token is left behind.
EventKeyOnly(session, e) == {e}

\* The keys under which a session knows the request of event e.
KeysOf(session, e) ==
  {e} \cup {k \in Tokens : session.event_to_progress_token[e] = k}

\* The session without the request of event e and its progress token.
SessionWithout(session, e) ==
  [session EXCEPT
     !.pending_requests = Without(session.pending_requests, KeysOf(session, e)),
     !.event_to_progress_token = Without(session.event_to_progress_token, {e})]

\* It removes the request from the session, if the session is still there ...
Untrack(t) ==
  LET call == calls[t] IN
  /\ Running(t)
  /\ call.pc = "untrack"
  /\ sessions' =
       IF call.client \in Keys(sessions)
         THEN [sessions EXCEPT ![call.client] = SessionWithout(@, call.event)]
         ELSE sessions
  /\ calls' = [calls EXCEPT ![t].pc = "unroute"]
  /\ UNCHANGED <<event_to_client, loop, forwarded, notices, published, origin,
                 phase>>

\* Mutant of Unroute: only if the client still has a session.
UnrouteIfSession(t) ==
  /\ Running(t)
  /\ calls[t].pc = "unroute"
  /\ event_to_client' = IF calls[t].client \in Keys(sessions)
                          THEN Without(event_to_client, {calls[t].event})
                          ELSE event_to_client
  /\ calls' = [calls EXCEPT ![t].pc = "ok"]
  /\ UNCHANGED <<sessions, loop, forwarded, notices, published, origin, phase>>

\* ... and then, under the other lock, the route of the event.
Unroute(t) ==
  /\ Running(t)
  /\ calls[t].pc = "unroute"
  /\ event_to_client' = Without(event_to_client, {calls[t].event})
  /\ calls' = [calls EXCEPT ![t].pc = "ok"]
  /\ UNCHANGED <<sessions, loop, forwarded, notices, published, origin, phase>>

\* The caller drops the future (a select, a timeout) wherever it stands.
DropCall(t) ==
  /\ Running(t)
  /\ calls' = [calls EXCEPT ![t].dropped = TRUE]
  /\ UNCHANGED <<sessions, event_to_client, loop, forwarded, notices,
                 published, origin, phase>>

-----------------------------------------------------------------------------
(* send_notification and broadcast_notification *)

\* Mutant of Initialized: every client.
Connected == Keys(sessions)

\* The clients broadcast_notification selects.
Initialized == {c \in Keys(sessions) : sessions[c].is_initialized}

\* send_notification, to one client, on behalf of a request it sent or of none.
Notify(n, c, e) ==
  /\ phase # "clearing"
  /\ notices[n].pc = "idle"
  /\ e = None \/ \E r \in forwarded : origin[r].id = e /\ origin[r].from = c
  /\ notices' = [notices EXCEPT ![n] =
       [NoNotice EXCEPT !.pc = "lookup", !.todo = {c}, !.event = e]]
  /\ UNCHANGED <<sessions, event_to_client, loop, forwarded, calls, published,
                 origin, phase>>

\* broadcast_notification takes the initialized clients of this moment.
Broadcast(n) ==
  /\ phase # "clearing"
  /\ notices[n].pc = "idle"
  /\ notices' = [notices EXCEPT ![n] =
       [NoNotice EXCEPT !.pc = IF Initialized = {} THEN "ok" ELSE "lookup",
                        !.broadcast = TRUE, !.todo = Initialized]]
  /\ UNCHANGED <<sessions, event_to_client, loop, forwarded, calls, published,
                 origin, phase>>

\* Mutant of NoticeAfter: a broadcast stops at its first failure.
NoticeAfterStrict(notice, c, ok) ==
  [notice EXCEPT !.todo = @ \ {c}, !.target = None,
     !.pc = IF ~ok THEN "err" ELSE IF notice.todo # {c} THEN "lookup" ELSE "ok"]

\* The notification call once the send to c is over: a broadcast goes on to the
\* next client whatever the result, a direct send returns it.
NoticeAfter(notice, c, ok) ==
  [notice EXCEPT !.todo = @ \ {c}, !.target = None,
     !.pc = IF notice.todo # {c} THEN "lookup"
            ELSE IF ok \/ notice.broadcast THEN "ok" ELSE "err"]

\* send_notification reads the session of its target.
LookUpTarget(n, c) ==
  LET notice == notices[n] IN
  /\ notice.pc = "lookup"
  /\ c \in notice.todo
  /\ notices' = [notices EXCEPT ![n] =
       IF c \in Keys(sessions)
         THEN [notice EXCEPT !.pc = "publish", !.target = c,
                             !.encrypted = sessions[c].is_encrypted]
         ELSE NoticeAfter(notice, c, FALSE)]
  /\ UNCHANGED <<sessions, event_to_client, loop, forwarded, calls, published,
                 origin, phase>>

\* Mutant of NotificationOf: the session's flag is not passed on.
NotificationUnmirrored(notice) ==
  [kind |-> IF notice.broadcast THEN "broadcast" ELSE "direct",
   to |-> notice.target, event |-> notice.event,
   encrypted |-> ShouldEncrypt(EncryptionMode, FALSE, "none")]

\* The event a notification call publishes.
NotificationOf(notice) ==
  [kind |-> IF notice.broadcast THEN "broadcast" ELSE "direct",
   to |-> notice.target, event |-> notice.event,
   encrypted |-> ShouldEncrypt(EncryptionMode, FALSE, Wish(notice.encrypted))]

PublishNotice(n, ok, reached) ==
  LET notice == notices[n] IN
  /\ notice.pc = "publish"
  /\ ok => reached
  /\ published' = IF reached THEN published \cup {NotificationOf(notice)}
                             ELSE published
  /\ notices' = [notices EXCEPT ![n] = NoticeAfter(notice, notice.target, ok)]
  /\ UNCHANGED <<sessions, event_to_client, loop, forwarded, calls, origin,
                 phase>>

\* The caller drops the future; the clients left in todo get nothing.
DropNotice(n) ==
  /\ notices[n].pc \in {"lookup", "publish"}
  /\ notices' = [notices EXCEPT ![n].pc = "dropped"]
  /\ UNCHANGED <<sessions, event_to_client, loop, forwarded, calls, published,
                 origin, phase>>

-----------------------------------------------------------------------------
(* close *)

\* close borrows the transport exclusively, so no call is in progress; the
\* event loop and the cleanup task hold clones of the maps and go on.
ClearSessions ==
  /\ phase = "open"
  /\ \A t \in Calls : ~Running(t)
  /\ \A n \in Notices : notices[n].pc \notin {"lookup", "publish"}
  /\ sessions' = EmptyMap(Clients)
  /\ phase' = "clearing"
  /\ UNCHANGED <<event_to_client, loop, forwarded, calls, notices, published,
                 origin>>

ClearRoutes ==
  /\ phase = "clearing"
  /\ event_to_client' = EmptyMap(EventIds)
  /\ phase' = "closed"
  /\ UNCHANGED <<sessions, loop, forwarded, calls, notices, published, origin>>

-----------------------------------------------------------------------------

CallStep(t) ==
  \/ LookUpSession(t)
  \/ \E ok, reached \in BOOLEAN : PublishResponse(t, ok, reached)
  \/ Untrack(t)
  \/ Unroute(t)

NoticeStep(n) ==
  \/ \E c \in Clients : LookUpTarget(n, c)
  \/ \E ok, reached \in BOOLEAN : PublishNotice(n, ok, reached)

\* The loop reads an event.
Read(r, ev) == Discard(r, ev) \/ Track(r, ev)

\* What else the server does.
OwnStep ==
  \/ Forward
  \/ \E c \in Clients : BecomeIdle(c)
  \/ CleanupSessions
  \/ \E t \in Calls, e \in EventIds : LookUpRoute(t, e)
  \/ \E t \in Calls : CallStep(t) \/ DropCall(t)
  \/ \E n \in Notices, c \in Clients, e \in EventIds \cup {None} : Notify(n, c, e)
  \/ \E n \in Notices : Broadcast(n) \/ NoticeStep(n) \/ DropNotice(n)
  \/ ClearSessions
  \/ ClearRoutes

Next ==
  \/ \E r \in Readings : \E ev \in Traffic[r] : Read(r, ev)
  \/ OwnStep

Spec == Init /\ [][Next]_vars

\* Tokio runs every ready task, the interval keeps ticking, locks are fair and
\* a publication returns.  Clients, applications and clocks owe nothing.
Fairness ==
  /\ WF_vars(Forward)
  /\ WF_vars(CleanupSessions)
  /\ \A t \in Calls : WF_vars(CallStep(t))
  /\ \A n \in Notices : WF_vars(NoticeStep(n))

FairSpec == Spec /\ Fairness

-----------------------------------------------------------------------------
(* Safety *)

Answers == {p \in published : p.kind = "response"}

Admitted == {r \in Keys(origin) : Admissible(origin[r])}

Requests == {r \in Admitted : origin[r].msg.kind = "request"}

\* A request was read in client c's name under id e; one with e for its token.
Asked(c, e) == \E r \in Requests : origin[r].from = c /\ origin[r].id = e
AsToken(c, e) == \E r \in Requests : origin[r].from = c /\ origin[r].msg.token = e

\* One of client c's own requests gives the key e the value id: e is its event
\* and id its JSON-RPC id, or e is its token and id its event.
IdFor(c, e, id) ==
  \E r \in Requests :
    /\ origin[r].from = c
    /\ \/ origin[r].id = e /\ origin[r].msg.id = id
       \/ origin[r].msg.token = e /\ origin[r].id = id

\* The two tables of client c's session, empty when it has none.
Pending(c) == IF c \in Keys(sessions) THEN sessions[c].pending_requests
                                      ELSE EmptyMap(EventIds \cup Tokens)
Progress(c) == IF c \in Keys(sessions) THEN sessions[c].event_to_progress_token
                                       ELSE EmptyMap(EventIds)

\* Session c has an entry for event e.
Awaits(c, e) == e \in Keys(Pending(c))

\* Every route of event_to_client leads to a live session that still holds the
\* request, except in a send_response to that very client after it removed the
\* request and before it removes the route, and inside close.  Were it broken, a
\* route would outlive its session for ever, since only the session's keys lead
\* cleanup to it.  There are two ways to that, and no others: the future is
\* dropped between the two removals, or the client has itself used the event's id
\* for a progress token, and the answer to the request with the token took the
\* entry away.  What other clients send, and under which ids, changes nothing.
RoutesAreBacked ==
  phase # "clearing" =>
    \A e \in EventIds, c \in Clients :
      event_to_client[e] = c =>
        \/ Awaits(c, e)
        \/ \E t \in Calls : /\ calls[t].pc = "unroute"
                            /\ calls[t].event = e
                            /\ calls[t].client = c
        \/ AsToken(c, e)

\* Event e was asked about by another client than c, or is someone's token.
Disputed(c, e) == \E d \in Clients : AsToken(d, e) \/ (d # c /\ Asked(d, e))

\* The converse, until the transport is closed: an unanswered request a session
\* holds can be answered, and to the session's own client, whatever cleanup, other
\* sessions or concurrent answers have done in between.  The exception are ids
\* with two uses, for which the code has one key: an id that another client has
\* asked under, or a client's token.
PendingIsRouted ==
  phase = "open" =>
    \A c \in Clients, e \in EventIds :
      Awaits(c, e) /\ (\A p \in Answers : p.event # e) =>
        event_to_client[e] = c \/ Disputed(c, e)

\* Client c has asked in two ways under one id.
Restated(c, e) ==
  \E r, q \in Requests : /\ origin[r].from = c /\ origin[r].id = e
                         /\ origin[q].from = c /\ origin[q].id = e
                         /\ origin[r].msg # origin[q].msg

\* In c's session: an event that asked for progress is still pending, and a key
\* that is not an event's leads to the event whose token it is now.
TablesAgree(c) ==
  /\ \A e \in Keys(Progress(c)) : Awaits(c, e) \/ AsToken(c, e)
  /\ \A k \in Keys(Pending(c)) : \/ Asked(c, k)
                                 \/ Progress(c)[Pending(c)[k]] = k
                                 \/ Restated(c, Pending(c)[k])

\* The two tables of every session agree.  An answer to one of two requests that
\* share a token must not leave a token behind that nothing removes.  Only the
\* client itself can bring its tables out of step, with a token that is the id of
\* an event of its own, or with two requests under one id.
SessionTablesAgree == \A c \in Clients : TablesAgree(c)

\* A response goes to a client who has asked under its id, and carries the id of
\* such a request of this client's or, failing that, the id the application gave
\* it; an event's id only if the client used the one for a token of the other.
\* It is never the id of another client's request, although the clients may use
\* the same ids and tokens, and send_response takes the route, the id and the flag
\* from two maps it reads at different times while sessions expire and are made
\* anew.
AnswersMatchRequests ==
  \A p \in Answers : /\ Asked(p.to, p.event)
                     /\ p.id = AppId \/ IdFor(p.to, p.event, p.id)

\* What is published obeys the mode, and in Optional mode is sent in a form that
\* an event in the client's name has had: a client of which only plain text, or
\* only wraps, have been read, is never answered or notified in the other form,
\* not even through a session that expired and was made anew.
EncryptionPolicyKept ==
  \A p \in published :
    CASE EncryptionMode = "Required" -> p.encrypted
      [] EncryptionMode = "Disabled" -> ~p.encrypted
      [] OTHER -> \E r \in Admitted : /\ origin[r].from = p.to
                                      /\ origin[r].wrapped = p.encrypted

SentInitialized(c) ==
  \E r \in Admitted : /\ origin[r].from = c
                      /\ origin[r].msg.kind = "notification"
                      /\ origin[r].msg.method = "notifications/initialized"

\* A broadcast reaches no client that has not completed its initialization,
\* although the session it was chosen for may have expired, and been replaced by
\* a fresh one, before its turn comes.
BroadcastOnlyToInitialized ==
  \A p \in published : p.kind = "broadcast" => SentInitialized(p.to)

\* Having a session authorizes nothing: a key outside the allow list is answered
\* only under an id it has itself used with a method exempt from it, and notified
\* only if it has used one, even after an exempt initialize has given it a session
\* and an initialized flag.
OutsidersAreConfined ==
  \A p \in published :
    \/ AllowedKeys = {}
    \/ p.to \in AllowedKeys
    \/ \E r \in Keys(origin) : /\ origin[r].from = p.to
                               /\ IsCapabilityExcluded(origin[r].msg)
                               /\ p.kind = "response" =>
                                    /\ origin[r].id = p.event
                                    /\ origin[r].msg.kind = "request"

\* A request leaves event_to_client only once its response has been published, or
\* in close, or with the expired session of a client that has itself used its id,
\* to ask or for a token.  In particular a failed or dropped send_response loses
\* no request, nor does the expiry of clients that know nothing of it.
TrackedUntilAnswered ==
  [][\A e \in Keys(event_to_client) \ Keys(event_to_client') :
       \/ \E p \in Answers : p.event = e
       \/ \E c \in Expired \ Keys(sessions') : Asked(c, e) \/ AsToken(c, e)
       \/ phase = "clearing"]_vars

-----------------------------------------------------------------------------
(* The inductive invariant behind them: what ties the maps and the calls to   *)
(* the history.                                                               *)

\* Client c asked under id e for progress with token k.
AskedWith(c, e, k) ==
  \E r \in Requests :
    origin[r].from = c /\ origin[r].id = e /\ origin[r].msg.token = k

\* Routes lead to clients that asked; what a session knows, its client sent.
MapsMatchOrigin ==
  /\ \A e \in EventIds, c \in Clients : event_to_client[e] = c => Asked(c, e)
  /\ \A c \in Clients :
       /\ \A k \in Keys(Pending(c)) : IdFor(c, k, Pending(c)[k])
       /\ \A e \in Keys(Progress(c)) : AskedWith(c, e, Progress(c)[e])

\* What the loop holds and the application has received was admitted.
ChannelMatchesOrigin ==
  /\ loop # None => loop \in Admitted
  /\ forwarded \subseteq Admitted

\* A call in progress is about an event its client asked under, and has published
\* its response before it removes anything.
CallsMatchOrigin ==
  \A t \in Calls :
    /\ calls[t].pc \in {"session", "publish", "untrack", "unroute"} =>
         /\ Asked(calls[t].client, calls[t].event)
         /\ calls[t].id = AppId
              \/ IdFor(calls[t].client, calls[t].event, calls[t].id)
    /\ calls[t].pc \in {"untrack", "unroute", "ok"} =>
         \E p \in Answers : p.event = calls[t].event /\ p.to = calls[t].client

Correlation ==
  /\ MapsMatchOrigin
  /\ ChannelMatchesOrigin
  /\ CallsMatchOrigin
  /\ SessionTablesAgree
  /\ AnswersMatchRequests
  /\ RoutesAreBacked
  /\ PendingIsRouted

-----------------------------------------------------------------------------
(* Liveness, under Fairness *)

\* Whatever the loop tracked reaches the application.
AcceptedIsForwarded == \A r \in Readings : loop = r ~> r \in forwarded

\* Event e is in neither map.
Released(e) == e \notin Keys(event_to_client) /\ \A c \in Clients : ~Awaits(c, e)

\* Requests under id e were read twice, or e is a token too.
UsedAgain(e) ==
  \/ \E r, q \in Requests : r # q /\ origin[r].id = e /\ origin[q].id = e
  \/ \E c \in Clients : AsToken(c, e)

\* Once send_response has published an answer, the request leaves both maps,
\* unless the caller drops the call first; and it stays away unless its id comes
\* again.
AnsweredIsReleased ==
  \A t \in Calls :
    calls[t].pc = "untrack"
      ~> \/ calls[t].dropped
         \/ calls[t].pc = "ok" /\ (Released(calls[t].event)
                                     \/ UsedAgain(calls[t].event))

\* A client that stays silent past the timeout loses its session.
IdleIsReclaimed ==
  \A c \in Clients :
    c \in Expired ~> c \notin Keys(sessions) \/ ~sessions[c].idle

\* A broadcast that failed for one client goes on to the others: every client
\* it chose has its turn, unless the caller drops the call.
EveryTargetHasItsTurn ==
  \A n \in Notices, c \in Clients :
    c \in notices[n].todo ~> c \notin notices[n].todo \/ notices[n].pc = "dropped"
==============================================================================
