------------------------ MODULE ServerTransportProofs ------------------------
(***************************************************************************)
(* What holds of ServerTransport for every set of clients, events, tokens, *)
(* messages and calls, checked by TLAPS.                                   *)
(***************************************************************************)
EXTENDS ServerTransport, TLAPS

-----------------------------------------------------------------------------
(* Sessions *)

\* A fresh session is a session: the loop inserts it before it fills it.
LEMMA NewSessionType ==
  ASSUME NEW b \in BOOLEAN
  PROVE  NewSession(b) \in Session
BY DEF NewSession, Session, Map, EmptyMap

\* The session the loop leaves behind after an event is a session.
LEMMA SessionAfterType ==
  ASSUME TypeOK, NEW ev \in Inbound
  PROVE  SessionAfter(ev) \in Session
<1> DEFINE old == IF ev.from \in Keys(sessions) THEN sessions[ev.from]
                                                ELSE NewSession(ev.wrapped)
<1>1. /\ ev.from \in Clients /\ ev.wrapped \in BOOLEAN /\ ev.msg \in Messages
      /\ ev.id \in EventIds
  BY DEF Inbound
<1>2. old \in Session
  BY <1>1, NewSessionType DEF TypeOK, Map, Keys
<1>3. /\ old.is_initialized \in BOOLEAN
      /\ old.pending_requests \in Map(EventIds \cup Tokens, RequestIds \cup EventIds)
      /\ old.event_to_progress_token \in Map(EventIds, Tokens)
  BY <1>2 DEF Session
<1>4. ev.msg.token \in Tokens \cup {None}
  BY <1>1, MessageAssumption
<1>5. ev.msg.kind = "request" =>
        WithRequest(old.pending_requests, ev.id, ev.msg)
          \in Map(EventIds \cup Tokens, RequestIds \cup EventIds)
  BY <1>1, <1>3, <1>4, MessageAssumption DEF WithRequest, Map, Put
<1>6. ev.msg.token # None =>
        Put(old.event_to_progress_token, ev.id, ev.msg.token) \in Map(EventIds, Tokens)
  BY <1>1, <1>3, <1>4 DEF Map, Put
<1>7. QED
  BY <1>1, <1>3, <1>5, <1>6 DEF SessionAfter, Session

\* Removing a request leaves a session.
LEMMA SessionWithoutType ==
  ASSUME NEW s \in Session, NEW e \in EventIds
  PROVE  SessionWithout(s, e) \in Session
<1>1. Without(s.pending_requests, KeysOf(s, e))
        \in Map(EventIds \cup Tokens, RequestIds \cup EventIds)
  BY DEF Session, Map, Without
<1>2. Without(s.event_to_progress_token, {e}) \in Map(EventIds, Tokens)
  BY DEF Session, Map, Without
<1>3. QED
  BY <1>1, <1>2 DEF SessionWithout, Session

-----------------------------------------------------------------------------
(* Type correctness *)

LEMMA InitType == Init => TypeOK
BY NoneAssumption DEF Init, TypeOK, CallsHaveTargets, EmptyMap, Map, Call, NoCall, CallPc, Notice,
   NoNotice, NoticePc

\* A notification call after one of its sends is a notification call.
LEMMA NoticeAfterType ==
  ASSUME NEW notice \in Notice, NEW c, NEW ok \in BOOLEAN
  PROVE  NoticeAfter(notice, c, ok) \in Notice
BY DEF NoticeAfter, Notice, NoticePc

\* Every step keeps the types.  Steps that touch neither calls nor notices leave
\* CallsHaveTargets as it is.
LEMMA NextType == TypeOK /\ [Next]_vars => TypeOK'
<1> SUFFICES ASSUME TypeOK, [Next]_vars
             PROVE  TypeOK'
  OBVIOUS
<1> USE DEF TypeOK
<1>0. UNCHANGED <<calls, notices>> => CallsHaveTargets'
  BY DEF CallsHaveTargets
<1>1. ASSUME NEW r \in Readings, NEW ev \in Inbound, Discard(r, ev)
      PROVE  TypeOK'
  BY <1>0, <1>1 DEF Discard, Put, Map
<1>2. ASSUME NEW r \in Readings, NEW ev \in Inbound, Track(r, ev)
      PROVE  TypeOK'
  <2>1. SessionAfter(ev) \in Session
    BY SessionAfterType
  <2>2. ev.from \in Clients /\ ev.id \in EventIds
    BY DEF Inbound
  <2>3. sessions' \in Map(Clients, Session)
    BY <1>2, <2>1, <2>2 DEF Track, Put, Map
  <2>4. event_to_client' \in Map(EventIds, Clients)
    BY <1>2, <2>2 DEF Track, Put, Map
  <2>5. origin' \in Map(Readings, Inbound)
    BY <1>2 DEF Track, Put, Map
  <2>6. QED
    BY <1>0, <1>2, <2>3, <2>4, <2>5 DEF Track
<1>3. CASE Forward
  BY <1>0, <1>3 DEF Forward
<1>4. ASSUME NEW c \in Clients, BecomeIdle(c)
      PROVE  TypeOK'
  <2>1. sessions[c] \in Session
    BY <1>4 DEF BecomeIdle, Keys, Map
  <2>2. [sessions[c] EXCEPT !.idle = TRUE] \in Session
    BY <2>1 DEF Session
  <2>3. sessions' = [sessions EXCEPT ![c] = [sessions[c] EXCEPT !.idle = TRUE]]
    BY <1>4 DEF BecomeIdle
  <2>4. sessions' \in Map(Clients, Session)
    BY <2>2, <2>3 DEF Map
  <2>5. QED
    BY <1>0, <1>4, <2>4 DEF BecomeIdle
<1>5. CASE CleanupSessions
  BY <1>0, <1>5 DEF CleanupSessions, Without, Map
<1>6. ASSUME NEW t \in Calls, NEW e \in EventIds, LookUpRoute(t, e)
      PROVE  TypeOK'
  <2>1. calls' \in [Calls -> Call]
    BY <1>6 DEF LookUpRoute, Keys, Map, Call, NoCall, CallPc
  <2>2. CallsHaveTargets'
    BY <1>6 DEF LookUpRoute, Keys, Map, Call, NoCall, CallsHaveTargets
  <2>3. QED
    BY <1>6, <2>1, <2>2 DEF LookUpRoute
<1>7. ASSUME NEW t \in Calls, LookUpSession(t)
      PROVE  TypeOK'
  <2>1. ASSUME calls[t].client \in Keys(sessions)
        PROVE  /\ RestoredId(sessions[calls[t].client], calls[t].event)
                    \in RequestIds \cup EventIds \cup {AppId}
               /\ sessions[calls[t].client].is_encrypted \in BOOLEAN
    <3>1. sessions[calls[t].client] \in Session
      BY <2>1 DEF Keys, Map
    <3>2. QED
      BY <3>1 DEF Session, Map, RestoredId, Keys
  <2>2. calls' \in [Calls -> Call]
    <3>1. ASSUME NEW id \in RequestIds \cup EventIds \cup {AppId},
                 NEW encrypted \in BOOLEAN
          PROVE  [calls[t] EXCEPT !.pc = "publish", !.id = id,
                                  !.encrypted = encrypted] \in Call
      BY DEF Call, CallPc
    <3>2. [calls[t] EXCEPT !.pc = "err"] \in Call
      BY DEF Call, CallPc
    <3>3. calls'[t] \in Call
      <4>1. CASE calls[t].client \in Keys(sessions)
        BY <1>7, <2>1, <3>1, <4>1 DEF LookUpSession
      <4>2. CASE calls[t].client \notin Keys(sessions)
        BY <1>7, <3>2, <4>2 DEF LookUpSession
      <4>3. QED
        BY <4>1, <4>2
    <3>4. QED
      BY <1>7, <3>3 DEF LookUpSession
  <2>3. CallsHaveTargets'
    BY <1>7 DEF LookUpSession, Call, CallsHaveTargets
  <2>4. QED
    BY <1>7, <2>2, <2>3 DEF LookUpSession
<1>8. ASSUME NEW t \in Calls, NEW ok \in BOOLEAN, NEW reached \in BOOLEAN,
             PublishResponse(t, ok, reached)
      PROVE  TypeOK'
  <2>1. calls[t] \in Call /\ calls[t].event \in EventIds /\ calls[t].client \in Clients
    BY <1>8 DEF PublishResponse, CallsHaveTargets
  <2>2. ResponseOf(calls[t]) \in Responses
    BY <2>1 DEF ResponseOf, Responses, Call, ShouldEncrypt
  <2>3. published' \subseteq Responses \cup Notifications
    BY <1>8, <2>2 DEF PublishResponse
  <2>4. calls' \in [Calls -> Call]
    BY <1>8, <2>1 DEF PublishResponse, Call, CallPc
  <2>5. CallsHaveTargets'
    BY <1>8, <2>1 DEF PublishResponse, CallsHaveTargets, Call
  <2>6. QED
    BY <1>8, <2>3, <2>4, <2>5 DEF PublishResponse
<1>9. ASSUME NEW t \in Calls, Untrack(t)
      PROVE  TypeOK'
  <2>1. calls[t] \in Call /\ calls[t].event \in EventIds /\ calls[t].client \in Clients
    BY <1>9 DEF Untrack, CallsHaveTargets
  <2>2. calls[t].client \in Keys(sessions) =>
          SessionWithout(sessions[calls[t].client], calls[t].event) \in Session
    BY <2>1, SessionWithoutType DEF Keys, Map
  <2>3. sessions' \in Map(Clients, Session)
    BY <1>9, <2>1, <2>2 DEF Untrack, Map
  <2>4. calls' \in [Calls -> Call]
    BY <1>9, <2>1 DEF Untrack, Call, CallPc
  <2>5. CallsHaveTargets'
    BY <1>9, <2>1 DEF Untrack, CallsHaveTargets, Call
  <2>6. QED
    BY <1>9, <2>3, <2>4, <2>5 DEF Untrack
<1>10. ASSUME NEW t \in Calls, Unroute(t)
       PROVE  TypeOK'
  <2>1. calls' \in [Calls -> Call]
    BY <1>10 DEF Unroute, Call, CallPc
  <2>2. CallsHaveTargets'
    BY <1>10 DEF Unroute, CallsHaveTargets, Call
  <2>3. event_to_client' \in Map(EventIds, Clients)
    BY <1>10 DEF Unroute, Without, Map
  <2>4. QED
    BY <1>10, <2>1, <2>2, <2>3 DEF Unroute
<1>11. ASSUME NEW t \in Calls, DropCall(t)
       PROVE  TypeOK'
  <2>1. calls' \in [Calls -> Call]
    BY <1>11 DEF DropCall, Call
  <2>2. CallsHaveTargets'
    BY <1>11 DEF DropCall, CallsHaveTargets, Call
  <2>3. QED
    BY <1>11, <2>1, <2>2 DEF DropCall
<1>12. ASSUME NEW n \in Notices, NEW c \in Clients, NEW e \in EventIds \cup {None},
              Notify(n, c, e)
       PROVE  TypeOK'
  <2>1. notices' \in [Notices -> Notice]
    BY <1>12 DEF Notify, Notice, NoNotice, NoticePc
  <2>2. CallsHaveTargets'
    BY <1>12 DEF Notify, CallsHaveTargets, NoNotice
  <2>3. QED
    BY <1>12, <2>1, <2>2 DEF Notify
<1>13. ASSUME NEW n \in Notices, Broadcast(n)
       PROVE  TypeOK'
  <2>1. Initialized \subseteq Clients
    BY DEF Initialized, Keys, Map
  <2>2. notices' \in [Notices -> Notice]
    BY <1>13, <2>1 DEF Broadcast, Notice, NoNotice, NoticePc
  <2>3. CallsHaveTargets'
    BY <1>13 DEF Broadcast, CallsHaveTargets, NoNotice
  <2>4. QED
    BY <1>13, <2>2, <2>3 DEF Broadcast
<1>14. ASSUME NEW n \in Notices, NEW c \in Clients, LookUpTarget(n, c)
       PROVE  TypeOK'
  <2>1. NoticeAfter(notices[n], c, FALSE) \in Notice
    BY NoticeAfterType
  <2>2. c \in Keys(sessions) => sessions[c].is_encrypted \in BOOLEAN
    BY DEF Keys, Map, Session
  <2>3. notices' \in [Notices -> Notice]
    BY <1>14, <2>1, <2>2 DEF LookUpTarget, Notice, NoticePc
  <2>4. CallsHaveTargets'
    BY <1>14 DEF LookUpTarget, CallsHaveTargets, NoticeAfter, Notice
  <2>5. QED
    BY <1>14, <2>3, <2>4 DEF LookUpTarget
<1>15. ASSUME NEW n \in Notices, NEW ok \in BOOLEAN, NEW reached \in BOOLEAN,
              PublishNotice(n, ok, reached)
       PROVE  TypeOK'
  <2>1. NoticeAfter(notices[n], notices[n].target, ok) \in Notice
    BY NoticeAfterType
  <2>2. notices' \in [Notices -> Notice]
    BY <1>15, <2>1 DEF PublishNotice
  <2>3. CallsHaveTargets'
    BY <1>15 DEF PublishNotice, CallsHaveTargets, NoticeAfter, Notice
  <2>4. NotificationOf(notices[n]) \in Notifications
    BY <1>15 DEF PublishNotice, NotificationOf, Notifications, Notice,
       CallsHaveTargets, ShouldEncrypt
  <2>5. QED
    BY <1>15, <2>2, <2>3, <2>4 DEF PublishNotice
<1>16. ASSUME NEW n \in Notices, DropNotice(n)
       PROVE  TypeOK'
  <2>1. notices' \in [Notices -> Notice]
    BY <1>16 DEF DropNotice, Notice, NoticePc
  <2>2. CallsHaveTargets'
    BY <1>16 DEF DropNotice, CallsHaveTargets, Notice
  <2>3. QED
    BY <1>16, <2>1, <2>2 DEF DropNotice
<1>17. CASE ClearSessions
  BY <1>0, <1>17 DEF ClearSessions, EmptyMap, Map
<1>18. CASE ClearRoutes
  BY <1>0, <1>18 DEF ClearRoutes, EmptyMap, Map
<1>19. CASE UNCHANGED vars
  BY <1>0, <1>19 DEF vars
<1>20. QED
  BY <1>1, <1>2, <1>3, <1>4, <1>5, <1>6, <1>7, <1>8, <1>9, <1>10, <1>11, <1>12,
     <1>13, <1>14, <1>15, <1>16, <1>17, <1>18, <1>19, TrafficAssumption
     DEF Next, Read, OwnStep, CallStep, NoticeStep

\* Type correctness: every table, call and published event keeps its shape
\* (server.rs, send_response, send_notification, event_loop, cleanup_sessions).
THEOREM TypeCorrect == Spec => []TypeOK
BY InitType, NextType, PTL DEF Spec

-----------------------------------------------------------------------------
(* What each operation does to the tables of the sessions *)

\* The tables of a client without a session are tables, too.
LEMMA TableTypes ==
  ASSUME TypeOK, NEW c \in Clients
  PROVE  /\ Pending(c) \in [EventIds \cup Tokens -> RequestIds \cup EventIds \cup {None}]
         /\ Progress(c) \in [EventIds -> Tokens \cup {None}]
<1>1. CASE c \in Keys(sessions)
  <2>1. sessions[c] \in Session
    BY <1>1 DEF TypeOK, Map, Keys
  <2>2. QED
    BY <1>1, <2>1 DEF Pending, Progress, Session, Map
<1>2. CASE c \notin Keys(sessions)
  BY <1>2 DEF Pending, Progress, EmptyMap
<1>3. QED
  BY <1>1, <1>2

\* The same, of every client and after a step.
TablesTyped ==
  \A c \in Clients :
    /\ Pending(c) \in [EventIds \cup Tokens -> RequestIds \cup EventIds \cup {None}]
    /\ Progress(c) \in [EventIds -> Tokens \cup {None}]

LEMMA TablesAreTyped == TypeOK => TablesTyped
BY TableTypes DEF TablesTyped

LEMMA TablesStayTyped == TypeOK' => TablesTyped'
BY TablesAreTyped, PTL

\* The loop enters a request under its event's id, and its event under its token,
\* in the tables of its sender; a token comes last.
LEMMA TrackTables ==
  ASSUME TypeOK, NEW r \in Readings, NEW ev \in Inbound, Track(r, ev)
  PROVE  /\ \A c \in Clients \ {ev.from} :
              Pending(c)' = Pending(c) /\ Progress(c)' = Progress(c)
         /\ ev.msg.kind # "request" =>
              /\ Pending(ev.from)' = Pending(ev.from)
              /\ Progress(ev.from)' = Progress(ev.from)
         /\ ev.msg.kind = "request" =>
              /\ \A k \in EventIds \cup Tokens :
                   Pending(ev.from)'[k] = IF k = ev.msg.token THEN ev.id
                                          ELSE IF k = ev.id THEN ev.msg.id
                                          ELSE Pending(ev.from)[k]
              /\ \A x \in EventIds :
                   Progress(ev.from)'[x] =
                     IF x = ev.id /\ ev.msg.token # None THEN ev.msg.token
                                                         ELSE Progress(ev.from)[x]
<1> DEFINE old == IF ev.from \in Keys(sessions) THEN sessions[ev.from]
                                                ELSE NewSession(ev.wrapped)
           new == SessionAfter(ev)
<1>1. /\ ev.from \in Clients /\ ev.wrapped \in BOOLEAN /\ ev.msg \in Messages
      /\ ev.id \in EventIds
  BY DEF Inbound
<1>2. new \in Session /\ new # None
  BY SessionAfterType, NoneAssumption
<1>3. /\ \A c \in Clients : sessions'[c] = IF c = ev.from THEN new ELSE sessions[c]
      /\ DOMAIN sessions = Clients /\ DOMAIN sessions' = Clients
  BY <1>1 DEF Track, Put, TypeOK, Map
<1>4. /\ Pending(ev.from) = old.pending_requests
      /\ Progress(ev.from) = old.event_to_progress_token
  BY DEF Pending, Progress, NewSession
<1>5. \A c \in Clients \ {ev.from} :
        Pending(c)' = Pending(c) /\ Progress(c)' = Progress(c)
  BY <1>3 DEF Pending, Progress, Keys
<1>6. /\ new.pending_requests = IF ev.msg.kind = "request"
                                  THEN WithRequest(old.pending_requests, ev.id, ev.msg)
                                  ELSE old.pending_requests
      /\ new.event_to_progress_token =
           IF ev.msg.kind = "request" /\ ev.msg.token # None
             THEN Put(old.event_to_progress_token, ev.id, ev.msg.token)
             ELSE old.event_to_progress_token
  BY DEF SessionAfter
<1> HIDE DEF old, new
<1>7. /\ Pending(ev.from)' = new.pending_requests
      /\ Progress(ev.from)' = new.event_to_progress_token
  BY <1>1, <1>2, <1>3 DEF Pending, Progress, Keys
<1>8. ev.msg.token \in Tokens \cup {None} /\ None \notin EventIds \cup Tokens
  BY <1>1, MessageAssumption, NoneAssumption
<1>9. /\ old.pending_requests \in [EventIds \cup Tokens -> RequestIds \cup EventIds \cup {None}]
      /\ old.event_to_progress_token \in [EventIds -> Tokens \cup {None}]
  BY <1>1, <1>4, TableTypes
<1>10. CASE ev.msg.kind # "request"
  BY <1>4, <1>5, <1>6, <1>7, <1>10
<1>11. CASE ev.msg.kind = "request"
  <2>1. \A k \in EventIds \cup Tokens :
          new.pending_requests[k] = IF k = ev.msg.token THEN ev.id
                                    ELSE IF k = ev.id THEN ev.msg.id
                                    ELSE old.pending_requests[k]
    BY <1>1, <1>6, <1>8, <1>9, <1>11 DEF WithRequest, Put
  <2>2. \A x \in EventIds :
          new.event_to_progress_token[x] =
            IF x = ev.id /\ ev.msg.token # None THEN ev.msg.token
                                                ELSE old.event_to_progress_token[x]
    BY <1>1, <1>6, <1>9, <1>11 DEF Put
  <2>3. QED
    BY <1>4, <1>5, <1>7, <1>11, <2>1, <2>2
<1>12. QED
  BY <1>10, <1>11

\* send_response takes its event, and the event's token, out of the tables of its
\* own client.
LEMMA UntrackTables ==
  ASSUME TypeOK, NEW t \in Calls, Untrack(t),
         NEW client \in Clients, NEW e \in EventIds,
         calls[t].client = client, calls[t].event = e
  PROVE  /\ \A c \in Clients \ {client} :
              Pending(c)' = Pending(c) /\ Progress(c)' = Progress(c)
         /\ \A k \in EventIds \cup Tokens :
              Pending(client)'[k] =
                IF k = e \/ (k \in Tokens /\ Progress(client)[e] = k)
                  THEN None ELSE Pending(client)[k]
         /\ \A x \in EventIds :
              Progress(client)'[x] = IF x = e THEN None ELSE Progress(client)[x]
<1> DEFINE old == sessions[client]
           new == SessionWithout(old, e)
<1>1. CASE client \notin Keys(sessions)
  <2>1. UNCHANGED sessions
    BY <1>1 DEF Untrack
  <2>2. /\ Pending(client) = EmptyMap(EventIds \cup Tokens)
        /\ Progress(client) = EmptyMap(EventIds)
    BY <1>1 DEF Pending, Progress
  <2>3. \A c : Pending(c)' = Pending(c) /\ Progress(c)' = Progress(c)
    BY <2>1 DEF Pending, Progress
  <2>4. QED
    BY <2>2, <2>3 DEF EmptyMap
<1>2. CASE client \in Keys(sessions)
  <2>1. old \in Session /\ new \in Session
    BY <1>2, SessionWithoutType DEF TypeOK, Map, Keys
  <2>2. new # None
    BY <2>1, NoneAssumption
  <2>3. /\ \A c \in Clients : sessions'[c] = IF c = client THEN new ELSE sessions[c]
        /\ DOMAIN sessions = Clients /\ DOMAIN sessions' = Clients
    BY <1>2 DEF Untrack, TypeOK, Map
  <2>4. \A c \in Clients \ {client} :
          Pending(c)' = Pending(c) /\ Progress(c)' = Progress(c)
    BY <2>3 DEF Pending, Progress, Keys
  <2>5. /\ Pending(client) = old.pending_requests
        /\ Progress(client) = old.event_to_progress_token
    BY <1>2 DEF Pending, Progress
  <2>6. /\ new.pending_requests = Without(old.pending_requests, KeysOf(old, e))
        /\ new.event_to_progress_token = Without(old.event_to_progress_token, {e})
    BY <2>1 DEF SessionWithout, Session
  <2>7. /\ DOMAIN old.pending_requests = EventIds \cup Tokens
        /\ DOMAIN old.event_to_progress_token = EventIds
    BY <2>1 DEF Session, Map
  <2> HIDE DEF new, old
  <2>8. /\ Pending(client)' = new.pending_requests
        /\ Progress(client)' = new.event_to_progress_token
    BY <2>2, <2>3 DEF Pending, Progress, Keys
  <2>9. QED
    BY <2>4, <2>5, <2>6, <2>7, <2>8 DEF Without, KeysOf
<1>3. QED
  BY <1>1, <1>2

\* cleanup_sessions empties the tables of the expired clients, and of no other.
LEMMA CleanupTables ==
  ASSUME TypeOK, CleanupSessions
  PROVE  /\ \A c \in Clients :
              c \in Keys(sessions') <=> c \in Keys(sessions) /\ c \notin Expired
         /\ \A c \in Expired : Keys(Pending(c)') = {} /\ Keys(Progress(c)') = {}
         /\ \A c \in Clients \ Expired :
              Pending(c)' = Pending(c) /\ Progress(c)' = Progress(c)
<1>1. /\ \A c \in Clients : sessions'[c] = IF c \in Expired THEN None ELSE sessions[c]
      /\ DOMAIN sessions = Clients /\ DOMAIN sessions' = Clients
  BY DEF CleanupSessions, Without, TypeOK, Map
<1>2. \A c \in Clients : c \in Keys(sessions') <=> c \in Keys(sessions) /\ c \notin Expired
  BY <1>1 DEF Keys
<1>3. \A c \in Expired : c \in Clients /\ c \notin Keys(sessions')
  BY <1>1, <1>2 DEF Expired, Keys
<1>4. \A c \in Expired : Keys(Pending(c)') = {} /\ Keys(Progress(c)') = {}
  BY <1>3 DEF Pending, Progress, EmptyMap, Keys
<1>5. \A c \in Clients \ Expired :
        Pending(c)' = Pending(c) /\ Progress(c)' = Progress(c)
  BY <1>1, <1>2 DEF Pending, Progress
<1>6. QED
  BY <1>2, <1>4, <1>5

\* The keys of a client's session are the keys of its two tables.
LEMMA KeysOfTables ==
  ASSUME NEW c \in Keys(sessions)
  PROVE  SessionKeys(c) = Keys(Pending(c)) \cup Keys(Progress(c))
BY DEF SessionKeys, Pending, Progress

-----------------------------------------------------------------------------
(* The history only grows *)

\* What was read stays read: the event of a reading never changes.
LEMMA HistoryGrows ==
  ASSUME TypeOK, [Next]_vars
  PROVE  \A r \in Admitted : r \in Admitted' /\ origin'[r] = origin[r]
<1>1. ASSUME NEW r \in Readings, NEW ev, r \notin Keys(origin),
             origin' = Put(origin, r, ev)
      PROVE  \A x \in Admitted : x \in Admitted' /\ origin'[x] = origin[x]
  BY <1>1 DEF TypeOK, Map, Admitted, Put, Keys
<1>2. ASSUME UNCHANGED origin
      PROVE  \A r \in Admitted : r \in Admitted' /\ origin'[r] = origin[r]
  BY <1>2 DEF Admitted, Keys
<1>3. \/ UNCHANGED origin
      \/ \E r \in Readings : \E ev \in Traffic[r] : /\ r \notin Keys(origin)
                                            /\ origin' = Put(origin, r, ev)
  BY DEF Next, Read, OwnStep, vars, Discard, Track, Forward, BecomeIdle,
         CleanupSessions, LookUpRoute, CallStep, LookUpSession, PublishResponse,
         Untrack, Unroute, DropCall, Notify, Broadcast, NoticeStep, LookUpTarget,
         PublishNotice, DropNotice, ClearSessions, ClearRoutes
<1>4. QED
  BY <1>1, <1>2, <1>3

\* So what a client has asked, under which ids and with which tokens, stays so.
LEMMA FactsStay ==
  ASSUME TypeOK, [Next]_vars
  PROVE  /\ \A r \in Requests : r \in Requests' /\ origin'[r] = origin[r]
         /\ \A c, e : /\ Asked(c, e) => Asked(c, e)'
                      /\ AsToken(c, e) => AsToken(c, e)'
                      /\ Restated(c, e) => Restated(c, e)'
                      /\ Disputed(c, e) => Disputed(c, e)'
         /\ \A c, e, x : /\ IdFor(c, e, x) => IdFor(c, e, x)'
                         /\ AskedWith(c, e, x) => AskedWith(c, e, x)'
<1>1. \A r \in Requests : r \in Requests' /\ origin'[r] = origin[r]
  BY HistoryGrows DEF Requests
<1>2. \A c, e : /\ Asked(c, e) => Asked(c, e)'
                /\ AsToken(c, e) => AsToken(c, e)'
  BY <1>1 DEF Asked, AsToken
<1>3. \A c, e : Restated(c, e) => Restated(c, e)'
  BY <1>1 DEF Restated
<1>4. \A c, e : Disputed(c, e) => Disputed(c, e)'
  BY <1>2 DEF Disputed
<1>5. \A c, e, x : /\ IdFor(c, e, x) => IdFor(c, e, x)'
                   /\ AskedWith(c, e, x) => AskedWith(c, e, x)'
  BY <1>1 DEF IdFor, AskedWith
<1>6. QED
  BY <1>1, <1>2, <1>3, <1>4, <1>5

\* Whatever gives a session a key is a request of its client's.
LEMMA KeysAreUsed ==
  ASSUME TypeOK, MapsMatchOrigin, NEW c \in Clients, NEW e \in EventIds
  PROVE  e \in Keys(Pending(c)) \cup Keys(Progress(c)) => Asked(c, e) \/ AsToken(c, e)
BY DEF MapsMatchOrigin, IdFor, AskedWith, Asked, AsToken

\* Answers are never withdrawn.
LEMMA AnswersStay ==
  ASSUME [Next]_vars
  PROVE  Answers \subseteq Answers'
<1>1. published \subseteq published'
  BY DEF Next, Read, OwnStep, vars, Discard, Track, Forward, BecomeIdle,
         CleanupSessions, LookUpRoute, CallStep, LookUpSession, PublishResponse,
         Untrack, Unroute, DropCall, Notify, Broadcast, NoticeStep, LookUpTarget,
         PublishNotice, DropNotice, ClearSessions, ClearRoutes
<1>2. QED
  BY <1>1 DEF Answers

-----------------------------------------------------------------------------
(* Correlation *)

LEMMA InitCorrelation == Init => Correlation
<1> SUFFICES ASSUME Init PROVE Correlation
  OBVIOUS
<1>1. \A c \in Clients : Keys(Pending(c)) = {} /\ Keys(Progress(c)) = {}
  BY DEF Init, Pending, Progress, EmptyMap, Keys
<1>2. \A e \in EventIds, c \in Clients : event_to_client[e] # c
  BY NoneAssumption DEF Init, EmptyMap
<1>3. MapsMatchOrigin /\ SessionTablesAgree /\ RoutesAreBacked /\ PendingIsRouted
  BY <1>1, <1>2 DEF MapsMatchOrigin, SessionTablesAgree, TablesAgree, RoutesAreBacked,
     PendingIsRouted, Awaits
<1>4. ChannelMatchesOrigin /\ CallsMatchOrigin /\ AnswersMatchRequests
  BY DEF Init, ChannelMatchesOrigin, CallsMatchOrigin, AnswersMatchRequests,
     NoCall, Answers
<1>5. QED
  BY <1>3, <1>4 DEF Correlation

\* A step that leaves the tables of every session as they are.
TablesKept == \A c \in Clients : Pending(c)' = Pending(c) /\ Progress(c)' = Progress(c)

\* A step after which every call that was at its second removal still is.
RemovalsKept ==
  \A t \in Calls : calls[t].pc = "unroute" => /\ calls'[t].pc = "unroute"
                                              /\ calls'[t].event = calls[t].event
                                              /\ calls'[t].client = calls[t].client

LEMMA SessionsKept == UNCHANGED sessions => TablesKept
BY DEF TablesKept, Pending, Progress

\* What a step leaves alone keeps its tie to the history, which only grows.
LEMMA Frame ==
  ASSUME TypeOK, Correlation, [Next]_vars
  PROVE  /\ TablesKept /\ UNCHANGED event_to_client => MapsMatchOrigin'
         /\ TablesKept => SessionTablesAgree'
         /\ UNCHANGED <<loop, forwarded>> => ChannelMatchesOrigin'
         /\ UNCHANGED calls => CallsMatchOrigin'
         /\ UNCHANGED Answers => AnswersMatchRequests'
         /\ TablesKept /\ RemovalsKept /\ UNCHANGED <<event_to_client, phase>> =>
              RoutesAreBacked'
         /\ TablesKept /\ UNCHANGED <<event_to_client, phase>> => PendingIsRouted'
<1>1. /\ \A r \in Requests : r \in Requests' /\ origin'[r] = origin[r]
      /\ \A c, e : /\ Asked(c, e) => Asked(c, e)'
                   /\ AsToken(c, e) => AsToken(c, e)'
                   /\ Disputed(c, e) => Disputed(c, e)'
  BY FactsStay
<1>2. ASSUME TablesKept, UNCHANGED event_to_client
      PROVE  MapsMatchOrigin'
  <2>1. \A e \in EventIds, c \in Clients : event_to_client'[e] = c => Asked(c, e)'
    BY <1>1, <1>2 DEF Correlation, MapsMatchOrigin
  <2>2. ASSUME NEW c \in Clients
        PROVE  /\ \A k \in Keys(Pending(c)') : IdFor(c, k, Pending(c)[k])'
               /\ \A e \in Keys(Progress(c)') : AskedWith(c, e, Progress(c)[e])'
    BY <1>1, <1>2 DEF Correlation, MapsMatchOrigin, TablesKept, IdFor, AskedWith
  <2>3. QED
    BY <2>1, <2>2 DEF MapsMatchOrigin
<1>3. TablesKept => SessionTablesAgree'
  BY <1>1 DEF Correlation, SessionTablesAgree, TablesAgree, TablesKept, Awaits, Restated
<1>4. UNCHANGED <<loop, forwarded>> => ChannelMatchesOrigin'
  BY HistoryGrows DEF Correlation, ChannelMatchesOrigin
<1>5. UNCHANGED calls => CallsMatchOrigin'
  <2>1. Answers \subseteq Answers'
    BY AnswersStay
  <2>2. QED
    BY <1>1, <2>1 DEF Correlation, CallsMatchOrigin, Asked, IdFor
<1>6. UNCHANGED Answers => AnswersMatchRequests'
  BY <1>1 DEF Correlation, AnswersMatchRequests, Asked, IdFor
<1>7. TablesKept /\ RemovalsKept /\ UNCHANGED <<event_to_client, phase>> =>
        RoutesAreBacked'
  BY <1>1 DEF Correlation, RoutesAreBacked, TablesKept, RemovalsKept, Awaits
<1>8. TablesKept /\ UNCHANGED <<event_to_client, phase>> => PendingIsRouted'
  <2>1. Answers \subseteq Answers'
    BY AnswersStay
  <2>2. QED
    BY <1>1, <2>1 DEF Correlation, PendingIsRouted, TablesKept, Awaits
<1>9. QED
  BY <1>2, <1>3, <1>4, <1>5, <1>6, <1>7, <1>8

\* What a request adds to the history.
LEMMA TrackFacts ==
  ASSUME TypeOK, NEW r \in Readings, NEW ev \in Traffic[r], Track(r, ev)
  PROVE  /\ r \in Admitted' /\ origin'[r] = ev
         /\ ev.msg.kind = "request" =>
              /\ r \in Requests'
              /\ Asked(ev.from, ev.id)'
              /\ IdFor(ev.from, ev.id, ev.msg.id)'
              /\ AsToken(ev.from, ev.msg.token)'
              /\ IdFor(ev.from, ev.msg.token, ev.id)'
              /\ AskedWith(ev.from, ev.id, ev.msg.token)'
<1>1. ev # None
  BY TrafficAssumption, NoneAssumption
<1>2. r \in Admitted' /\ origin'[r] = ev
  BY <1>1, TrafficAssumption DEF Track, Admitted, Put, Keys, TypeOK, Map
<1>3. ASSUME ev.msg.kind = "request"
      PROVE  r \in Requests'
  BY <1>2, <1>3 DEF Requests
<1>4. QED
  BY <1>2, <1>3 DEF Asked, IdFor, AsToken, AskedWith

\* The event loop: what the request adds to its sender's tables, it adds to the
\* history too.
LEMMA TrackMaps ==
  ASSUME TypeOK, Correlation, NEW r \in Readings, NEW ev \in Traffic[r], Track(r, ev)
  PROVE  MapsMatchOrigin'
<1>1. [Next]_vars
  BY DEF Next, Read
<1>2. ev \in Inbound /\ ev.from \in Clients /\ ev.id \in EventIds
  BY TrafficAssumption DEF Inbound
<1>3. /\ \A x \in Requests : x \in Requests' /\ origin'[x] = origin[x]
      /\ \A c, e : Asked(c, e) => Asked(c, e)'
  BY <1>1, FactsStay
<1>4. /\ \A c \in Clients \ {ev.from} :
           Pending(c)' = Pending(c) /\ Progress(c)' = Progress(c)
      /\ ev.msg.kind # "request" =>
           /\ Pending(ev.from)' = Pending(ev.from)
           /\ Progress(ev.from)' = Progress(ev.from)
      /\ ev.msg.kind = "request" =>
           /\ \A k \in EventIds \cup Tokens :
                Pending(ev.from)'[k] = IF k = ev.msg.token THEN ev.id
                                       ELSE IF k = ev.id THEN ev.msg.id
                                       ELSE Pending(ev.from)[k]
           /\ \A x \in EventIds :
                Progress(ev.from)'[x] =
                  IF x = ev.id /\ ev.msg.token # None THEN ev.msg.token
                                                      ELSE Progress(ev.from)[x]
  BY <1>2, TrackTables
<1>5. \A e \in EventIds, c \in Clients : event_to_client'[e] = c => Asked(c, e)'
  <2>1. \A e \in EventIds :
          event_to_client'[e] = IF e = ev.id /\ ev.msg.kind = "request"
                                  THEN ev.from ELSE event_to_client[e]
    BY <1>2 DEF Track, Put, TypeOK, Map
  <2>2. ev.msg.kind = "request" => Asked(ev.from, ev.id)'
    BY TrackFacts
  <2>3. QED
    BY <1>3, <2>1, <2>2 DEF Correlation, MapsMatchOrigin
<1>6. /\ DOMAIN Pending(ev.from)' = EventIds \cup Tokens
      /\ DOMAIN Progress(ev.from)' = EventIds
  <2>1. TypeOK'
    BY <1>1, NextType
  <2>2. QED
    BY <1>2, <2>1, TablesStayTyped DEF TablesTyped
<1>7. ASSUME NEW c \in Clients, NEW k \in Keys(Pending(c)')
      PROVE  IdFor(c, k, Pending(c)[k])'
  <2>1. CASE c = ev.from /\ ev.msg.kind = "request" /\ k = ev.msg.token
    <3>1. Pending(c)'[k] = ev.id
      BY <1>4, <1>6, <2>1 DEF Keys
    <3>2. QED
      BY <2>1, <3>1, TrackFacts DEF IdFor
  <2>2. CASE c = ev.from /\ ev.msg.kind = "request" /\ k = ev.id /\ k # ev.msg.token
    <3>1. Pending(c)'[k] = ev.msg.id
      BY <1>4, <1>6, <2>2 DEF Keys
    <3>2. QED
      BY <2>2, <3>1, TrackFacts DEF IdFor
  <2>3. CASE ~(c = ev.from /\ ev.msg.kind = "request" /\ k \in {ev.id, ev.msg.token})
    <3>1. Pending(c)'[k] = Pending(c)[k] /\ k \in Keys(Pending(c))
      <4>1. DOMAIN Pending(c) = EventIds \cup Tokens
        BY TableTypes
      <4>2. QED
        BY <1>4, <1>6, <2>3, <4>1 DEF Keys
    <3>2. IdFor(c, k, Pending(c)[k])
      BY <3>1 DEF Correlation, MapsMatchOrigin
    <3>3. QED
      BY <1>3, <3>1, <3>2 DEF IdFor
  <2>4. QED
    BY <2>1, <2>2, <2>3
<1>8. ASSUME NEW c \in Clients, NEW e \in Keys(Progress(c)')
      PROVE  AskedWith(c, e, Progress(c)[e])'
  <2>1. CASE c = ev.from /\ ev.msg.kind = "request" /\ e = ev.id /\ ev.msg.token # None
    <3>1. Progress(c)'[e] = ev.msg.token
      BY <1>4, <1>6, <2>1 DEF Keys
    <3>2. QED
      BY <2>1, <3>1, TrackFacts DEF AskedWith
  <2>2. CASE ~(c = ev.from /\ ev.msg.kind = "request" /\ e = ev.id /\ ev.msg.token # None)
    <3>1. Progress(c)'[e] = Progress(c)[e] /\ e \in Keys(Progress(c))
      <4>1. DOMAIN Progress(c) = EventIds
        BY TableTypes
      <4>2. QED
        BY <1>4, <1>6, <2>2, <4>1 DEF Keys
    <3>2. AskedWith(c, e, Progress(c)[e])
      BY <3>1 DEF Correlation, MapsMatchOrigin
    <3>3. QED
      BY <1>3, <3>1, <3>2 DEF AskedWith
  <2>3. QED
    BY <2>1, <2>2
<1>9. QED
  BY <1>5, <1>7, <1>8 DEF MapsMatchOrigin

\* The two tables stay in step, with the sender's: a token of another event that
\* now leads here has been written over, and only a second request under one id
\* writes over an event's token.
LEMMA TrackAgrees ==
  ASSUME TypeOK, Correlation, NEW r \in Readings, NEW ev \in Traffic[r], Track(r, ev),
         NEW c \in Clients
  PROVE  TablesAgree(c)'
<1>1. [Next]_vars
  BY DEF Next, Read
<1>2. ev \in Inbound /\ ev.from \in Clients /\ ev.id \in EventIds /\ ev.msg \in Messages
  BY TrafficAssumption DEF Inbound
<1>3. /\ \A x \in Requests : x \in Requests' /\ origin'[x] = origin[x]
      /\ \A d, e : /\ Asked(d, e) => Asked(d, e)'
                   /\ AsToken(d, e) => AsToken(d, e)'
                   /\ Restated(d, e) => Restated(d, e)'
  BY <1>1, FactsStay
<1>4. TablesAgree(c)
  BY DEF Correlation, SessionTablesAgree
<1>5. CASE c # ev.from \/ ev.msg.kind # "request"
  <2>1. Pending(c)' = Pending(c) /\ Progress(c)' = Progress(c)
    BY <1>2, <1>5, TrackTables
  <2>2. QED
    BY <1>3, <1>4, <2>1 DEF TablesAgree, Awaits, Restated
<1>6. CASE c = ev.from /\ ev.msg.kind = "request"
  <2>1. /\ \A k \in EventIds \cup Tokens :
             Pending(c)'[k] = IF k = ev.msg.token THEN ev.id
                              ELSE IF k = ev.id THEN ev.msg.id
                              ELSE Pending(c)[k]
        /\ \A x \in EventIds :
             Progress(c)'[x] = IF x = ev.id /\ ev.msg.token # None THEN ev.msg.token
                                                              ELSE Progress(c)[x]
    BY <1>2, <1>6, TrackTables
  <2>2. /\ DOMAIN Pending(c)' = EventIds \cup Tokens
        /\ DOMAIN Progress(c)' = EventIds
    <3>1. TablesTyped'
      BY <1>1, NextType, TablesStayTyped
    <3>2. QED
      BY <3>1 DEF TablesTyped
  <2>3. /\ Pending(c) \in [EventIds \cup Tokens -> RequestIds \cup EventIds \cup {None}]
        /\ Progress(c) \in [EventIds -> Tokens \cup {None}]
    BY TableTypes
  <2>4. ev.msg.id # None /\ ev.id # None
    BY <1>2, <1>6, MessageAssumption, NoneAssumption
  <2>5. ASSUME NEW e \in Keys(Progress(c)')
        PROVE  Awaits(c, e)' \/ AsToken(c, e)'
    <3>1. CASE e = ev.id
      BY <2>1, <2>2, <2>4, <3>1 DEF Awaits, Keys
    <3>2. CASE e # ev.id
      <4>1. e \in Keys(Progress(c))
        BY <2>1, <2>2, <2>3, <3>2 DEF Keys
      <4>2. Awaits(c, e) => Awaits(c, e)'
        BY <2>1, <2>2, <2>3, <2>4 DEF Awaits, Keys
      <4>3. QED
        BY <1>3, <1>4, <4>1, <4>2 DEF TablesAgree
    <3>3. QED
      BY <3>1, <3>2
  <2>6. ASSUME NEW k \in Keys(Pending(c)')
        PROVE  \/ Asked(c, k)'
               \/ Progress(c)'[Pending(c)'[k]] = k
               \/ \E x, y \in Requests' :
                    /\ origin'[x].from = c /\ origin'[x].id = Pending(c)'[k]
                    /\ origin'[y].from = c /\ origin'[y].id = Pending(c)'[k]
                    /\ origin'[x].msg # origin'[y].msg
    <3>1. CASE k = ev.msg.token
      BY <1>2, <2>1, <2>2, <2>4, <3>1, NoneAssumption, MessageAssumption DEF Keys
    <3>2. CASE k = ev.id
      BY <1>6, <3>2, TrackFacts
    <3>3. CASE Asked(c, k)
      BY <1>3, <3>3
    <3>4. CASE k \notin {ev.id, ev.msg.token} /\ ~Asked(c, k)
      <4>1. PICK y : y = Pending(c)[k]
        OBVIOUS
      <4>2. Pending(c)'[k] = y /\ k \in Keys(Pending(c))
        BY <2>1, <2>2, <2>3, <3>4, <4>1 DEF Keys
      <4>3. y \in EventIds
        BY <3>4, <4>1, <4>2, TrafficAssumption
           DEF Correlation, MapsMatchOrigin, IdFor, Asked, Requests, Admitted, Keys,
               TypeOK, Map, Inbound
      <4>4. CASE Restated(c, y)
        BY <1>3, <4>2, <4>4 DEF Restated
      <4>5. CASE Progress(c)[y] = k /\ (y # ev.id \/ ev.msg.token = None)
        BY <2>1, <4>2, <4>3, <4>5
      <4>6. CASE Progress(c)[y] = k /\ y = ev.id /\ ev.msg.token # None
        <5>1. y \in Keys(Progress(c))
          BY <2>3, <4>2, <4>3, <4>6, NoneAssumption DEF Keys
        <5>2. PICK x \in Requests :
                origin[x].from = c /\ origin[x].id = y /\ origin[x].msg.token = k
          BY <4>6, <5>1 DEF Correlation, MapsMatchOrigin, AskedWith
        <5>3. x \in Requests' /\ origin'[x] = origin[x]
          BY <1>3
        <5>4. r \in Requests' /\ origin'[r] = ev
          BY <1>6, TrackFacts
        <5>5. QED
          BY <1>6, <3>4, <4>2, <4>6, <5>2, <5>3, <5>4
      <4>7. QED
        BY <1>4, <3>4, <4>1, <4>2, <4>4, <4>5, <4>6 DEF TablesAgree
    <3>5. QED
      BY <3>1, <3>2, <3>3, <3>4
  <2>7. QED
    BY <2>5, <2>6 DEF TablesAgree, Restated
<1>7. QED
  BY <1>5, <1>6

\* What a session holds before the loop's step it holds afterwards, and what is
\* new is the event's id or its token.
LEMMA TrackAwaits ==
  ASSUME TypeOK, NEW r \in Readings, NEW ev \in Traffic[r], Track(r, ev),
         NEW c \in Clients, NEW e \in EventIds
  PROVE  /\ Awaits(c, e) => Awaits(c, e)'
         /\ Awaits(c, e)' /\ ~Awaits(c, e) =>
              c = ev.from /\ ev.msg.kind = "request" /\ e \in {ev.id, ev.msg.token}
         /\ ev.msg.kind = "request" => Awaits(ev.from, ev.id)'
<1>1. [Next]_vars
  BY DEF Next, Read
<1>2. ev \in Inbound /\ ev.from \in Clients /\ ev.id \in EventIds /\ ev.msg \in Messages
  BY TrafficAssumption DEF Inbound
<1>3. TablesTyped /\ TablesTyped'
  BY <1>1, NextType, TablesAreTyped, TablesStayTyped
<1>4. \A d \in Clients : /\ DOMAIN Pending(d) = EventIds \cup Tokens
                         /\ DOMAIN Pending(d)' = EventIds \cup Tokens
  BY <1>3 DEF TablesTyped
<1>5. ev.id # None /\ (ev.msg.kind = "request" => ev.msg.id # None)
  BY <1>2, MessageAssumption, NoneAssumption
<1>6. QED
  BY <1>2, <1>4, <1>5, TrackTables DEF Awaits, Keys

\* A new route is backed, and one that led to another client is disputed.
LEMMA TrackRoutes ==
  ASSUME TypeOK, Correlation, NEW r \in Readings, NEW ev \in Traffic[r], Track(r, ev)
  PROVE  RoutesAreBacked' /\ PendingIsRouted'
<1>1. [Next]_vars
  BY DEF Next, Read
<1>2. ev \in Inbound /\ ev.from \in Clients /\ ev.id \in EventIds /\ ev.msg \in Messages
  BY TrafficAssumption DEF Inbound
<1>3. UNCHANGED <<calls, published, phase>> /\ Answers' = Answers
  BY DEF Track, Answers
<1>4. \A e \in EventIds :
        event_to_client'[e] = IF e = ev.id /\ ev.msg.kind = "request"
                                THEN ev.from ELSE event_to_client[e]
  BY <1>2 DEF Track, Put, TypeOK, Map
<1>5. \A d, e : /\ AsToken(d, e) => AsToken(d, e)'
                /\ Disputed(d, e) => Disputed(d, e)'
  BY <1>1, FactsStay
<1>6. ev.msg.kind = "request" =>
        Asked(ev.from, ev.id)' /\ AsToken(ev.from, ev.msg.token)'
  BY TrackFacts
<1>7. RoutesAreBacked'
  BY <1>3, <1>4, <1>5, TrackAwaits DEF Correlation, RoutesAreBacked
<1>8. ASSUME phase = "open", NEW c \in Clients, NEW e \in EventIds, Awaits(c, e)',
             \A p \in Answers : p.event # e
      PROVE  event_to_client'[e] = c \/ Disputed(c, e)'
  <2>1. CASE Awaits(c, e)
    <3>1. event_to_client[e] = c \/ Disputed(c, e)
      BY <1>8, <2>1 DEF Correlation, PendingIsRouted
    <3>2. CASE e = ev.id /\ ev.msg.kind = "request" /\ ev.from # c
      BY <1>2, <1>6, <3>2 DEF Disputed
    <3>3. CASE ~(e = ev.id /\ ev.msg.kind = "request" /\ ev.from # c)
      BY <1>4, <1>5, <3>1, <3>3
    <3>4. QED
      BY <3>2, <3>3
  <2>2. CASE ~Awaits(c, e)
    <3>1. c = ev.from /\ ev.msg.kind = "request" /\ e \in {ev.id, ev.msg.token}
      BY <1>8, <2>2, TrackAwaits
    <3>2. QED
      BY <1>4, <1>6, <3>1 DEF Disputed
  <2>3. QED
    BY <2>1, <2>2
<1>9. PendingIsRouted'
  BY <1>3, <1>8 DEF PendingIsRouted
<1>10. QED
  BY <1>7, <1>9

LEMMA TrackCorrelation ==
  ASSUME TypeOK, Correlation, NEW r \in Readings, NEW ev \in Traffic[r], Track(r, ev)
  PROVE  Correlation'
<1>1. [Next]_vars
  BY DEF Next, Read
<1>2. UNCHANGED <<forwarded, calls, published>> /\ loop' = r
  BY DEF Track
<1>3. ChannelMatchesOrigin'
  <2>1. r \in Admitted' /\ \A x \in Admitted : x \in Admitted'
    BY <1>1, TrackFacts, HistoryGrows
  <2>2. QED
    BY <1>2, <2>1 DEF Correlation, ChannelMatchesOrigin
<1>4. CallsMatchOrigin' /\ AnswersMatchRequests'
  BY <1>1, <1>2, Frame DEF Answers
<1>5. SessionTablesAgree'
  BY TrackAgrees DEF SessionTablesAgree
<1>6. QED
  BY <1>3, <1>4, <1>5, TrackMaps, TrackRoutes DEF Correlation

\* Cleanup: the keys of an expired session lead to all its routes, and to no other
\* client's unless the two share an id.
LEMMA CleanupCorrelation ==
  ASSUME TypeOK, Correlation, CleanupSessions
  PROVE  Correlation'
<1>1. [Next]_vars
  BY DEF Next, OwnStep
<1>2. UNCHANGED <<loop, forwarded, calls, published, origin, phase>> /\ Answers' = Answers
  BY DEF CleanupSessions, Answers
<1>3. /\ \A c \in Expired : Keys(Pending(c)') = {} /\ Keys(Progress(c)') = {}
      /\ \A c \in Clients \ Expired :
           Pending(c)' = Pending(c) /\ Progress(c)' = Progress(c)
  BY CleanupTables
<1>4. /\ \A c, e : /\ Asked(c, e) => Asked(c, e)'
                   /\ AsToken(c, e) => AsToken(c, e)'
                   /\ Disputed(c, e) => Disputed(c, e)'
      /\ \A x \in Requests : x \in Requests' /\ origin'[x] = origin[x]
  BY <1>1, FactsStay
<1>5. Expired \subseteq Clients /\ Expired \subseteq Keys(sessions)
  BY DEF Expired, Keys, TypeOK, Map
<1>6. ASSUME NEW e \in EventIds
      PROVE  event_to_client'[e] =
               IF \E x \in Expired : e \in Keys(Pending(x)) \cup Keys(Progress(x))
                 THEN None ELSE event_to_client[e]
  <2>1. \A x \in Expired : SessionKeys(x) = Keys(Pending(x)) \cup Keys(Progress(x))
    BY <1>5, KeysOfTables
  <2>2. QED
    BY <2>1 DEF CleanupSessions, Without, TypeOK, Map
<1>7. MapsMatchOrigin'
  <2>1. \A e \in EventIds, c \in Clients : event_to_client'[e] = c => Asked(c, e)'
    BY <1>4, <1>6, NoneAssumption DEF Correlation, MapsMatchOrigin
  <2>2. ASSUME NEW c \in Clients
        PROVE  /\ \A k \in Keys(Pending(c)') : IdFor(c, k, Pending(c)[k])'
               /\ \A e \in Keys(Progress(c)') : AskedWith(c, e, Progress(c)[e])'
    BY <1>3, <1>4 DEF Correlation, MapsMatchOrigin, IdFor, AskedWith
  <2>3. QED
    BY <2>1, <2>2 DEF MapsMatchOrigin
<1>8. ChannelMatchesOrigin' /\ AnswersMatchRequests' /\ CallsMatchOrigin'
  BY <1>1, <1>2, Frame
<1>9. SessionTablesAgree'
  <2>1. ASSUME NEW c \in Clients
        PROVE  TablesAgree(c)'
    <3>1. CASE c \in Expired
      BY <1>3, <3>1 DEF TablesAgree
    <3>2. CASE c \notin Expired
      BY <1>3, <1>4, <3>2 DEF Correlation, SessionTablesAgree, TablesAgree, Awaits, Restated
    <3>3. QED
      BY <3>1, <3>2
  <2>2. QED
    BY <2>1 DEF SessionTablesAgree
<1>10. RoutesAreBacked'
  <2>1. ASSUME phase # "clearing", NEW e \in EventIds, NEW c \in Clients,
               event_to_client'[e] = c
        PROVE  \/ Awaits(c, e)'
               \/ \E t \in Calls : /\ calls[t].pc = "unroute"
                                   /\ calls[t].event = e
                                   /\ calls[t].client = c
               \/ AsToken(c, e)'
    <3>1. /\ event_to_client[e] = c
          /\ c \in Expired => e \notin Keys(Pending(c))
      BY <1>6, <2>1, NoneAssumption
    <3>2. Awaits(c, e) => Awaits(c, e)'
      BY <1>3, <3>1 DEF Awaits
    <3>3. QED
      BY <1>4, <2>1, <3>1, <3>2 DEF Correlation, RoutesAreBacked
  <2>2. QED
    BY <1>2, <2>1 DEF RoutesAreBacked
<1>11. PendingIsRouted'
  <2>1. ASSUME phase = "open", NEW c \in Clients, NEW e \in EventIds, Awaits(c, e)',
               \A p \in Answers : p.event # e
        PROVE  event_to_client'[e] = c \/ Disputed(c, e)'
    <3>1. Awaits(c, e) /\ c \notin Expired
      BY <1>3, <2>1 DEF Awaits
    <3>2. event_to_client[e] = c \/ Disputed(c, e)
      BY <2>1, <3>1 DEF Correlation, PendingIsRouted
    <3>3. ASSUME NEW x \in Expired, e \in Keys(Pending(x)) \cup Keys(Progress(x))
          PROVE  Disputed(c, e)'
      <4>1. Asked(x, e) \/ AsToken(x, e)
        BY <1>5, <3>3, KeysAreUsed DEF Correlation
      <4>2. Disputed(c, e)
        BY <1>5, <3>1, <3>3, <4>1 DEF Disputed
      <4>3. QED
        BY <1>4, <4>2
    <3>4. QED
      BY <1>4, <1>6, <3>2, <3>3
  <2>2. QED
    BY <1>2, <2>1 DEF PendingIsRouted
<1>12. QED
  BY <1>7, <1>8, <1>9, <1>10, <1>11 DEF Correlation

\* send_response, first lookup: the route gives the call a client that asked.
LEMMA LookUpRouteCorrelation ==
  ASSUME TypeOK, Correlation, NEW t \in Calls, NEW e \in EventIds, LookUpRoute(t, e)
  PROVE  Correlation'
<1>1. [Next]_vars
  BY DEF Next, OwnStep
<1>2. UNCHANGED <<sessions, event_to_client, loop, forwarded, published, origin, phase>>
  BY DEF LookUpRoute
<1>3. \A u \in Calls \ {t} : calls'[u] = calls[u]
  BY DEF LookUpRoute, TypeOK
<1>4. /\ calls[t].pc = "idle"
      /\ calls'[t].pc \in {"session", "err"}
      /\ calls'[t].pc = "session" => /\ e \in Keys(event_to_client)
                                     /\ calls'[t].event = e
                                     /\ calls'[t].client = event_to_client[e]
                                     /\ calls'[t].id = AppId
  BY DEF LookUpRoute, TypeOK, NoCall
<1>5. RemovalsKept
  BY <1>3, <1>4 DEF RemovalsKept
<1>6. /\ MapsMatchOrigin' /\ SessionTablesAgree' /\ ChannelMatchesOrigin'
      /\ AnswersMatchRequests' /\ RoutesAreBacked' /\ PendingIsRouted'
  BY <1>1, <1>2, <1>5, Frame, SessionsKept DEF Answers
<1>7. CallsMatchOrigin'
  <2>1. Requests' = Requests /\ Answers' = Answers
    BY <1>2 DEF Requests, Admitted, Answers
  <2>2. ASSUME calls'[t].pc = "session"
        PROVE  Asked(calls[t].client, calls[t].event)'
    <3>1. PICK c \in Clients : c = event_to_client[e]
      BY <1>4, <2>2 DEF Keys, TypeOK, Map
    <3>2. Asked(c, e)
      BY <3>1 DEF Correlation, MapsMatchOrigin
    <3>3. QED
      BY <1>2, <1>4, <2>1, <2>2, <3>1, <3>2 DEF Asked
  <2>3. QED
    BY <1>2, <1>3, <1>4, <2>1, <2>2 DEF Correlation, CallsMatchOrigin, Asked, IdFor
<1>8. QED
  BY <1>6, <1>7 DEF Correlation

\* send_response, second lookup: whatever session the client has by then, it
\* gives an id of the client's own or none.
LEMMA LookUpSessionCorrelation ==
  ASSUME TypeOK, Correlation, NEW t \in Calls, LookUpSession(t)
  PROVE  Correlation'
<1>1. [Next]_vars
  BY DEF Next, OwnStep, CallStep
<1>2. UNCHANGED <<sessions, event_to_client, loop, forwarded, published, origin, phase>>
  BY DEF LookUpSession
<1>3. \A u \in Calls \ {t} : calls'[u] = calls[u]
  BY DEF LookUpSession, TypeOK
<1>4. calls[t].pc = "session" /\ calls[t] \in Call
  BY DEF LookUpSession, TypeOK
<1>5. /\ calls'[t].pc \in {"publish", "err"}
      /\ calls'[t].event = calls[t].event
      /\ calls'[t].client = calls[t].client
      /\ calls'[t].pc = "publish" =>
           /\ calls[t].client \in Keys(sessions)
           /\ calls'[t].id = RestoredId(sessions[calls[t].client], calls[t].event)
  <2>1. CASE calls[t].client \in Keys(sessions)
    BY <1>4, <2>1 DEF LookUpSession, TypeOK, Call
  <2>2. CASE calls[t].client \notin Keys(sessions)
    BY <1>4, <2>2 DEF LookUpSession, TypeOK, Call
  <2>3. QED
    BY <2>1, <2>2
<1>6. RemovalsKept
  BY <1>3, <1>4 DEF RemovalsKept
<1>7. /\ MapsMatchOrigin' /\ SessionTablesAgree' /\ ChannelMatchesOrigin'
      /\ AnswersMatchRequests' /\ RoutesAreBacked' /\ PendingIsRouted'
  BY <1>1, <1>2, <1>6, Frame, SessionsKept DEF Answers
<1>8. PICK c \in Clients, e \in EventIds : c = calls[t].client /\ e = calls[t].event
  BY <1>4 DEF TypeOK, CallsHaveTargets
<1>9. ASSUME calls'[t].pc = "publish"
      PROVE  calls'[t].id = AppId \/ IdFor(c, e, calls'[t].id)
  <2>1. Pending(c) = sessions[c].pending_requests
    BY <1>5, <1>8, <1>9 DEF Pending
  <2>2. calls'[t].id = IF e \in Keys(Pending(c)) THEN Pending(c)[e] ELSE AppId
    BY <1>5, <1>8, <1>9, <2>1 DEF RestoredId
  <2>3. QED
    BY <2>2 DEF Correlation, MapsMatchOrigin
<1>10. CallsMatchOrigin'
  <2>1. Requests' = Requests /\ Answers' = Answers
    BY <1>2 DEF Requests, Admitted, Answers
  <2>2. Asked(c, e)
    BY <1>4, <1>8 DEF Correlation, CallsMatchOrigin
  <2>3. QED
    BY <1>2, <1>3, <1>5, <1>8, <1>9, <2>1, <2>2
       DEF Correlation, CallsMatchOrigin, Asked, IdFor
<1>11. QED
  BY <1>7, <1>10 DEF Correlation

\* send_response, publication: what the call knows is what it publishes.
LEMMA PublishCorrelation ==
  ASSUME TypeOK, Correlation, NEW t \in Calls, NEW ok \in BOOLEAN,
         NEW reached \in BOOLEAN, PublishResponse(t, ok, reached)
  PROVE  Correlation'
<1>1. [Next]_vars
  BY DEF Next, OwnStep, CallStep
<1>2. UNCHANGED <<sessions, event_to_client, loop, forwarded, origin, phase>>
  BY DEF PublishResponse
<1>3. \A u \in Calls \ {t} : calls'[u] = calls[u]
  BY DEF PublishResponse, TypeOK
<1>4. /\ calls[t].pc = "publish"
      /\ calls'[t].pc = IF ok THEN "untrack" ELSE "err"
      /\ calls'[t].event = calls[t].event
      /\ calls'[t].client = calls[t].client
      /\ calls'[t].id = calls[t].id
  BY DEF PublishResponse, TypeOK, Call
<1>5. RemovalsKept
  BY <1>3, <1>4 DEF RemovalsKept
<1>6. /\ MapsMatchOrigin' /\ SessionTablesAgree' /\ ChannelMatchesOrigin'
      /\ RoutesAreBacked' /\ PendingIsRouted'
  BY <1>1, <1>2, <1>5, Frame, SessionsKept
<1>7. /\ ResponseOf(calls[t]).event = calls[t].event
      /\ ResponseOf(calls[t]).to = calls[t].client
      /\ ResponseOf(calls[t]).id = calls[t].id
      /\ ResponseOf(calls[t]).kind = "response"
  BY DEF ResponseOf
<1>8. /\ Answers' \subseteq Answers \cup {ResponseOf(calls[t])}
      /\ Answers \subseteq Answers'
      /\ ok => ResponseOf(calls[t]) \in Answers'
      /\ Requests' = Requests
  BY <1>2, <1>7 DEF PublishResponse, Answers, Requests, Admitted
<1>9. CallsMatchOrigin'
  BY <1>2, <1>3, <1>4, <1>7, <1>8 DEF Correlation, CallsMatchOrigin, Asked, IdFor
<1>10. AnswersMatchRequests'
  BY <1>2, <1>4, <1>7, <1>8
     DEF Correlation, CallsMatchOrigin, AnswersMatchRequests, Asked, IdFor
<1>11. QED
  BY <1>6, <1>9, <1>10 DEF Correlation

\* send_response, first removal: the route outlives the request for one step, or
\* for longer where its event's id is a token that goes with another request.
LEMMA UntrackCorrelation ==
  ASSUME TypeOK, Correlation, NEW t \in Calls, Untrack(t)
  PROVE  Correlation'
<1>1. [Next]_vars
  BY DEF Next, OwnStep, CallStep
<1>2. UNCHANGED <<event_to_client, loop, forwarded, published, origin, phase>>
  BY DEF Untrack
<1>3. PICK client \in Clients, e \in EventIds :
        calls[t].client = client /\ calls[t].event = e
  BY DEF Untrack, TypeOK, CallsHaveTargets
<1>4. /\ \A c \in Clients \ {client} :
           Pending(c)' = Pending(c) /\ Progress(c)' = Progress(c)
      /\ \A k \in EventIds \cup Tokens :
           Pending(client)'[k] =
             IF k = e \/ (k \in Tokens /\ Progress(client)[e] = k)
               THEN None ELSE Pending(client)[k]
      /\ \A x \in EventIds :
           Progress(client)'[x] = IF x = e THEN None ELSE Progress(client)[x]
  BY <1>3, UntrackTables
<1>5. /\ Pending(client)' \in [EventIds \cup Tokens -> RequestIds \cup EventIds \cup {None}]
      /\ Progress(client)' \in [EventIds -> Tokens \cup {None}]
      /\ Pending(client) \in [EventIds \cup Tokens -> RequestIds \cup EventIds \cup {None}]
      /\ Progress(client) \in [EventIds -> Tokens \cup {None}]
  BY <1>1, NextType, TablesAreTyped, TablesStayTyped DEF TablesTyped
<1>6. \A u \in Calls \ {t} : calls'[u] = calls[u]
  BY DEF Untrack, TypeOK
<1>7. /\ calls[t].pc = "untrack"
      /\ calls'[t].pc = "unroute"
      /\ calls'[t].event = e
      /\ calls'[t].client = client
      /\ calls'[t].id = calls[t].id
  BY <1>3 DEF Untrack, TypeOK, Call
<1>8. Requests' = Requests /\ Answers' = Answers
  BY <1>2 DEF Requests, Admitted, Answers
<1>9. ChannelMatchesOrigin' /\ AnswersMatchRequests'
  BY <1>1, <1>2, Frame DEF Answers
<1>10. CallsMatchOrigin'
  BY <1>2, <1>3, <1>6, <1>7, <1>8 DEF Correlation, CallsMatchOrigin, Asked, IdFor
<1>11. /\ \A k \in Keys(Pending(client)') :
            k \in Keys(Pending(client)) /\ Pending(client)'[k] = Pending(client)[k]
       /\ \A x \in Keys(Progress(client)') :
            x \in Keys(Progress(client)) /\ Progress(client)'[x] = Progress(client)[x]
  BY <1>4, <1>5 DEF Keys
<1>12. \A k \in Tokens : Progress(client)[e] = k => AsToken(client, k)
  BY <1>5, NoneAssumption DEF Correlation, MapsMatchOrigin, AskedWith, AsToken, Keys
<1>13. MapsMatchOrigin'
  <2>1. \A x \in EventIds, c \in Clients : event_to_client'[x] = c => Asked(c, x)'
    BY <1>2, <1>8 DEF Correlation, MapsMatchOrigin, Asked
  <2>2. ASSUME NEW c \in Clients
        PROVE  /\ \A k \in Keys(Pending(c)') : IdFor(c, k, Pending(c)[k])'
               /\ \A x \in Keys(Progress(c)') : AskedWith(c, x, Progress(c)[x])'
    <3>1. /\ \A k \in Keys(Pending(c)') :
               k \in Keys(Pending(c)) /\ Pending(c)'[k] = Pending(c)[k]
          /\ \A x \in Keys(Progress(c)') :
               x \in Keys(Progress(c)) /\ Progress(c)'[x] = Progress(c)[x]
      BY <1>4, <1>11
    <3>2. QED
      BY <1>2, <1>8, <3>1 DEF Correlation, MapsMatchOrigin, IdFor, AskedWith
  <2>3. QED
    BY <2>1, <2>2 DEF MapsMatchOrigin
<1>14. SessionTablesAgree'
  <2>1. ASSUME NEW c \in Clients \ {client}
        PROVE  TablesAgree(c)'
    BY <1>2, <1>4, <1>8
       DEF Correlation, SessionTablesAgree, TablesAgree, Awaits, Asked, AsToken, Restated
  <2>2. TablesAgree(client)
    BY DEF Correlation, SessionTablesAgree
  <2>3. ASSUME NEW x \in Keys(Progress(client)')
        PROVE  Awaits(client, x)' \/ AsToken(client, x)'
    <3>1. x # e /\ x \in EventIds
      BY <1>4, <1>5 DEF Keys
    <3>2. Awaits(client, x) \/ AsToken(client, x)
      BY <1>11, <2>2 DEF TablesAgree
    <3>3. Awaits(client, x) => Awaits(client, x)' \/ AsToken(client, x)
      BY <1>4, <1>5, <1>12, <3>1 DEF Awaits, Keys
    <3>4. QED
      BY <1>2, <1>8, <3>2, <3>3 DEF AsToken
  <2>4. ASSUME NEW k \in Keys(Pending(client)')
        PROVE  \/ Asked(client, k)'
               \/ Progress(client)'[Pending(client)'[k]] = k
               \/ Restated(client, Pending(client)[k])'
    <3>1. PICK y : y = Pending(client)[k]
      OBVIOUS
    <3>2. Pending(client)'[k] = y /\ k \in Keys(Pending(client))
      BY <1>11, <3>1
    <3>3. \/ Asked(client, k)
          \/ Progress(client)[y] = k /\ ~Asked(client, k)
          \/ Restated(client, y)
      BY <2>2, <3>1, <3>2 DEF TablesAgree
    <3>4. CASE Progress(client)[y] = k /\ ~Asked(client, k)
      <4>1. y \in EventIds
        BY <3>1, <3>2, <3>4, TrafficAssumption
           DEF Correlation, MapsMatchOrigin, IdFor, Asked, Requests, Admitted, Keys,
               TypeOK, Map, Inbound
      <4>2. k # None
        BY <1>5, <3>2, NoneAssumption DEF Keys
      <4>3. k \in Tokens
        BY <1>5, <3>4, <4>1, <4>2
      <4>4. y # e
        BY <1>4, <3>2, <3>4, <4>3 DEF Keys
      <4>5. QED
        BY <1>4, <3>2, <3>4, <4>1, <4>4
    <3>5. QED
      BY <1>2, <1>8, <3>2, <3>3, <3>4 DEF Asked, Restated
  <2>5. TablesAgree(client)'
    BY <2>3, <2>4 DEF TablesAgree
  <2>6. QED
    BY <2>1, <2>5 DEF SessionTablesAgree
<1>15. RoutesAreBacked'
  <2>1. ASSUME phase # "clearing", NEW x \in EventIds, NEW c \in Clients,
               event_to_client[x] = c
        PROVE  \/ Awaits(c, x)'
               \/ \E u \in Calls : /\ calls'[u].pc = "unroute"
                                   /\ calls'[u].event = x
                                   /\ calls'[u].client = c
               \/ AsToken(c, x)'
    <3>1. \/ Awaits(c, x)
          \/ \E u \in Calls : /\ calls[u].pc = "unroute"
                              /\ calls[u].event = x
                              /\ calls[u].client = c
          \/ AsToken(c, x)
      BY <2>1 DEF Correlation, RoutesAreBacked
    <3>2. CASE c = client /\ x = e
      BY <1>7, <3>2
    <3>3. CASE c # client
      BY <1>2, <1>4, <1>6, <1>7, <1>8, <3>1, <3>3 DEF Awaits, AsToken
    <3>4. CASE c = client /\ x # e
      <4>1. Awaits(c, x) => Awaits(c, x)' \/ AsToken(c, x)
        BY <1>4, <1>5, <1>12, <3>4 DEF Awaits, Keys
      <4>2. QED
        BY <1>2, <1>6, <1>7, <1>8, <3>1, <4>1 DEF AsToken
    <3>5. QED
      BY <3>2, <3>3, <3>4
  <2>2. QED
    BY <1>2, <2>1 DEF RoutesAreBacked
<1>16. PendingIsRouted'
  <2>1. \A c \in Clients, x \in EventIds : Awaits(c, x)' => Awaits(c, x)
    BY <1>4, <1>11 DEF Awaits
  <2>2. \A c, x : Disputed(c, x) => Disputed(c, x)'
    BY <1>1, FactsStay
  <2>3. QED
    BY <1>2, <1>8, <2>1, <2>2 DEF Correlation, PendingIsRouted
<1>17. QED
  BY <1>9, <1>10, <1>13, <1>14, <1>15, <1>16 DEF Correlation

\* send_response, second removal: the response is out by then.
LEMMA UnrouteCorrelation ==
  ASSUME TypeOK, Correlation, NEW t \in Calls, Unroute(t)
  PROVE  Correlation'
<1>1. [Next]_vars
  BY DEF Next, OwnStep, CallStep
<1>2. UNCHANGED <<sessions, loop, forwarded, published, origin, phase>>
  BY DEF Unroute
<1>3. PICK e \in EventIds : calls[t].event = e
  BY DEF Unroute, TypeOK, CallsHaveTargets
<1>4. \A u \in Calls \ {t} : calls'[u] = calls[u]
  BY DEF Unroute, TypeOK
<1>5. /\ calls[t].pc = "unroute"
      /\ calls'[t].pc = "ok"
      /\ calls'[t].event = e
      /\ calls'[t].client = calls[t].client
  BY <1>3 DEF Unroute, TypeOK, Call
<1>6. /\ Requests' = Requests /\ Answers' = Answers
      /\ \A c \in Clients : Pending(c)' = Pending(c) /\ Progress(c)' = Progress(c)
  BY <1>2 DEF Requests, Admitted, Answers, Pending, Progress
<1>7. \A x \in EventIds :
        event_to_client'[x] = IF x = e THEN None ELSE event_to_client[x]
  BY <1>3 DEF Unroute, Without, TypeOK, Map
<1>8. ChannelMatchesOrigin' /\ AnswersMatchRequests' /\ SessionTablesAgree'
  BY <1>1, <1>2, SessionsKept, Frame DEF Answers
<1>9. MapsMatchOrigin'
  BY <1>2, <1>6, <1>7, NoneAssumption
     DEF Correlation, MapsMatchOrigin, Asked, IdFor, AskedWith
<1>10. CallsMatchOrigin'
  BY <1>2, <1>3, <1>4, <1>5, <1>6 DEF Correlation, CallsMatchOrigin, Asked, IdFor
<1>11. RoutesAreBacked'
  <2>1. ASSUME phase # "clearing", NEW x \in EventIds, NEW c \in Clients,
               event_to_client'[x] = c
        PROVE  \/ Awaits(c, x)'
               \/ \E u \in Calls : /\ calls'[u].pc = "unroute"
                                   /\ calls'[u].event = x
                                   /\ calls'[u].client = c
               \/ AsToken(c, x)'
    <3>1. event_to_client[x] = c /\ x # e
      BY <1>7, <2>1, NoneAssumption
    <3>2. \/ Awaits(c, x)
          \/ \E u \in Calls : /\ calls[u].pc = "unroute"
                              /\ calls[u].event = x
                              /\ calls[u].client = c
          \/ AsToken(c, x)
      BY <2>1, <3>1 DEF Correlation, RoutesAreBacked
    <3>3. QED
      BY <1>2, <1>3, <1>4, <1>6, <3>1, <3>2 DEF Awaits, AsToken
  <2>2. QED
    BY <1>2, <2>1 DEF RoutesAreBacked
<1>12. PendingIsRouted'
  <2>1. \E p \in Answers : p.event = e
    BY <1>3, <1>5 DEF Correlation, CallsMatchOrigin
  <2>2. \A c, x : Disputed(c, x) => Disputed(c, x)'
    BY <1>1, FactsStay
  <2>3. QED
    BY <1>2, <1>6, <1>7, <2>1, <2>2 DEF Correlation, PendingIsRouted, Awaits
<1>13. QED
  BY <1>8, <1>9, <1>10, <1>11, <1>12 DEF Correlation

\* A dropped send_response stays where it is.
LEMMA DropCallCorrelation ==
  ASSUME TypeOK, Correlation, NEW t \in Calls, DropCall(t)
  PROVE  Correlation'
<1>1. [Next]_vars
  BY DEF Next, OwnStep
<1>2. UNCHANGED <<sessions, event_to_client, loop, forwarded, published, origin, phase>>
  BY DEF DropCall
<1>3. \A u \in Calls : /\ calls'[u].pc = calls[u].pc
                       /\ calls'[u].event = calls[u].event
                       /\ calls'[u].client = calls[u].client
                       /\ calls'[u].id = calls[u].id
  BY DEF DropCall, TypeOK, Call
<1>4. RemovalsKept
  BY <1>3 DEF RemovalsKept
<1>5. /\ MapsMatchOrigin' /\ SessionTablesAgree' /\ ChannelMatchesOrigin'
      /\ AnswersMatchRequests' /\ RoutesAreBacked' /\ PendingIsRouted'
  BY <1>1, <1>2, <1>4, Frame, SessionsKept DEF Answers
<1>6. CallsMatchOrigin'
  <2>1. Requests' = Requests /\ Answers' = Answers
    BY <1>2 DEF Requests, Admitted, Answers
  <2>2. QED
    BY <1>2, <1>3, <2>1 DEF Correlation, CallsMatchOrigin, Asked, IdFor
<1>7. QED
  BY <1>5, <1>6 DEF Correlation

\* A session that becomes idle knows the requests it knew.
LEMMA IdleTables ==
  ASSUME TypeOK, NEW c \in Clients, BecomeIdle(c)
  PROVE  TablesKept
<1>1. /\ sessions[c] \in Session
      /\ sessions'[c] = [sessions[c] EXCEPT !.idle = TRUE]
      /\ DOMAIN sessions = Clients /\ DOMAIN sessions' = Clients
      /\ \A d \in Clients \ {c} : sessions'[d] = sessions[d]
      /\ c \in Keys(sessions)
  BY DEF BecomeIdle, TypeOK, Map, Keys
<1>2. /\ sessions'[c] \in Session
      /\ sessions'[c].pending_requests = sessions[c].pending_requests
      /\ sessions'[c].event_to_progress_token = sessions[c].event_to_progress_token
  BY <1>1 DEF Session
<1>3. sessions'[c] # None
  BY <1>2, NoneAssumption
<1>4. QED
  BY <1>1, <1>2, <1>3 DEF TablesKept, Pending, Progress, Keys

LEMMA IdleCorrelation ==
  ASSUME TypeOK, Correlation, NEW c \in Clients, BecomeIdle(c)
  PROVE  Correlation'
<1>1. [Next]_vars
  BY DEF Next, OwnStep
<1>2. UNCHANGED <<event_to_client, loop, forwarded, calls, published, origin, phase>>
  BY DEF BecomeIdle
<1>3. RemovalsKept
  BY <1>2 DEF RemovalsKept
<1>4. QED
  BY <1>1, <1>2, <1>3, IdleTables, Frame DEF Correlation, Answers

\* close, first half: no session is left to know anything, and until the second
\* half the routes are stale.
LEMMA ClearSessionsCorrelation ==
  ASSUME TypeOK, Correlation, ClearSessions
  PROVE  Correlation'
<1>1. [Next]_vars
  BY DEF Next, OwnStep
<1>2. /\ UNCHANGED <<event_to_client, loop, forwarded, calls, published, origin>>
      /\ phase' = "clearing"
  BY DEF ClearSessions
<1>3. ChannelMatchesOrigin' /\ AnswersMatchRequests' /\ CallsMatchOrigin'
  BY <1>1, <1>2, Frame DEF Answers
<1>4. \A c \in Clients : Keys(Pending(c)') = {} /\ Keys(Progress(c)') = {}
  BY DEF ClearSessions, EmptyMap, Keys, Pending, Progress
<1>5. MapsMatchOrigin' /\ SessionTablesAgree'
  <2>1. \A c, e : Asked(c, e) => Asked(c, e)'
    BY <1>1, FactsStay
  <2>2. QED
    BY <1>2, <1>4, <2>1
       DEF Correlation, MapsMatchOrigin, SessionTablesAgree, TablesAgree
<1>6. RoutesAreBacked' /\ PendingIsRouted'
  BY <1>2 DEF RoutesAreBacked, PendingIsRouted
<1>7. QED
  BY <1>3, <1>5, <1>6 DEF Correlation

\* close, second half.
LEMMA ClearRoutesCorrelation ==
  ASSUME TypeOK, Correlation, ClearRoutes
  PROVE  Correlation'
<1>1. [Next]_vars
  BY DEF Next, OwnStep
<1>2. /\ UNCHANGED <<sessions, loop, forwarded, calls, published, origin>>
      /\ phase' = "closed"
  BY DEF ClearRoutes
<1>3. /\ ChannelMatchesOrigin' /\ AnswersMatchRequests' /\ CallsMatchOrigin'
      /\ SessionTablesAgree'
  BY <1>1, <1>2, Frame, SessionsKept DEF Answers
<1>4. \A e \in EventIds, c \in Clients : event_to_client'[e] # c
  BY NoneAssumption DEF ClearRoutes, EmptyMap
<1>5. MapsMatchOrigin'
  <2>1. \A x \in Requests : x \in Requests' /\ origin'[x] = origin[x]
    BY <1>1, FactsStay
  <2>2. TablesKept
    BY <1>2, SessionsKept
  <2>3. QED
    BY <1>4, <2>1, <2>2
       DEF Correlation, MapsMatchOrigin, TablesKept, IdFor, AskedWith
<1>6. RoutesAreBacked' /\ PendingIsRouted'
  BY <1>2, <1>4 DEF RoutesAreBacked, PendingIsRouted
<1>7. QED
  BY <1>3, <1>5, <1>6 DEF Correlation

\* Every step keeps Correlation.
LEMMA NextCorrelation == TypeOK /\ Correlation /\ [Next]_vars => Correlation'
<1> SUFFICES ASSUME TypeOK, Correlation, [Next]_vars
             PROVE  Correlation'
  OBVIOUS
<1>1. ASSUME UNCHANGED <<sessions, event_to_client, calls, phase>>,
             UNCHANGED Answers, ChannelMatchesOrigin'
      PROVE  Correlation'
  <2>1. RemovalsKept
    BY <1>1 DEF RemovalsKept
  <2>2. QED
    BY <1>1, <2>1, Frame, SessionsKept DEF Correlation
<1>2. UNCHANGED <<loop, forwarded>> => ChannelMatchesOrigin'
  BY Frame
<1>3. ASSUME NEW r \in Readings, NEW ev \in Traffic[r], Discard(r, ev)
      PROVE  Correlation'
  BY <1>1, <1>2, <1>3 DEF Discard, Answers
<1>4. ASSUME NEW r \in Readings, NEW ev \in Traffic[r], Track(r, ev)
      PROVE  Correlation'
  BY <1>4, TrackCorrelation
<1>5. CASE Forward
  <2>1. ChannelMatchesOrigin'
    BY <1>5 DEF Forward, Correlation, ChannelMatchesOrigin, Admitted
  <2>2. QED
    BY <1>1, <1>5, <2>1 DEF Forward, Answers
<1>6. ASSUME NEW n \in Notices,
             \/ \E c \in Clients, e \in EventIds \cup {None} : Notify(n, c, e)
             \/ Broadcast(n)
             \/ \E c \in Clients : LookUpTarget(n, c)
             \/ DropNotice(n)
      PROVE  Correlation'
  BY <1>1, <1>2, <1>6 DEF Notify, Broadcast, LookUpTarget, DropNotice, Answers
<1>7. ASSUME NEW n \in Notices, NEW ok \in BOOLEAN, NEW reached \in BOOLEAN,
             PublishNotice(n, ok, reached)
      PROVE  Correlation'
  <2>1. NotificationOf(notices[n]).kind # "response"
    BY DEF NotificationOf
  <2>2. published' \in {published, published \cup {NotificationOf(notices[n])}}
    BY <1>7 DEF PublishNotice
  <2>3. UNCHANGED Answers
    BY <2>1, <2>2 DEF Answers
  <2>4. QED
    BY <1>1, <1>2, <1>7, <2>3 DEF PublishNotice
<1>8. CASE UNCHANGED vars
  BY <1>1, <1>2, <1>8 DEF vars, Answers
<1>9. QED
  BY <1>3, <1>4, <1>5, <1>6, <1>7, <1>8, IdleCorrelation, CleanupCorrelation,
     LookUpRouteCorrelation, LookUpSessionCorrelation, PublishCorrelation,
     UntrackCorrelation, UnrouteCorrelation, DropCallCorrelation,
     ClearSessionsCorrelation, ClearRoutesCorrelation
     DEF Next, Read, OwnStep, CallStep, NoticeStep

\* The correlation state is consistent in every reachable state: the inductive
\* invariant of the transport (event_loop, cleanup_sessions, send_response,
\* close), whatever ids, authors and tokens the events it reads have.
THEOREM CorrelationHolds == Spec => []Correlation
<1>1. Init => TypeOK /\ Correlation
  BY InitType, InitCorrelation
<1>2. TypeOK /\ Correlation /\ [Next]_vars => TypeOK' /\ Correlation'
  BY NextType, NextCorrelation
<1>3. QED
  BY <1>1, <1>2, PTL DEF Spec

\* Every response goes to a client that asked under its id, with an id of this
\* client's own or the application's, under any interleaving of answers, expiry,
\* new sessions, cancellations and close (send_response).
THEOREM AnswersAreCorrect == Spec => []AnswersMatchRequests
<1>1. Correlation => AnswersMatchRequests
  BY DEF Correlation
<1>2. QED
  BY <1>1, CorrelationHolds, PTL

\* No route outlives the entry that leads cleanup to it, but in the two ways the
\* property names (cleanup_sessions, send_response).
THEOREM RoutesAreNotLost == Spec => []RoutesAreBacked
<1>1. Correlation => RoutesAreBacked
  BY DEF Correlation
<1>2. QED
  BY <1>1, CorrelationHolds, PTL

\* An unanswered request that a session knows, under an id with one use, can be
\* answered by its own client's route (event_loop, send_response).
THEOREM RequestsAreAnswerable == Spec => []PendingIsRouted
<1>1. Correlation => PendingIsRouted
  BY DEF Correlation
<1>2. QED
  BY <1>1, CorrelationHolds, PTL

\* The two tables of a session agree, whichever requests share a token, unless the
\* client uses its ids twice (event_loop, send_response).
THEOREM TablesStayInStep == Spec => []SessionTablesAgree
<1>1. Correlation => SessionTablesAgree
  BY DEF Correlation
<1>2. QED
  BY <1>1, CorrelationHolds, PTL

-----------------------------------------------------------------------------
(* No request is lost *)

\* A request leaves event_to_client only answered, in close, or with the expired
\* session of a client that has used its id: no failure, cancellation or
\* interleaving of send_response loses one (send_response, cleanup_sessions,
\* close).
THEOREM NoRequestIsLost == Spec => TrackedUntilAnswered
<1> DEFINE Kept ==
      \A e \in Keys(event_to_client) \ Keys(event_to_client') :
        \/ \E p \in Answers : p.event = e
        \/ \E c \in Expired \ Keys(sessions') : Asked(c, e) \/ AsToken(c, e)
        \/ phase = "clearing"
<1>1. ASSUME TypeOK, Correlation, Next
      PROVE  Kept
  <2>1. ASSUME NEW r \in Readings, NEW ev \in Traffic[r], Track(r, ev)
        PROVE  Kept
    <3>1. ev.from \in Clients /\ ev.from # None
      BY NoneAssumption, TrafficAssumption DEF Inbound
    <3>2. Keys(event_to_client) \subseteq Keys(event_to_client')
      BY <1>1, <2>1, <3>1 DEF Track, Put, Keys, TypeOK, Map
    <3>3. QED
      BY <3>2
  <2>2. CASE CleanupSessions
    <3>1. ASSUME NEW e \in Keys(event_to_client) \ Keys(event_to_client')
          PROVE  \E c \in Expired \ Keys(sessions') : Asked(c, e) \/ AsToken(c, e)
      <4>1. PICK c \in Expired : e \in SessionKeys(c)
        BY <1>1, <2>2, <3>1 DEF CleanupSessions, Without, Keys, TypeOK, Map
      <4>2. c \in Clients /\ e \in EventIds /\ c \in Keys(sessions)
        BY <1>1, <3>1, <4>1 DEF Expired, Keys, TypeOK, Map
      <4>3. Asked(c, e) \/ AsToken(c, e)
        BY <1>1, <4>1, <4>2, KeysOfTables, KeysAreUsed DEF Correlation
      <4>4. c \notin Keys(sessions')
        BY <2>2, <4>1 DEF CleanupSessions, Without, Keys
      <4>5. QED
        BY <4>1, <4>3, <4>4
    <3>2. QED
      BY <3>1
  <2>3. ASSUME NEW t \in Calls, Unroute(t)
        PROVE  Kept
    <3>1. Keys(event_to_client) \ Keys(event_to_client') \subseteq {calls[t].event}
      BY <2>3 DEF Unroute, Without, Keys
    <3>2. \E p \in Answers : p.event = calls[t].event
      BY <1>1, <2>3 DEF Unroute, Correlation, CallsMatchOrigin
    <3>3. QED
      BY <3>1, <3>2
  <2>4. CASE ClearRoutes
    BY <2>4 DEF ClearRoutes
  <2>5. ASSUME UNCHANGED event_to_client
        PROVE  Kept
    BY <2>5
  <2> HIDE DEF Kept
  <2>6. QED
    BY <1>1, <2>1, <2>2, <2>3, <2>4, <2>5
       DEF Next, Read, OwnStep, CallStep, NoticeStep, Discard, Forward,
           BecomeIdle, LookUpRoute, LookUpSession, PublishResponse, Untrack,
           DropCall, Notify, Broadcast, LookUpTarget, PublishNotice, DropNotice,
           ClearSessions
<1>2. TypeOK /\ Correlation /\ [Next]_vars => [Kept]_vars
  BY <1>1
<1>3. TypeOK /\ Correlation /\ [Next]_vars => TypeOK' /\ Correlation'
  BY NextType, NextCorrelation
<1>4. Init => TypeOK /\ Correlation
  BY InitType, InitCorrelation
<1>5. TrackedUntilAnswered <=> [][Kept]_vars
  BY DEF TrackedUntilAnswered
<1> HIDE DEF Kept
<1>6. QED
  BY <1>2, <1>3, <1>4, <1>5, PTL DEF Spec

-----------------------------------------------------------------------------
(* Who may be written to, and in which form.  What was read in a client's name is in *)
(* the history; the flags of its session, the calls that read them and   *)
(* what is published are tied to it in turn.                                   *)

\* Something was admitted in client c's name, wrapped or not as b says.
Uses(c, b) == \E r \in Admitted : origin[r].from = c /\ origin[r].wrapped = b

SessionsMatchOrigin ==
  \A c \in Keys(sessions) :
    /\ Uses(c, sessions[c].is_encrypted)
    /\ sessions[c].is_initialized => SentInitialized(c)

CallsFollowSessions ==
  \A t \in Calls :
    calls[t].pc = "publish" => Uses(calls[t].client, calls[t].encrypted)

NoticesFollowSessions ==
  \A n \in Notices :
    /\ notices[n].pc = "publish" => Uses(notices[n].target, notices[n].encrypted)
    /\ notices[n].pc \in {"lookup", "publish"} /\ notices[n].broadcast =>
         \A c \in notices[n].todo : SentInitialized(c)
    /\ notices[n].pc = "publish" => notices[n].target \in notices[n].todo

PublishedFollows ==
  \A p \in published :
    /\ \E b \in BOOLEAN : /\ Uses(p.to, b)
                          /\ p.encrypted = ShouldEncrypt(EncryptionMode, FALSE, Wish(b))
    /\ p.kind = "broadcast" => SentInitialized(p.to)

PolicyInv ==
  /\ TypeOK
  /\ Correlation
  /\ SessionsMatchOrigin
  /\ CallsFollowSessions
  /\ NoticesFollowSessions
  /\ PublishedFollows

LEMMA InitPolicy == Init => PolicyInv
<1> SUFFICES ASSUME Init PROVE PolicyInv
  OBVIOUS
<1>1. SessionsMatchOrigin
  BY DEF Init, SessionsMatchOrigin, EmptyMap, Keys
<1>2. CallsFollowSessions /\ NoticesFollowSessions /\ PublishedFollows
  BY DEF Init, CallsFollowSessions, NoticesFollowSessions, PublishedFollows,
     NoCall, NoNotice
<1>3. QED
  BY <1>1, <1>2, InitType, InitCorrelation DEF PolicyInv

-----------------------------------------------------------------------------
(* The history grows, and what is left alone stays tied to it *)

LEMMA UsesStay ==
  ASSUME TypeOK, [Next]_vars
  PROVE  /\ \A c, b : Uses(c, b) => Uses(c, b)'
         /\ \A c : SentInitialized(c) => SentInitialized(c)'
<1>1. \A r \in Admitted : r \in Admitted' /\ origin'[r] = origin[r]
  BY HistoryGrows
<1>2. QED
  BY <1>1 DEF Uses, SentInitialized

LEMMA PolicyFrame ==
  ASSUME PolicyInv, [Next]_vars
  PROVE  /\ UNCHANGED sessions => SessionsMatchOrigin'
         /\ UNCHANGED calls => CallsFollowSessions'
         /\ UNCHANGED notices => NoticesFollowSessions'
         /\ UNCHANGED published => PublishedFollows'
<1>1. /\ \A c, b : Uses(c, b) => Uses(c, b)'
      /\ \A c : SentInitialized(c) => SentInitialized(c)'
  BY UsesStay DEF PolicyInv
<1>2. UNCHANGED sessions => SessionsMatchOrigin'
  BY <1>1 DEF PolicyInv, SessionsMatchOrigin
<1>3. UNCHANGED calls => CallsFollowSessions'
  BY <1>1 DEF PolicyInv, CallsFollowSessions
<1>4. UNCHANGED notices => NoticesFollowSessions'
  BY <1>1 DEF PolicyInv, NoticesFollowSessions
<1>5. UNCHANGED published => PublishedFollows'
  BY <1>1 DEF PolicyInv, PublishedFollows
<1>6. QED
  BY <1>2, <1>3, <1>4, <1>5

\* Sessions that were there, with the flags they had.
LEMMA FlagsStay ==
  ASSUME PolicyInv, [Next]_vars,
         \A c \in Keys(sessions)' :
           /\ c \in Keys(sessions)
           /\ sessions'[c].is_encrypted = sessions[c].is_encrypted
           /\ sessions'[c].is_initialized = sessions[c].is_initialized
  PROVE  SessionsMatchOrigin'
<1>1. /\ \A c, b : Uses(c, b) => Uses(c, b)'
      /\ \A c : SentInitialized(c) => SentInitialized(c)'
  BY UsesStay DEF PolicyInv
<1>2. QED
  BY <1>1 DEF PolicyInv, SessionsMatchOrigin

-----------------------------------------------------------------------------
(* The steps that change sessions *)

LEMMA TrackPolicy ==
  ASSUME PolicyInv, [Next]_vars, NEW r \in Readings, NEW ev \in Traffic[r], Track(r, ev)
  PROVE  SessionsMatchOrigin'
<1>1. /\ \A c, b : Uses(c, b) => Uses(c, b)'
      /\ \A c : SentInitialized(c) => SentInitialized(c)'
  BY UsesStay DEF PolicyInv
<1>2. ev.from \in Clients
  BY TrafficAssumption DEF Inbound
<1>3. r \in Admitted' /\ origin'[r] = ev
  BY TrackFacts DEF PolicyInv
<1>4. Uses(ev.from, ev.wrapped)'
  BY <1>3 DEF Uses
<1>5. /\ sessions'[ev.from] = SessionAfter(ev)
      /\ \A c \in Clients \ {ev.from} : sessions'[c] = sessions[c]
      /\ Keys(sessions)' \subseteq Clients
  BY <1>2 DEF Track, PolicyInv, TypeOK, Map, Put, Keys
<1>6. SessionAfter(ev).is_encrypted = ev.wrapped
  BY DEF SessionAfter
<1>7. ASSUME SessionAfter(ev).is_initialized
      PROVE  SentInitialized(ev.from)'
  <2>1. CASE ev.msg.kind = "notification" /\ ev.msg.method = "notifications/initialized"
    BY <1>3, <2>1 DEF SentInitialized
  <2>2. CASE ev.from \in Keys(sessions) /\ sessions[ev.from].is_initialized
    BY <1>1, <2>2 DEF PolicyInv, SessionsMatchOrigin
  <2>3. QED
    BY <1>7, <2>1, <2>2 DEF SessionAfter, NewSession
<1>8. \A c \in Keys(sessions)' \ {ev.from} : c \in Keys(sessions)
  BY <1>5 DEF PolicyInv, TypeOK, Map, Keys
<1>9. QED
  BY <1>1, <1>4, <1>5, <1>6, <1>7, <1>8 DEF PolicyInv, SessionsMatchOrigin

LEMMA IdlePolicy ==
  ASSUME PolicyInv, [Next]_vars, NEW c \in Clients, BecomeIdle(c)
  PROVE  SessionsMatchOrigin'
<1>1. sessions[c] \in Session /\ sessions \in Map(Clients, Session)
  BY DEF BecomeIdle, PolicyInv, TypeOK, Map, Keys
<1>2. sessions' = [sessions EXCEPT ![c] = [sessions[c] EXCEPT !.idle = TRUE]]
  BY DEF BecomeIdle
<1>3. /\ [sessions[c] EXCEPT !.idle = TRUE].is_encrypted = sessions[c].is_encrypted
      /\ [sessions[c] EXCEPT !.idle = TRUE].is_initialized = sessions[c].is_initialized
  BY <1>1 DEF Session
<1>4. c \in Keys(sessions)
  BY DEF BecomeIdle
<1>5. QED
  BY <1>1, <1>2, <1>3, <1>4, FlagsStay DEF Map, Keys

LEMMA UntrackPolicy ==
  ASSUME PolicyInv, [Next]_vars, NEW t \in Calls, Untrack(t)
  PROVE  SessionsMatchOrigin'
<1> DEFINE c == calls[t].client
<1>1. CASE c \notin Keys(sessions)
  BY <1>1, PolicyFrame DEF Untrack
<1>2. CASE c \in Keys(sessions)
  <2> DEFINE session == SessionWithout(sessions[c], calls[t].event)
  <2>1. sessions[c] \in Session /\ sessions \in Map(Clients, Session)
    BY <1>2 DEF PolicyInv, TypeOK, Map, Keys
  <2>2. sessions' = [sessions EXCEPT ![c] = session]
    BY <1>2 DEF Untrack
  <2>3. /\ session.is_encrypted = sessions[c].is_encrypted
        /\ session.is_initialized = sessions[c].is_initialized
    BY <2>1 DEF SessionWithout, Session
  <2> HIDE DEF session
  <2>4. QED
    BY <1>2, <2>1, <2>2, <2>3, FlagsStay DEF Map, Keys
<1>3. QED
  BY <1>1, <1>2

LEMMA CleanupPolicy ==
  ASSUME PolicyInv, [Next]_vars, CleanupSessions \/ ClearSessions
  PROVE  SessionsMatchOrigin'
<1>1. CASE CleanupSessions
  BY <1>1, FlagsStay DEF CleanupSessions, Without, Keys
<1>2. CASE ClearSessions
  BY <1>2 DEF ClearSessions, EmptyMap, Keys, SessionsMatchOrigin
<1>3. QED
  BY <1>1, <1>2

-----------------------------------------------------------------------------
(* The steps of the sends *)

\* Calls that are not at their publication owe nothing here.
LEMMA OneCall ==
  ASSUME PolicyInv, [Next]_vars, NEW t \in Calls,
         \A u \in Calls \ {t} : calls'[u] = calls[u],
         \/ calls'[t].pc # "publish"
         \/ Uses(calls'[t].client, calls'[t].encrypted)
         \/ /\ calls[t].pc = "publish"
            /\ calls'[t].client = calls[t].client
            /\ calls'[t].encrypted = calls[t].encrypted
  PROVE  CallsFollowSessions'
<1>1. \A c, b : Uses(c, b) => Uses(c, b)'
  BY UsesStay DEF PolicyInv
<1>2. QED
  BY <1>1 DEF PolicyInv, CallsFollowSessions

LEMMA CallPolicy ==
  ASSUME PolicyInv, [Next]_vars, NEW t \in Calls,
         \/ \E e \in EventIds : LookUpRoute(t, e)
         \/ LookUpSession(t)
         \/ \E ok, reached \in BOOLEAN : PublishResponse(t, ok, reached)
         \/ Untrack(t) \/ Unroute(t) \/ DropCall(t)
  PROVE  CallsFollowSessions'
<1>1. calls \in [Calls -> Call] /\ calls[t] \in Call
  BY DEF PolicyInv, TypeOK
<1>2. CASE \E e \in EventIds : LookUpRoute(t, e)
  <2>1. PICK e \in EventIds : LookUpRoute(t, e)
    BY <1>2
  <2>2. \A u \in Calls \ {t} : calls'[u] = calls[u]
    BY <1>1, <2>1 DEF LookUpRoute
  <2>3. calls'[t].pc \in {"session", "err"}
    BY <1>1, <2>1 DEF LookUpRoute, NoCall
  <2>4. QED
    BY <2>2, <2>3, OneCall
<1>3. CASE LookUpSession(t)
  <2>1. \A u \in Calls \ {t} : calls'[u] = calls[u]
    BY <1>1, <1>3 DEF LookUpSession
  <2>2. CASE calls[t].client \in Keys(sessions)
    <3>1. /\ calls'[t].client = calls[t].client
          /\ calls'[t].encrypted = sessions[calls[t].client].is_encrypted
      BY <1>1, <1>3, <2>2 DEF LookUpSession, Call
    <3>2. Uses(calls'[t].client, calls'[t].encrypted)
      BY <2>2, <3>1 DEF PolicyInv, SessionsMatchOrigin
    <3>3. QED
      BY <2>1, <3>2, OneCall
  <2>3. CASE calls[t].client \notin Keys(sessions)
    <3>1. calls'[t].pc = "err"
      BY <1>1, <1>3, <2>3 DEF LookUpSession, Call
    <3>2. QED
      BY <2>1, <3>1, OneCall
  <2>4. QED
    BY <2>2, <2>3
<1>4. ASSUME NEW ok \in BOOLEAN, NEW reached \in BOOLEAN, PublishResponse(t, ok, reached)
      PROVE  CallsFollowSessions'
  <2>1. /\ \A u \in Calls \ {t} : calls'[u] = calls[u]
        /\ calls'[t].pc # "publish"
    BY <1>1, <1>4 DEF PublishResponse, Call
  <2>2. QED
    BY <2>1, OneCall
<1>5. CASE Untrack(t) \/ Unroute(t) \/ DropCall(t)
  <2>1. \A u \in Calls \ {t} : calls'[u] = calls[u]
    BY <1>1, <1>5 DEF Untrack, Unroute, DropCall
  <2>2. \/ calls'[t].pc # "publish"
        \/ /\ calls[t].pc = "publish"
           /\ calls'[t].client = calls[t].client
           /\ calls'[t].encrypted = calls[t].encrypted
    BY <1>1, <1>5 DEF Untrack, Unroute, DropCall, Call
  <2>3. QED
    BY <2>1, <2>2, OneCall
<1>6. QED
  BY <1>2, <1>3, <1>4, <1>5

\* What must be said of the notification call that a step changes.
LEMMA OneNotice ==
  ASSUME PolicyInv, [Next]_vars, NEW n \in Notices, NEW notice \in Notice,
         notices' = [notices EXCEPT ![n] = notice],
         notice.pc = "publish" =>
           Uses(notice.target, notice.encrypted) /\ notice.target \in notice.todo,
         notice.pc \in {"lookup", "publish"} /\ notice.broadcast =>
           \A c \in notice.todo : SentInitialized(c)
  PROVE  NoticesFollowSessions'
<1>1. /\ \A c, b : Uses(c, b) => Uses(c, b)'
      /\ \A c : SentInitialized(c) => SentInitialized(c)'
  BY UsesStay DEF PolicyInv
<1>2. notices'[n] = notice /\ \A m \in Notices \ {n} : notices'[m] = notices[m]
  BY DEF PolicyInv, TypeOK
<1>3. QED
  BY <1>1, <1>2 DEF PolicyInv, NoticesFollowSessions

\* After one of its sends, a call is at no publication, and has not gained a client.
LEMMA NoticeAfterFollows ==
  ASSUME NEW notice \in Notice, NEW c, NEW ok \in BOOLEAN
  PROVE  /\ NoticeAfter(notice, c, ok) \in Notice
         /\ NoticeAfter(notice, c, ok).pc # "publish"
         /\ NoticeAfter(notice, c, ok).broadcast = notice.broadcast
         /\ NoticeAfter(notice, c, ok).todo \subseteq notice.todo
<1>1. NoticeAfter(notice, c, ok) \in Notice
  BY NoticeAfterType
<1>2. NoticeAfter(notice, c, ok).pc =
        IF notice.todo # {c} THEN "lookup"
        ELSE IF ok \/ notice.broadcast THEN "ok" ELSE "err"
  BY DEF NoticeAfter, Notice
<1>3. /\ NoticeAfter(notice, c, ok).broadcast = notice.broadcast
      /\ NoticeAfter(notice, c, ok).todo = notice.todo \ {c}
  BY DEF NoticeAfter, Notice
<1>4. QED
  BY <1>1, <1>2, <1>3

\* A send that is over keeps what is said of its call.
LEMMA NoticeGoesOn ==
  ASSUME PolicyInv, [Next]_vars, NEW n \in Notices, NEW c, NEW ok \in BOOLEAN,
         notices[n].pc \in {"lookup", "publish"},
         notices' = [notices EXCEPT ![n] = NoticeAfter(notices[n], c, ok)]
  PROVE  NoticesFollowSessions'
<1> DEFINE old == notices[n]
           new == NoticeAfter(old, c, ok)
<1>1. old \in Notice
  BY DEF PolicyInv, TypeOK
<1>2. /\ new \in Notice
      /\ new.pc # "publish"
      /\ new.broadcast = old.broadcast
      /\ new.todo \subseteq old.todo
  BY <1>1, NoticeAfterFollows
<1>3. old.pc \in {"lookup", "publish"} /\ old.broadcast =>
        \A d \in old.todo : SentInitialized(d)
  BY DEF PolicyInv, NoticesFollowSessions
<1>4. old.pc \in {"lookup", "publish"} /\ notices' = [notices EXCEPT ![n] = new]
  OBVIOUS
<1> HIDE DEF old, new
<1>5. QED
  BY <1>2, <1>3, <1>4, OneNotice

LEMMA NoticePolicy ==
  ASSUME PolicyInv, [Next]_vars, NEW n \in Notices,
         \/ \E c \in Clients, e \in EventIds \cup {None} : Notify(n, c, e)
         \/ Broadcast(n)
         \/ \E c \in Clients : LookUpTarget(n, c)
         \/ \E ok, reached \in BOOLEAN : PublishNotice(n, ok, reached)
         \/ DropNotice(n)
  PROVE  NoticesFollowSessions'
<1> DEFINE old == notices[n]
<1>1. notices \in [Notices -> Notice] /\ old \in Notice
  BY DEF PolicyInv, TypeOK
<1>2. /\ old.pc = "publish" => Uses(old.target, old.encrypted) /\ old.target \in old.todo
      /\ old.pc \in {"lookup", "publish"} /\ old.broadcast =>
           \A c \in old.todo : SentInitialized(c)
  BY DEF PolicyInv, NoticesFollowSessions
<1>3. NoNotice \in Notice /\ NoNotice.broadcast = FALSE
  BY DEF NoNotice, Notice, NoticePc
<1>4. ASSUME NEW c \in Clients, NEW e \in EventIds \cup {None}, Notify(n, c, e)
      PROVE  NoticesFollowSessions'
  <2> DEFINE new == [NoNotice EXCEPT !.pc = "lookup", !.todo = {c}, !.event = e]
  <2>1. new \in Notice /\ new.pc = "lookup" /\ new.broadcast = FALSE
    BY <1>3 DEF Notice, NoticePc
  <2>2. notices' = [notices EXCEPT ![n] = new]
    BY <1>4 DEF Notify
  <2> HIDE DEF new
  <2>3. QED
    BY <2>1, <2>2, OneNotice
<1>5. CASE Broadcast(n)
  <2> DEFINE pc == IF Initialized = {} THEN "ok" ELSE "lookup"
             new == [NoNotice EXCEPT !.pc = pc, !.broadcast = TRUE, !.todo = Initialized]
  <2>1. pc \in NoticePc /\ pc # "publish"
    BY DEF NoticePc
  <2>2. Initialized \subseteq Clients
    BY DEF Initialized, Keys, PolicyInv, TypeOK, Map
  <2> HIDE DEF pc
  <2>3. new \in Notice /\ new.pc = pc /\ new.todo = Initialized
    BY <1>3, <2>1, <2>2 DEF Notice
  <2>4. notices' = [notices EXCEPT ![n] = new]
    BY <1>5 DEF Broadcast, pc
  <2>5. \A c \in Initialized : SentInitialized(c)
    BY DEF Initialized, PolicyInv, SessionsMatchOrigin
  <2> HIDE DEF new
  <2>6. QED
    BY <2>1, <2>3, <2>4, <2>5, OneNotice
<1>6. ASSUME NEW c \in Clients, LookUpTarget(n, c)
      PROVE  NoticesFollowSessions'
  <2>1. old.pc = "lookup" /\ c \in old.todo
    BY <1>6 DEF LookUpTarget
  <2>2. CASE c \in Keys(sessions)
    <3> DEFINE new == [old EXCEPT !.pc = "publish", !.target = c,
                                  !.encrypted = sessions[c].is_encrypted]
    <3>1. Uses(c, sessions[c].is_encrypted) /\ sessions[c] \in Session
      BY <2>2 DEF PolicyInv, SessionsMatchOrigin, TypeOK, Map, Keys
    <3>2. /\ new \in Notice /\ new.pc = "publish" /\ new.target = c
          /\ new.encrypted = sessions[c].is_encrypted
          /\ new.todo = old.todo /\ new.broadcast = old.broadcast
      BY <1>1, <3>1 DEF Notice, NoticePc, Session
    <3>3. notices' = [notices EXCEPT ![n] = new]
      BY <1>6, <2>2 DEF LookUpTarget
    <3> HIDE DEF new, old
    <3>4. QED
      BY <1>2, <2>1, <3>1, <3>2, <3>3, OneNotice
  <2>3. CASE c \notin Keys(sessions)
    <3>1. notices' = [notices EXCEPT ![n] = NoticeAfter(old, c, FALSE)]
      BY <1>6, <2>3 DEF LookUpTarget
    <3>2. QED
      BY <2>1, <3>1, NoticeGoesOn
  <2>4. QED
    BY <2>2, <2>3
<1>7. ASSUME NEW ok \in BOOLEAN, NEW reached \in BOOLEAN, PublishNotice(n, ok, reached)
      PROVE  NoticesFollowSessions'
  <2>1. /\ old.pc = "publish"
        /\ notices' = [notices EXCEPT ![n] = NoticeAfter(old, old.target, ok)]
    BY <1>7 DEF PublishNotice
  <2>2. QED
    BY <2>1, NoticeGoesOn
<1>8. CASE DropNotice(n)
  <2> DEFINE new == [old EXCEPT !.pc = "dropped"]
  <2>1. new \in Notice /\ new.pc = "dropped"
    BY <1>1 DEF Notice, NoticePc
  <2>2. notices' = [notices EXCEPT ![n] = new]
    BY <1>8 DEF DropNotice
  <2> HIDE DEF new
  <2>3. QED
    BY <2>1, <2>2, OneNotice
<1>9. QED
  BY <1>4, <1>5, <1>6, <1>7, <1>8

-----------------------------------------------------------------------------
(* What is published *)

\* An event in a form its target has used, and no broadcast to a client that
\* has not initialized, may be published.
LEMMA PublishFollows ==
  ASSUME PolicyInv, [Next]_vars, NEW p, NEW b \in BOOLEAN,
         published' \in {published, published \cup {p}},
         Uses(p.to, b),
         p.encrypted = ShouldEncrypt(EncryptionMode, FALSE, Wish(b)),
         p.kind = "broadcast" => SentInitialized(p.to)
  PROVE  PublishedFollows'
<1>1. /\ \A c, d : Uses(c, d) => Uses(c, d)'
      /\ \A c : SentInitialized(c) => SentInitialized(c)'
  BY UsesStay DEF PolicyInv
<1>2. /\ Uses(p.to, b)'
      /\ p.kind = "broadcast" => SentInitialized(p.to)'
  BY <1>1
<1>3. ASSUME NEW q \in published
      PROVE  /\ \E d \in BOOLEAN :
                  /\ Uses(q.to, d)'
                  /\ q.encrypted = ShouldEncrypt(EncryptionMode, FALSE, Wish(d))
             /\ q.kind = "broadcast" => SentInitialized(q.to)'
  <2>1. PICK d \in BOOLEAN :
          /\ Uses(q.to, d)
          /\ q.encrypted = ShouldEncrypt(EncryptionMode, FALSE, Wish(d))
    BY DEF PolicyInv, PublishedFollows
  <2>2. q.kind = "broadcast" => SentInitialized(q.to)
    BY DEF PolicyInv, PublishedFollows
  <2>3. QED
    BY <1>1, <2>1, <2>2
<1>4. QED
  BY <1>2, <1>3 DEF PublishedFollows

LEMMA PublishResponsePolicy ==
  ASSUME PolicyInv, [Next]_vars, NEW t \in Calls, NEW ok \in BOOLEAN,
         NEW reached \in BOOLEAN, PublishResponse(t, ok, reached)
  PROVE  PublishedFollows'
<1> DEFINE p == ResponseOf(calls[t])
           b == calls[t].encrypted
<1>1. b \in BOOLEAN
  BY DEF PolicyInv, TypeOK, Call
<1>2. /\ p.to = calls[t].client
      /\ p.kind = "response"
      /\ p.encrypted = ShouldEncrypt(EncryptionMode, FALSE, Wish(b))
  BY DEF ResponseOf
<1>3. Uses(calls[t].client, b)
  BY DEF PublishResponse, PolicyInv, CallsFollowSessions
<1>4. published' \in {published, published \cup {p}}
  BY DEF PublishResponse
<1> HIDE DEF p, b
<1>5. QED
  BY <1>1, <1>2, <1>3, <1>4, PublishFollows

LEMMA PublishNoticePolicy ==
  ASSUME PolicyInv, [Next]_vars, NEW n \in Notices, NEW ok \in BOOLEAN,
         NEW reached \in BOOLEAN, PublishNotice(n, ok, reached)
  PROVE  PublishedFollows'
<1> DEFINE p == NotificationOf(notices[n])
           b == notices[n].encrypted
<1>1. b \in BOOLEAN /\ notices[n].pc = "publish"
  BY DEF PublishNotice, PolicyInv, TypeOK, Notice
<1>2. /\ p.to = notices[n].target
      /\ p.kind = "broadcast" => notices[n].broadcast
      /\ p.encrypted = ShouldEncrypt(EncryptionMode, FALSE, Wish(b))
  BY DEF NotificationOf
<1>3. /\ Uses(notices[n].target, b)
      /\ notices[n].broadcast => SentInitialized(notices[n].target)
  BY <1>1 DEF PolicyInv, NoticesFollowSessions
<1>4. published' \in {published, published \cup {p}}
  BY DEF PublishNotice
<1> HIDE DEF p, b
<1>5. QED
  BY <1>1, <1>2, <1>3, <1>4, PublishFollows

-----------------------------------------------------------------------------

\* One step per action; what an action leaves alone is PolicyFrame's.
LEMMA NextPolicy == PolicyInv /\ [Next]_vars => PolicyInv'
<1> SUFFICES ASSUME PolicyInv, [Next]_vars
             PROVE  PolicyInv'
  OBVIOUS
<1>1. TypeOK' /\ Correlation'
  BY NextType, NextCorrelation DEF PolicyInv
<1> DEFINE Rest == /\ SessionsMatchOrigin /\ CallsFollowSessions
                   /\ NoticesFollowSessions /\ PublishedFollows
<1>2. ASSUME NEW r \in Readings, NEW ev \in Traffic[r], Track(r, ev)
      PROVE  Rest'
  <2>1. UNCHANGED <<calls, notices, published>>
    BY <1>2 DEF Track
  <2>2. QED
    BY <1>2, <2>1, TrackPolicy, PolicyFrame
<1>3. ASSUME NEW c \in Clients, BecomeIdle(c)
      PROVE  Rest'
  <2>1. UNCHANGED <<calls, notices, published>>
    BY <1>3 DEF BecomeIdle
  <2>2. QED
    BY <1>3, <2>1, IdlePolicy, PolicyFrame
<1>4. ASSUME CleanupSessions \/ ClearSessions
      PROVE  Rest'
  <2>1. UNCHANGED <<calls, notices, published>>
    BY <1>4 DEF CleanupSessions, ClearSessions
  <2>2. QED
    BY <1>4, <2>1, CleanupPolicy, PolicyFrame
<1>5. ASSUME NEW t \in Calls,
             \/ \E e \in EventIds : LookUpRoute(t, e)
             \/ LookUpSession(t) \/ Unroute(t) \/ DropCall(t)
      PROVE  Rest'
  <2>1. UNCHANGED <<sessions, notices, published>>
    BY <1>5 DEF LookUpRoute, LookUpSession, Unroute, DropCall
  <2>2. CallsFollowSessions'
    BY <1>5, CallPolicy
  <2>3. QED
    BY <2>1, <2>2, PolicyFrame
<1>6. ASSUME NEW t \in Calls, Untrack(t)
      PROVE  Rest'
  <2>1. UNCHANGED <<notices, published>>
    BY <1>6 DEF Untrack
  <2>2. SessionsMatchOrigin' /\ CallsFollowSessions'
    BY <1>6, UntrackPolicy, CallPolicy
  <2>3. QED
    BY <2>1, <2>2, PolicyFrame
<1>7. ASSUME NEW t \in Calls, NEW ok \in BOOLEAN, NEW reached \in BOOLEAN,
             PublishResponse(t, ok, reached)
      PROVE  Rest'
  <2>1. UNCHANGED <<sessions, notices>>
    BY <1>7 DEF PublishResponse
  <2>2. CallsFollowSessions' /\ PublishedFollows'
    BY <1>7, CallPolicy, PublishResponsePolicy
  <2>3. QED
    BY <2>1, <2>2, PolicyFrame
<1>8. ASSUME NEW n \in Notices,
             \/ \E c \in Clients, e \in EventIds \cup {None} : Notify(n, c, e)
             \/ Broadcast(n)
             \/ \E c \in Clients : LookUpTarget(n, c)
             \/ DropNotice(n)
      PROVE  Rest'
  <2>1. UNCHANGED <<sessions, calls, published>>
    BY <1>8 DEF Notify, Broadcast, LookUpTarget, DropNotice
  <2>2. NoticesFollowSessions'
    BY <1>8, NoticePolicy
  <2>3. QED
    BY <2>1, <2>2, PolicyFrame
<1>9. ASSUME NEW n \in Notices, NEW ok \in BOOLEAN, NEW reached \in BOOLEAN,
             PublishNotice(n, ok, reached)
      PROVE  Rest'
  <2>1. UNCHANGED <<sessions, calls>>
    BY <1>9 DEF PublishNotice
  <2>2. NoticesFollowSessions' /\ PublishedFollows'
    BY <1>9, NoticePolicy, PublishNoticePolicy
  <2>3. QED
    BY <2>1, <2>2, PolicyFrame
<1>10. ASSUME UNCHANGED <<sessions, calls, notices, published>>
       PROVE  Rest'
  BY <1>10, PolicyFrame
<1> HIDE DEF Rest
<1>11. Rest'
  BY <1>2, <1>3, <1>4, <1>5, <1>6, <1>7, <1>8, <1>9, <1>10
     DEF Next, Read, OwnStep, CallStep, NoticeStep, vars, Discard, Forward,
         ClearRoutes
<1>12. QED
  BY <1>1, <1>11 DEF PolicyInv, Rest

LEMMA PolicyHolds == Spec => []PolicyInv
<1> QED
  BY InitPolicy, NextPolicy, PTL DEF Spec

\* Whatever the mode, whichever clients there are and however their sessions
\* expire and come back, what a server publishes obeys its mode, and in Optional
\* mode is in a form in which something was read in its client's name (should_encrypt
\* at src/transport/base.rs, called with the flag of the session).
THEOREM ModeIsKept == Spec => []EncryptionPolicyKept
<1>1. PolicyInv => EncryptionPolicyKept
  <2> SUFFICES ASSUME PolicyInv, NEW p \in published
               PROVE  CASE EncryptionMode = "Required" -> p.encrypted
                        [] EncryptionMode = "Disabled" -> ~p.encrypted
                        [] OTHER -> \E r \in Admitted :
                                      /\ origin[r].from = p.to
                                      /\ origin[r].wrapped = p.encrypted
    BY DEF EncryptionPolicyKept
  <2>1. PICK b \in BOOLEAN :
          /\ Uses(p.to, b)
          /\ p.encrypted = ShouldEncrypt(EncryptionMode, FALSE, Wish(b))
    BY DEF PolicyInv, PublishedFollows
  <2>2. EncryptionMode = "Optional" => p.encrypted = b
    BY <2>1 DEF ShouldEncrypt, Wish
  <2>3. QED
    BY <2>1, <2>2, ModeAssumption DEF ShouldEncrypt, Uses, EncryptionModes
<1>2. QED
  BY <1>1, PolicyHolds, PTL

\* A broadcast reaches only clients in whose name an initialized notification
\* was read, whatever happens to their sessions between the choice of the
\* clients and the publication (broadcast_notification, send_notification).
THEOREM OnlyInitializedAreBroadcastTo == Spec => []BroadcastOnlyToInitialized
<1>1. PolicyInv => BroadcastOnlyToInitialized
  BY DEF PolicyInv, PublishedFollows, BroadcastOnlyToInitialized
<1>2. QED
  BY <1>1, PolicyHolds, PTL

\* A client outside the allow list is answered only under the id of a request of
\* its own with a method exempt from it, and written to only if it has used one:
\* the session an exempt message gives it authorizes nothing more
\* (is_capability_excluded, event_loop).
THEOREM AllowListIsKept == Spec => []OutsidersAreConfined
<1>1. PolicyInv => OutsidersAreConfined
  <2> SUFFICES ASSUME PolicyInv, NEW p \in published,
                      AllowedKeys # {}, p.to \notin AllowedKeys
               PROVE  \E r \in Keys(origin) :
                        /\ origin[r].from = p.to
                        /\ IsCapabilityExcluded(origin[r].msg)
                        /\ p.kind = "response" =>
                             /\ origin[r].id = p.event
                             /\ origin[r].msg.kind = "request"
    BY DEF OutsidersAreConfined
  <2>1. \A r \in Admitted : /\ r \in Keys(origin)
                            /\ origin[r].from = p.to =>
                                 IsCapabilityExcluded(origin[r].msg)
    BY DEF Admitted, Admissible
  <2>2. CASE p.kind = "response"
    <3>1. PICK r \in Requests : origin[r].from = p.to /\ origin[r].id = p.event
      BY <2>2 DEF PolicyInv, Correlation, AnswersMatchRequests, Answers, Asked
    <3>2. QED
      BY <2>1, <3>1 DEF Requests
  <2>3. CASE p.kind # "response"
    <3>1. PICK r \in Admitted : origin[r].from = p.to
      BY DEF PolicyInv, PublishedFollows, Uses
    <3>2. QED
      BY <2>1, <2>3, <3>1
  <2>4. QED
    BY <2>2, <2>3
<1>2. QED
  BY <1>1, PolicyHolds, PTL

-----------------------------------------------------------------------------
(* What is answered stays answered *)

\* No session holds event e.
Untracked(e) == \A c \in Clients : ~Awaits(c, e)

\* A call that has removed its request finds no session that holds it, and one
\* that has returned finds it in neither map, unless its id was used again.
AnsweredIsSettled ==
  \A t \in Calls :
    /\ calls[t].pc = "unroute" => Untracked(calls[t].event) \/ UsedAgain(calls[t].event)
    /\ calls[t].pc = "ok" => Released(calls[t].event) \/ UsedAgain(calls[t].event)

\* Only the loop adds to the maps, and what it adds under an id that was asked
\* under before is its second use.
LEMMA SettledStays ==
  ASSUME TypeOK, [Next]_vars, NEW e \in EventIds, NEW a, Asked(a, e)
  PROVE  /\ UsedAgain(e) => UsedAgain(e)'
         /\ Untracked(e) => Untracked(e)' \/ UsedAgain(e)'
         /\ Released(e) => Released(e)' \/ UsedAgain(e)'
<1>1. /\ \A x \in Requests : x \in Requests' /\ origin'[x] = origin[x]
      /\ \A c : AsToken(c, e) => AsToken(c, e)'
  BY FactsStay
<1>2. UsedAgain(e) => UsedAgain(e)'
  BY <1>1 DEF UsedAgain
<1>3. ASSUME \A c \in Clients : Awaits(c, e)' => Awaits(c, e),
             e \in Keys(event_to_client') => e \in Keys(event_to_client)
      PROVE  /\ Untracked(e) => Untracked(e)'
             /\ Released(e) => Released(e)'
  BY <1>3 DEF Untracked, Released
<1>4. ASSUME NEW r \in Readings, NEW ev \in Traffic[r], Track(r, ev)
      PROVE  \/ UsedAgain(e)'
             \/ /\ \A c \in Clients : Awaits(c, e)' => Awaits(c, e)
                /\ e \in Keys(event_to_client') => e \in Keys(event_to_client)
  <2>1. CASE ev.msg.kind = "request" /\ ev.id = e
    <3>1. PICK x \in Requests : origin[x].id = e
      BY DEF Asked
    <3>2. x # r
      BY <1>4, <3>1 DEF Track, Requests, Admitted
    <3>3. r \in Requests' /\ origin'[r].id = e
      BY <1>4, <2>1, TrackFacts
    <3>4. QED
      BY <1>1, <3>1, <3>2, <3>3 DEF UsedAgain
  <2>2. CASE ev.msg.kind = "request" /\ ev.msg.token = e
    <3>1. ev.from \in Clients
      BY TrafficAssumption DEF Inbound
    <3>2. QED
      BY <1>4, <2>2, <3>1, TrackFacts DEF UsedAgain
  <2>3. CASE ~(ev.msg.kind = "request" /\ e \in {ev.id, ev.msg.token})
    <3>1. \A c \in Clients : Awaits(c, e)' => Awaits(c, e)
      BY <1>4, <2>3, TrackAwaits
    <3>2. event_to_client'[e] = event_to_client[e]
      BY <1>4, <2>3 DEF Track, Put, TypeOK, Map
    <3>3. DOMAIN event_to_client = EventIds
      BY DEF TypeOK, Map
    <3>4. QED
      BY <3>1, <3>2, <3>3 DEF Keys
  <2>4. QED
    BY <2>1, <2>2, <2>3
<1>5. ASSUME CleanupSessions
      PROVE  /\ \A c \in Clients : Awaits(c, e)' => Awaits(c, e)
             /\ e \in Keys(event_to_client') => e \in Keys(event_to_client)
  <2>1. \A c \in Clients : Awaits(c, e)' => Awaits(c, e)
    BY <1>5, CleanupTables DEF Awaits
  <2>2. QED
    BY <1>5, <2>1 DEF CleanupSessions, Without, Keys, TypeOK, Map
<1>6. ASSUME NEW c \in Clients, BecomeIdle(c)
      PROVE  /\ \A d \in Clients : Awaits(d, e)' => Awaits(d, e)
             /\ e \in Keys(event_to_client') => e \in Keys(event_to_client)
  <2>1. TablesKept
    BY <1>6, IdleTables
  <2>2. UNCHANGED event_to_client
    BY <1>6 DEF BecomeIdle
  <2>3. QED
    BY <2>1, <2>2 DEF TablesKept, Awaits
<1>7. ASSUME NEW t \in Calls, Untrack(t)
      PROVE  /\ \A c \in Clients : Awaits(c, e)' => Awaits(c, e)
             /\ e \in Keys(event_to_client') => e \in Keys(event_to_client)
  <2>1. PICK client \in Clients, x \in EventIds :
          calls[t].client = client /\ calls[t].event = x
    BY <1>7 DEF Untrack, TypeOK, CallsHaveTargets
  <2>2. /\ \A c \in Clients \ {client} : Pending(c)' = Pending(c)
        /\ \A k \in EventIds \cup Tokens : Pending(client)'[k] \in {None, Pending(client)[k]}
    BY <1>7, <2>1, UntrackTables
  <2>3. DOMAIN Pending(client) = EventIds \cup Tokens
    BY TableTypes
  <2>4. UNCHANGED event_to_client
    BY <1>7 DEF Untrack
  <2>5. QED
    BY <2>2, <2>3, <2>4 DEF Awaits, Keys
<1>8. ASSUME NEW t \in Calls, Unroute(t)
      PROVE  /\ \A c \in Clients : Awaits(c, e)' => Awaits(c, e)
             /\ e \in Keys(event_to_client') => e \in Keys(event_to_client)
  <2>1. TablesKept
    BY <1>8, SessionsKept DEF Unroute
  <2>2. e \in Keys(event_to_client') => e \in Keys(event_to_client)
    BY <1>8 DEF Unroute, Without, Keys
  <2>3. QED
    BY <2>1, <2>2 DEF TablesKept, Awaits
<1>9. ASSUME ClearSessions \/ ClearRoutes
      PROVE  /\ \A c \in Clients : Awaits(c, e)' => Awaits(c, e)
             /\ e \in Keys(event_to_client') => e \in Keys(event_to_client)
  <2>1. CASE ClearSessions
    BY <2>1 DEF ClearSessions, EmptyMap, Keys, Awaits, Pending
  <2>2. CASE ClearRoutes
    <3>1. TablesKept
      BY <2>2, SessionsKept DEF ClearRoutes
    <3>2. QED
      BY <2>2, <3>1 DEF ClearRoutes, EmptyMap, Keys, Awaits, TablesKept
  <2>3. QED
    BY <1>9, <2>1, <2>2
<1>10. ASSUME UNCHANGED <<sessions, event_to_client>>
       PROVE  /\ \A c \in Clients : Awaits(c, e)' => Awaits(c, e)
              /\ e \in Keys(event_to_client') => e \in Keys(event_to_client)
  BY <1>10, SessionsKept DEF TablesKept, Awaits
<1>11. QED
  BY <1>2, <1>3, <1>4, <1>5, <1>6, <1>7, <1>8, <1>9, <1>10
     DEF Next, Read, OwnStep, CallStep, NoticeStep, vars, Discard, Forward,
         LookUpRoute, LookUpSession, PublishResponse, DropCall, Notify, Broadcast,
         LookUpTarget, PublishNotice, DropNotice

\* The client of a call that has published asked under its event's id.
LEMMA AnsweredWasAsked ==
  ASSUME TypeOK, Correlation, NEW t \in Calls, calls[t].pc \in {"untrack", "unroute", "ok"}
  PROVE  \E a \in Clients, e \in EventIds : calls[t].event = e /\ Asked(a, e)
<1>1. PICK p \in Answers : p.event = calls[t].event
  BY DEF Correlation, CallsMatchOrigin
<1>2. Asked(p.to, p.event)
  BY DEF Correlation, AnswersMatchRequests
<1>3. p.to \in Clients /\ p.event \in EventIds
  BY DEF Answers, TypeOK, Responses, Notifications
<1>4. QED
  BY <1>1, <1>2, <1>3

LEMMA NextSettled ==
  TypeOK /\ Correlation /\ AnsweredIsSettled /\ [Next]_vars => AnsweredIsSettled'
<1> SUFFICES ASSUME TypeOK, Correlation, AnsweredIsSettled, [Next]_vars
             PROVE  AnsweredIsSettled'
  OBVIOUS
<1> DEFINE Kept(t) == calls'[t].pc \in {"unroute", "ok"} =>
                        calls'[t].pc = calls[t].pc /\ calls'[t].event = calls[t].event
\* A call that stays at its place stays settled.
<1>1. ASSUME NEW t \in Calls, Kept(t)
      PROVE  /\ calls'[t].pc = "unroute" =>
                  Untracked(calls[t].event)' \/ UsedAgain(calls[t].event)'
             /\ calls'[t].pc = "ok" =>
                  Released(calls[t].event)' \/ UsedAgain(calls[t].event)'
  <2> SUFFICES ASSUME calls'[t].pc \in {"unroute", "ok"}
               PROVE  /\ calls'[t].pc = "unroute" =>
                           Untracked(calls[t].event)' \/ UsedAgain(calls[t].event)'
                      /\ calls'[t].pc = "ok" =>
                           Released(calls[t].event)' \/ UsedAgain(calls[t].event)'
    OBVIOUS
  <2>1. calls[t].pc = calls'[t].pc /\ calls[t].event = calls'[t].event
    BY <1>1
  <2>2. PICK a \in Clients, e \in EventIds : calls[t].event = e /\ Asked(a, e)
    BY <2>1, AnsweredWasAsked
  <2>3. /\ calls[t].pc = "unroute" => Untracked(e) \/ UsedAgain(e)
        /\ calls[t].pc = "ok" => Released(e) \/ UsedAgain(e)
    BY <2>2 DEF AnsweredIsSettled
  <2>4. /\ UsedAgain(e) => UsedAgain(e)'
        /\ Untracked(e) => Untracked(e)' \/ UsedAgain(e)'
        /\ Released(e) => Released(e)' \/ UsedAgain(e)'
    BY <2>2, SettledStays
  <2>5. calls'[t].event = e
    BY <2>1, <2>2
  <2>6. QED
    BY <2>1, <2>3, <2>4, <2>5 DEF Untracked, Released, UsedAgain, Awaits
<1> HIDE DEF Kept
<1>2. ASSUME \A t \in Calls : Kept(t)
      PROVE  AnsweredIsSettled'
  BY <1>1, <1>2 DEF AnsweredIsSettled
<1>3. ASSUME NEW t \in Calls, Untrack(t)
      PROVE  AnsweredIsSettled'
  <2>1. PICK client \in Clients, e \in EventIds :
          calls[t].client = client /\ calls[t].event = e
    BY <1>3 DEF Untrack, TypeOK, CallsHaveTargets
  <2>2. /\ calls'[t].event = e /\ calls'[t].pc = "unroute" /\ calls[t].pc = "untrack"
        /\ \A u \in Calls \ {t} : calls'[u] = calls[u]
        /\ UNCHANGED origin
    BY <1>3, <2>1 DEF Untrack, TypeOK, Call
  <2>3. Asked(client, e)
    BY <2>1, <2>2 DEF Correlation, CallsMatchOrigin
  <2>4. DOMAIN Pending(client)' = EventIds \cup Tokens
    BY NextType, TablesStayTyped DEF TablesTyped
  <2>5. ~Awaits(client, e)'
    BY <1>3, <2>1, <2>4, UntrackTables DEF Awaits, Keys
  <2>6. ASSUME NEW d \in Clients, Awaits(d, e)'
        PROVE  UsedAgain(e)'
    <3>1. d # client /\ Awaits(d, e)
      BY <1>3, <2>1, <2>5, <2>6, UntrackTables DEF Awaits
    <3>2. Asked(d, e) \/ AsToken(d, e)
      BY <3>1, KeysAreUsed DEF Correlation, Awaits
    <3>3. Requests' = Requests
      BY <2>2 DEF Requests, Admitted
    <3>4. QED
      BY <2>2, <2>3, <3>1, <3>2, <3>3 DEF UsedAgain, Asked, AsToken
  <2>7. Untracked(e)' \/ UsedAgain(e)'
    BY <2>6 DEF Untracked
  <2>8. \A u \in Calls \ {t} : Kept(u)
    BY <2>2 DEF Kept
  <2>9. /\ calls'[t].pc = "unroute"
        /\ Untracked(calls[t].event)' \/ UsedAgain(calls[t].event)'
    BY <2>2, <2>7 DEF Untracked, UsedAgain, Awaits
  <2>10. QED
    BY <1>1, <2>8, <2>9 DEF AnsweredIsSettled
<1>4. ASSUME NEW t \in Calls, Unroute(t)
      PROVE  AnsweredIsSettled'
  <2>1. PICK a \in Clients, e \in EventIds : calls[t].event = e /\ Asked(a, e)
    BY <1>4, AnsweredWasAsked DEF Unroute
  <2>2. /\ calls'[t].event = e /\ calls'[t].pc = "ok" /\ calls[t].pc = "unroute"
        /\ \A u \in Calls \ {t} : calls'[u] = calls[u]
        /\ UNCHANGED sessions
        /\ e \notin Keys(event_to_client')
    BY <1>4, <2>1 DEF Unroute, TypeOK, Call, Map, Without, Keys
  <2>3. Untracked(e) \/ UsedAgain(e)
    BY <2>1, <2>2 DEF AnsweredIsSettled
  <2>4. Untracked(e)' \/ UsedAgain(e)'
    BY <2>1, <2>3, SettledStays
  <2>5. Released(e)' \/ UsedAgain(e)'
    BY <2>2, <2>4 DEF Released, Untracked
  <2>6. \A u \in Calls \ {t} : Kept(u)
    BY <2>2 DEF Kept
  <2>7. /\ calls'[t].pc = "ok"
        /\ Released(calls[t].event)' \/ UsedAgain(calls[t].event)'
    BY <2>2, <2>5 DEF Released, UsedAgain, Awaits
  <2>8. QED
    BY <1>1, <2>6, <2>7 DEF AnsweredIsSettled
<1>5. ASSUME NEW t \in Calls, NEW e \in EventIds, LookUpRoute(t, e)
      PROVE  \A u \in Calls : Kept(u)
  BY <1>5 DEF LookUpRoute, TypeOK, NoCall, Kept
<1>6. ASSUME NEW t \in Calls, LookUpSession(t)
      PROVE  \A u \in Calls : Kept(u)
  <2>1. calls'[t].pc \in {"publish", "err"}
    <3>1. CASE calls[t].client \in Keys(sessions)
      BY <1>6, <3>1 DEF LookUpSession, TypeOK, Call
    <3>2. CASE calls[t].client \notin Keys(sessions)
      BY <1>6, <3>2 DEF LookUpSession, TypeOK, Call
    <3>3. QED
      BY <3>1, <3>2
  <2>2. \A u \in Calls \ {t} : calls'[u] = calls[u]
    BY <1>6 DEF LookUpSession, TypeOK
  <2>3. QED
    BY <2>1, <2>2 DEF Kept
<1>7. ASSUME NEW t \in Calls, NEW ok \in BOOLEAN, NEW reached \in BOOLEAN,
             PublishResponse(t, ok, reached)
      PROVE  \A u \in Calls : Kept(u)
  BY <1>7 DEF PublishResponse, TypeOK, Call, Kept
<1>8. ASSUME NEW t \in Calls, DropCall(t)
      PROVE  \A u \in Calls : Kept(u)
  BY <1>8 DEF DropCall, TypeOK, Call, Kept
<1>9. ASSUME UNCHANGED calls
      PROVE  \A u \in Calls : Kept(u)
  BY <1>9 DEF Kept
<1>10. QED
  BY <1>2, <1>3, <1>4, <1>5, <1>6, <1>7, <1>8, <1>9
     DEF Next, Read, OwnStep, CallStep, NoticeStep, vars, Discard, Track, Forward,
         BecomeIdle, CleanupSessions, Notify, Broadcast, LookUpTarget, PublishNotice,
         DropNotice, ClearSessions, ClearRoutes

\* Of a request whose send_response has returned, nothing is left in either map,
\* and no later call finds a route to it, until its id is used again: what the
\* liveness property AnsweredIsReleased says must come about, no other call, no
\* expiry and no other event undoes (send_response, event_loop,
\* cleanup_sessions).
THEOREM AnswersAreFinal == Spec => []AnsweredIsSettled
<1>1. Init => TypeOK /\ Correlation /\ AnsweredIsSettled
  BY InitType, InitCorrelation DEF Init, AnsweredIsSettled, NoCall
<1>2. TypeOK /\ Correlation /\ AnsweredIsSettled /\ [Next]_vars
        => TypeOK' /\ Correlation' /\ AnsweredIsSettled'
  BY NextType, NextCorrelation, NextSettled
<1>3. QED
  BY <1>1, <1>2, PTL DEF Spec

-----------------------------------------------------------------------------
(* What a client may rely on, whatever it and others send                    *)

\* What is published stays so, and only the loop adds to the history.
LEMMA OwnStepKeeps ==
  ASSUME OwnStep
  PROVE  origin' = origin /\ published \subseteq published'
BY DEF OwnStep, Forward, BecomeIdle, CleanupSessions, LookUpRoute, CallStep,
   LookUpSession, PublishResponse, Untrack, Unroute, DropCall, Notify, Broadcast,
   NoticeStep, LookUpTarget, PublishNotice, DropNotice, ClearSessions, ClearRoutes

LEMMA ReadKeeps ==
  ASSUME NEW r, NEW ev, Read(r, ev)
  PROVE  r \notin Keys(origin) /\ origin' = Put(origin, r, ev) /\ published' = published
BY DEF Read, Discard, Track

\* Every publication is in the form the mode gives an event read in its client's
\* name, one of those the mode lets through; a response is under an id the client
\* asked under, with an id of its own; and an answer that was sent is published.
LEMMA ServerFacts ==
  ASSUME PolicyInv
  PROVE  /\ origin \in Map(Readings, Inbound)
         /\ published \subseteq Responses \cup Notifications
         /\ \A p \in published :
              /\ p.event \in EventIds \cup {None} /\ p.encrypted \in BOOLEAN
              /\ \E r \in Keys(origin) :
                   /\ origin[r].from = p.to
                   /\ EncryptionMode # (IF origin[r].wrapped THEN "Disabled" ELSE "Required")
                   /\ p.encrypted
                        = ShouldEncrypt(EncryptionMode, FALSE, Wish(origin[r].wrapped))
              /\ p.kind = "response" =>
                   /\ \E r \in Keys(origin) : /\ origin[r].from = p.to
                                              /\ origin[r].id = p.event
                                              /\ origin[r].msg.kind = "request"
                   /\ \/ p.id = AppId
                      \/ \E r \in Keys(origin) :
                           /\ origin[r].from = p.to
                           /\ \/ /\ origin[r].id = p.event
                                 /\ origin[r].msg.kind = "request"
                                 /\ origin[r].msg.id = p.id
                              \/ origin[r].msg.token = p.event
         /\ \A t \in Calls : calls[t].pc = "ok" =>
              \E p \in published : p.kind = "response" /\ p.event = calls[t].event
<1>1. origin \in Map(Readings, Inbound) /\ published \subseteq Responses \cup Notifications
  BY DEF PolicyInv, TypeOK
<1>2. ASSUME NEW p \in published
      PROVE  /\ p.event \in EventIds \cup {None} /\ p.encrypted \in BOOLEAN
             /\ \E r \in Keys(origin) :
                  /\ origin[r].from = p.to
                  /\ EncryptionMode # (IF origin[r].wrapped THEN "Disabled" ELSE "Required")
                  /\ p.encrypted
                       = ShouldEncrypt(EncryptionMode, FALSE, Wish(origin[r].wrapped))
  <2>1. p.event \in EventIds \cup {None} /\ p.encrypted \in BOOLEAN
    BY <1>1 DEF Responses, Notifications
  <2>2. PICK b \in BOOLEAN : /\ Uses(p.to, b)
                             /\ p.encrypted = ShouldEncrypt(EncryptionMode, FALSE, Wish(b))
    BY DEF PolicyInv, PublishedFollows
  <2>3. PICK r \in Admitted : origin[r].from = p.to /\ origin[r].wrapped = b
    BY <2>2 DEF Uses
  <2>4. r \in Keys(origin) /\ Admissible(origin[r])
    BY DEF Admitted
  <2>5. EncryptionMode # (IF origin[r].wrapped THEN "Disabled" ELSE "Required")
    BY <2>4 DEF Admissible
  <2>6. QED
    BY <2>1, <2>2, <2>3, <2>4, <2>5
<1>3. ASSUME NEW p \in published, p.kind = "response"
      PROVE  /\ \E r \in Keys(origin) : /\ origin[r].from = p.to
                                        /\ origin[r].id = p.event
                                        /\ origin[r].msg.kind = "request"
             /\ \/ p.id = AppId
                \/ \E r \in Keys(origin) :
                     /\ origin[r].from = p.to
                     /\ \/ /\ origin[r].id = p.event
                           /\ origin[r].msg.kind = "request"
                           /\ origin[r].msg.id = p.id
                        \/ origin[r].msg.token = p.event
  <2>1. Asked(p.to, p.event) /\ (p.id = AppId \/ IdFor(p.to, p.event, p.id))
    BY <1>3 DEF PolicyInv, Correlation, AnswersMatchRequests, Answers
  <2>2. \A r \in Requests : r \in Keys(origin) /\ origin[r].msg.kind = "request"
    BY DEF Requests, Admitted
  <2>3. QED
    BY <2>1, <2>2 DEF Asked, IdFor
<1>4. \A t \in Calls : calls[t].pc = "ok" =>
        \E p \in published : p.kind = "response" /\ p.event = calls[t].event
  BY DEF PolicyInv, Correlation, CallsMatchOrigin, Answers
<1>5. QED
  BY <1>1, <1>2, <1>3, <1>4
=============================================================================
