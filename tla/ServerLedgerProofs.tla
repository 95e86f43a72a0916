-------------------------- MODULE ServerLedgerProofs --------------------------
(***************************************************************************)
(* ServerTransport implements RequestLedger for every value of the         *)
(* constants, checked by TLAPS.                                            *)
(***************************************************************************)
EXTENDS ServerLedger, ServerTransportProofs

\* What the refinement rests on.
LedgerInv == TypeOK /\ Correlation

LEMMA InitLedgerInv == Init => LedgerInv
BY InitType, InitCorrelation DEF LedgerInv

LEMMA NextLedgerInv == LedgerInv /\ [Next]_vars => LedgerInv'
BY NextType, NextCorrelation DEF LedgerInv

-----------------------------------------------------------------------------
(* The initial states and the steps *)

LEMMA InitRefines == Init => Ledger!Init
BY DEF Init, Ledger!Init, ledgerAsked, ledgerBorrowed, ledgerAnswers, Requests,
   Admitted, Answers, EmptyMap, Keys

\* The ledger's view of who asked and who borrowed, in the transport's terms.
LEMMA AskedAndBorrowed ==
  ASSUME TypeOK
  PROVE  \A e \in EventIds, c \in Clients :
           /\ <<e, c>> \in ledgerAsked <=> Asked(c, e)
           /\ <<e, c>> \in ledgerBorrowed <=> AsToken(c, e)
BY DEF ledgerAsked, ledgerBorrowed, Asked, AsToken

\* What the ledger sees changes only with the history, the routes, the answers
\* or close.
LEMMA NothingToSee ==
  ASSUME UNCHANGED <<origin, event_to_client, phase>>, UNCHANGED Answers
  PROVE  UNCHANGED Ledger!vars
<1>1. UNCHANGED Requests
  BY DEF Requests, Admitted, Keys
<1>2. UNCHANGED <<ledgerAsked, ledgerBorrowed, ledgerAnswers>>
  BY <1>1 DEF ledgerAsked, ledgerBorrowed, ledgerAnswers
<1>3. QED
  BY <1>2 DEF Ledger!vars

\* The same of the history alone.
LEMMA SameHistory ==
  ASSUME UNCHANGED <<origin, published>>
  PROVE  UNCHANGED <<ledgerAsked, ledgerBorrowed, ledgerAnswers>>
<1>1. UNCHANGED <<Requests, Answers>>
  BY DEF Requests, Admitted, Keys, Answers
<1>2. QED
  BY <1>1 DEF ledgerAsked, ledgerBorrowed, ledgerAnswers

\* Reading an event opens a request, or nothing.
LEMMA ReadRefines ==
  ASSUME LedgerInv, NEW r \in Readings, NEW ev \in Traffic[r],
         Discard(r, ev) \/ Track(r, ev)
  PROVE  Ledger!Next \/ UNCHANGED Ledger!vars
<1>1. /\ TypeOK
      /\ r \notin Keys(origin)
      /\ origin' = Put(origin, r, ev)
      /\ ev.from \in Clients /\ ev.id \in EventIds
      /\ ev # None
      /\ UNCHANGED <<published, phase>>
  BY TrafficAssumption, NoneAssumption DEF LedgerInv, Discard, Track, Inbound
<1>2. UNCHANGED ledgerAnswers
  BY <1>1 DEF ledgerAnswers, Answers
<1>3. \A q \in Requests : q # r /\ q \in Requests' /\ origin'[q] = origin[q]
  BY <1>1 DEF Requests, Admitted, Keys, Put, TypeOK, Map
<1>4. \A q \in Requests' : q # r => q \in Requests /\ origin'[q] = origin[q]
  BY <1>1 DEF Requests, Admitted, Keys, Put, TypeOK, Map
<1>5. origin'[r] = ev /\ r \in Keys(origin')
  BY <1>1 DEF Put, Keys, TypeOK, Map
<1>6. CASE Track(r, ev) /\ ev.msg.kind = "request"
  <2> DEFINE B == {ev.msg.token} \cap EventIds
  <2>1. r \in Requests'
    BY <1>5, <1>6 DEF Requests, Admitted, Track
  <2>2. Requests' = Requests \cup {r}
    BY <1>3, <1>4, <2>1
  <2>3. ledgerAsked' = ledgerAsked \cup {<<ev.id, ev.from>>}
    BY <1>3, <1>5, <2>2 DEF ledgerAsked
  <2>4. ledgerBorrowed' = ledgerBorrowed \cup {<<b, ev.from>> : b \in B}
    <3>1. \A x : x \in ledgerBorrowed' <=>
                   /\ x \in EventIds \X Clients
                   /\ \/ \E q \in Requests : x = <<origin[q].msg.token, origin[q].from>>
                      \/ x = <<ev.msg.token, ev.from>>
      BY <1>3, <1>5, <2>2 DEF ledgerBorrowed
    <3>2. \A x : x \in {<<b, ev.from>> : b \in B} <=>
                   x \in EventIds \X Clients /\ x = <<ev.msg.token, ev.from>>
      BY <1>1
    <3>3. QED
      BY <3>1, <3>2 DEF ledgerBorrowed
  <2>5. event_to_client' = [event_to_client EXCEPT ![ev.id] = ev.from]
    BY <1>6 DEF Track, Put
  <2>6. Ledger!Open(ev.id, ev.from, B)
    BY <1>1, <1>2, <2>3, <2>4, <2>5 DEF Ledger!Open
  <2>7. B \in SUBSET EventIds
    OBVIOUS
  <2> HIDE DEF B
  <2>8. QED
    BY <1>1, <2>6, <2>7 DEF Ledger!Next
<1>7. CASE Discard(r, ev) \/ ev.msg.kind # "request"
  <2>1. r \notin Requests'
    <3>1. CASE Discard(r, ev)
      BY <1>5, <3>1 DEF Requests, Admitted, Discard, Admissible, Keys
    <3>2. CASE ev.msg.kind # "request"
      BY <1>5, <3>2 DEF Requests
    <3>3. QED
      BY <1>7, <3>1, <3>2
  <2>2. Requests' = Requests /\ \A q \in Requests : origin'[q] = origin[q]
    BY <1>3, <1>4, <2>1
  <2>3. UNCHANGED <<ledgerAsked, ledgerBorrowed>>
    BY <2>2 DEF ledgerAsked, ledgerBorrowed
  <2>4. UNCHANGED event_to_client
    BY <1>7 DEF Discard, Track
  <2>5. QED
    BY <1>1, <1>2, <2>3, <2>4 DEF Ledger!vars
<1>8. QED
  BY <1>6, <1>7

\* Cleanup gives up the clients whose sessions expired: what is still owed to them
\* goes with the session, and nothing goes that they have never used.
LEMMA CleanupRefines ==
  ASSUME LedgerInv, CleanupSessions
  PROVE  Ledger!Next
<1> DEFINE R == EventIds \cap UNION {SessionKeys(c) : c \in Expired}
<1>1. TypeOK /\ Correlation
  BY DEF LedgerInv
<1>2. UNCHANGED <<ledgerAsked, ledgerBorrowed, ledgerAnswers, phase>>
  BY SameHistory DEF CleanupSessions
<1>3. Expired \subseteq Clients /\ Expired \subseteq Keys(sessions)
  BY <1>1 DEF TypeOK, Map, Keys, Expired
<1>4. event_to_client' = [e \in EventIds |-> IF e \in R THEN None ELSE event_to_client[e]]
  BY <1>1 DEF CleanupSessions, Without, TypeOK, Map
<1>5. ASSUME NEW e \in R
      PROVE  \E c \in Expired : <<e, c>> \in ledgerAsked \cup ledgerBorrowed
  <2>1. PICK c \in Expired : e \in SessionKeys(c)
    BY <1>5
  <2>2. c \in Clients /\ e \in EventIds /\ c \in Keys(sessions)
    BY <1>3, <2>1
  <2>3. Asked(c, e) \/ AsToken(c, e)
    BY <1>1, <2>1, <2>2, KeysOfTables, KeysAreUsed DEF Correlation
  <2>4. QED
    BY <1>1, <2>1, <2>2, <2>3, AskedAndBorrowed
<1>6. ASSUME phase = "open", NEW e \in EventIds, NEW c \in Expired, Ledger!IsOwed(e, c)
      PROVE  e \in R
  <2>1. /\ event_to_client[e] = c
        /\ <<e, c>> \notin ledgerAnswers
        /\ c \in Clients
        /\ ~AsToken(c, e)
    BY <1>1, <1>3, <1>6, AskedAndBorrowed DEF Ledger!IsOwed
  <2>2. ASSUME NEW t \in Calls, calls[t].pc = "unroute", calls[t].event = e,
               calls[t].client = c
        PROVE  FALSE
    <3>1. PICK p \in Answers : p.event = e /\ p.to = c
      BY <1>1, <2>2 DEF Correlation, CallsMatchOrigin
    <3>2. QED
      BY <2>1, <3>1 DEF ledgerAnswers
  <2>3. Awaits(c, e)
    BY <1>1, <1>6, <2>1, <2>2 DEF Correlation, RoutesAreBacked
  <2>4. QED
    BY <1>3, <2>3, KeysOfTables DEF Awaits
<1>7. Ledger!GiveUp(Expired)
  <2> HIDE DEF R
  <2>1. R \in SUBSET EventIds
    BY DEF R
  <2>2. ~(phase # "open") =>
          /\ \A e \in R : \E c \in Expired : <<e, c>> \in ledgerAsked \cup ledgerBorrowed
          /\ \A e \in EventIds, c \in Expired : Ledger!IsOwed(e, c) => e \in R
    BY <1>5, <1>6
  <2>3. QED
    BY <1>2, <1>4, <2>1, <2>2 DEF Ledger!GiveUp
<1>8. QED
  BY <1>3, <1>7 DEF Ledger!Next

\* A publication answers a client that asked under the event, or fails unseen.
LEMMA PublishRefines ==
  ASSUME LedgerInv, NEW t \in Calls, NEW ok \in BOOLEAN, NEW reached \in BOOLEAN,
         PublishResponse(t, ok, reached)
  PROVE  Ledger!Next \/ UNCHANGED Ledger!vars
<1> DEFINE e == calls[t].event
           c == calls[t].client
<1>1. TypeOK /\ Correlation
  BY DEF LedgerInv
<1>2. e \in EventIds /\ c \in Clients /\ Asked(c, e)
  BY <1>1 DEF PublishResponse, Correlation, CallsMatchOrigin, TypeOK, CallsHaveTargets
<1>3. <<e, c>> \in ledgerAsked
  BY <1>1, <1>2, AskedAndBorrowed
<1>4. UNCHANGED <<origin, event_to_client, phase>>
  BY DEF PublishResponse
<1>5. UNCHANGED <<ledgerAsked, ledgerBorrowed>>
  BY <1>4 DEF ledgerAsked, ledgerBorrowed, Requests, Admitted, Keys
<1>6. CASE reached
  <2>1. /\ ResponseOf(calls[t]).kind = "response"
        /\ ResponseOf(calls[t]).event = e
        /\ ResponseOf(calls[t]).to = c
    BY DEF ResponseOf
  <2>2. Answers' = Answers \cup {ResponseOf(calls[t])}
    BY <1>6, <2>1 DEF PublishResponse, Answers
  <2>3. ledgerAnswers' = ledgerAnswers \cup {<<e, c>>}
    BY <2>1, <2>2 DEF ledgerAnswers
  <2>4. Ledger!Answer(e, c)
    BY <1>3, <1>4, <1>5, <2>3 DEF Ledger!Answer
  <2>5. QED
    BY <1>2, <2>4 DEF Ledger!Next
<1>7. CASE ~reached
  BY <1>4, <1>7, NothingToSee DEF PublishResponse, Answers
<1>8. QED
  BY <1>6, <1>7

\* The last step of send_response closes the request it answered.
LEMMA UnrouteRefines ==
  ASSUME LedgerInv, NEW t \in Calls, Unroute(t)
  PROVE  Ledger!Next
<1> DEFINE e == calls[t].event
           c == calls[t].client
<1>1. TypeOK /\ Correlation
  BY DEF LedgerInv
<1>2. calls[t].pc = "unroute" /\ e \in EventIds /\ c \in Clients
  BY <1>1 DEF Unroute, TypeOK, CallsHaveTargets
<1>3. UNCHANGED <<ledgerAsked, ledgerBorrowed, ledgerAnswers, phase>>
  BY SameHistory DEF Unroute
<1>4. event_to_client' = [event_to_client EXCEPT ![e] = None]
  BY <1>1, <1>2 DEF Unroute, Without, TypeOK, Map
<1>5. PICK p \in Answers : p.event = e /\ p.to = c
  BY <1>1, <1>2 DEF Correlation, CallsMatchOrigin
<1>6. <<e, c>> \in ledgerAnswers
  BY <1>5 DEF ledgerAnswers
<1>7. Ledger!Close(e)
  BY <1>2, <1>3, <1>4, <1>6 DEF Ledger!Close
<1>8. QED
  BY <1>2, <1>7 DEF Ledger!Next

\* A notification is no answer.
LEMMA NoticeRefines ==
  ASSUME NEW n \in Notices, NEW ok \in BOOLEAN, NEW reached \in BOOLEAN,
         PublishNotice(n, ok, reached)
  PROVE  UNCHANGED Ledger!vars
<1>1. NotificationOf(notices[n]).kind # "response"
  BY DEF NotificationOf
<1>2. UNCHANGED Answers
  BY <1>1 DEF PublishNotice, Answers
<1>3. QED
  BY <1>2, NothingToSee DEF PublishNotice

\* close shuts the ledger down, and only then closes what is left.
LEMMA CloseRefines ==
  ASSUME LedgerInv, ClearSessions \/ ClearRoutes
  PROVE  Ledger!Next
<1>1. UNCHANGED <<ledgerAsked, ledgerBorrowed, ledgerAnswers>>
  BY SameHistory DEF ClearSessions, ClearRoutes
<1>2. CASE ClearSessions
  <2>1. Ledger!ShutDown
    BY <1>1, <1>2 DEF ClearSessions, Ledger!ShutDown
  <2>2. QED
    BY <2>1 DEF Ledger!Next
<1>3. CASE ClearRoutes
  <2>1. event_to_client' = [e \in EventIds |->
                              IF e \in EventIds THEN None ELSE event_to_client[e]]
    BY <1>3 DEF ClearRoutes, EmptyMap
  <2>2. phase # "open" /\ phase' # "open"
    BY <1>3 DEF ClearRoutes
  <2>3. Ledger!GiveUp(Clients)
    <3>1. EventIds \in SUBSET EventIds
      OBVIOUS
    <3>2. QED
      BY <1>1, <2>1, <2>2, <3>1 DEF Ledger!GiveUp
  <2>4. QED
    BY <2>3 DEF Ledger!Next
<1>4. QED
  BY <1>2, <1>3

\* Every step of the transport is a step of the ledger, or unseen.
LEMMA NextRefines == LedgerInv /\ [Next]_vars => [Ledger!Next]_(Ledger!vars)
<1> SUFFICES ASSUME LedgerInv, [Next]_vars
             PROVE  Ledger!Next \/ UNCHANGED Ledger!vars
  OBVIOUS
<1>1. ASSUME UNCHANGED <<origin, event_to_client, phase, published>>
      PROVE  UNCHANGED Ledger!vars
  BY <1>1, NothingToSee DEF Answers
<1>2. QED
  BY <1>1, ReadRefines, CleanupRefines, PublishRefines, UnrouteRefines, NoticeRefines,
     CloseRefines
     DEF Next, Read, OwnStep, CallStep, NoticeStep, vars, Forward, BecomeIdle,
         LookUpRoute, LookUpSession, Untrack, DropCall, Notify, Broadcast,
         LookUpTarget, DropNotice

\* The server transport keeps the promises of RequestLedger, whatever the number
\* of clients, requests, tokens and concurrent calls, and whatever comes in the
\* wraps (event_loop, cleanup_sessions, send_response, close): a request is
\* answered to clients who asked under its id and to nobody else, and it is given
\* up only answered, or with a client that has used its id, or in close; and with
\* the client it is owed to it is given up.
THEOREM LedgerIsImplemented == Spec => ImplementsLedger
<1>1. Init => LedgerInv /\ Ledger!Init
  BY InitLedgerInv, InitRefines
<1>2. LedgerInv /\ [Next]_vars => LedgerInv' /\ [Ledger!Next]_(Ledger!vars)
  BY NextLedgerInv, NextRefines
<1>3. ImplementsLedger <=> Ledger!Init /\ [][Ledger!Next]_(Ledger!vars)
  BY DEF ImplementsLedger, Ledger!Spec
<1>4. QED
  BY <1>1, <1>2, <1>3, PTL DEF Spec
=============================================================================
