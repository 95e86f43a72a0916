------------------------ MODULE ClientTransportProofs ------------------------
(***************************************************************************)
(* What holds of ClientTransport, and of ClientWorker in front of it, for  *)
(* every set of sends, events and messages, checked by TLAPS.              *)
(***************************************************************************)
EXTENDS ClientWorker, SequenceTheorems, TLAPS

LEMMA InitType == Init => TypeOK
BY DEF Init, TypeOK, EmptyMap, Map, Keys, Posted, Send, NoSend, SendPc

\* Every step keeps the types.
LEMMA NextType == TypeOK /\ [Next]_vars => TypeOK'
<1> SUFFICES ASSUME TypeOK, [Next]_vars
             PROVE  TypeOK'
  OBVIOUS
<1> USE DEF TypeOK
<1>0. UNCHANGED inbox => Posted' = Posted
  BY DEF Posted, Keys
<1>1. ASSUME NEW s \in Sends, NEW m \in Messages, CallSend(s, m)
      PROVE  TypeOK'
  BY <1>0, <1>1 DEF CallSend, Send, SendPc
<1>2. ASSUME NEW s \in Sends, NEW ok \in BOOLEAN, NEW reached \in BOOLEAN,
             Publish(s, ok, reached)
      PROVE  TypeOK'
  <2>1. sends' \in [Sends -> Send]
    BY <1>2 DEF Publish, Send, SendPc
  <2>2. QED
    BY <1>0, <1>2, <2>1 DEF Publish
<1>3. ASSUME NEW s \in Sends, Register(s)
      PROVE  TypeOK'
  BY <1>0, <1>3 DEF Register, Send, SendPc
<1>4. ASSUME NEW s \in Sends, DropSend(s)
      PROVE  TypeOK'
  BY <1>0, <1>4 DEF DropSend, Send, SendPc
<1>5. ASSUME NEW x \in Events, NEW ev \in Inbound, Post(x, ev)
      PROVE  TypeOK'
  <2>1. inbox' \in Map(Events, Inbound)
    BY <1>5 DEF Post, Put, Map
  <2>2. Posted \subseteq Posted'
    BY <1>5, InboundAssumption DEF Post, Put, Posted, Keys, Map
  <2>3. QED
    BY <1>5, <2>1, <2>2 DEF Post
<1>6. ASSUME NEW x \in Events, Receive(x)
      PROVE  TypeOK'
  BY <1>0, <1>6 DEF Receive
<1>7. CASE Deliver
  BY <1>0, <1>7 DEF Deliver
<1>8. CASE UNCHANGED vars
  BY <1>0, <1>8 DEF vars
<1>9. QED
  BY <1>1, <1>2, <1>3, <1>4, <1>5, <1>6, <1>7, <1>8 DEF Next, SendStep

\* Type correctness of the client transport (client.rs, send and event_loop).
THEOREM TypeCorrect == Spec => []TypeOK
BY InitType, NextType, PTL DEF Spec

-----------------------------------------------------------------------------

LEMMA InitCorrelation == Init => Correlation
BY DEF Init, Correlation, Registration, PendingIsUnanswered, AtMostOneAnswer,
   Posted, EmptyMap, Keys, NoSend, OnRelay

\* A step of one send, about a request not yet registered, keeps Correlation if
\* the send itself obeys it afterwards.
LEMMA SendStepCorrelation ==
  ASSUME TypeOK, TypeOK', Correlation, NEW s \in Sends,
         UNCHANGED <<inbox, read, loop, delivered>>,
         \A r \in Sends \ {s} : sends'[r] = sends[r],
         s \notin pending_requests,
         \A x \in delivered : Tag(x) # s,
         \/ pending_requests' = pending_requests
         \/ /\ pending_requests' = pending_requests \cup {s}
            /\ s \in Requests'
            /\ sends'[s].pc = "ok",
         s \in Requests' /\ sends'[s].pc = "ok" => s \in pending_requests',
         s \notin emulated,
         \/ emulated' = emulated
         \/ /\ emulated' = emulated \cup {s}
            /\ sends'[s].pc = "ok"
            /\ ~sends'[s].reached,
         s \in Requests => s \in Requests',
         sends'[s].pc = "register" => s \in Requests',
         sends'[s].reached => sends'[s].pc \notin {"idle", "publish"}
  PROVE  Correlation'
<1>1. /\ \A r \in Sends \ {s} : r \in OnRelay' <=> r \in OnRelay
      /\ \A r \in Requests : r \in Requests'
  BY DEF OnRelay, Requests
<1>2. Posted' = Posted /\ \A x : Tag(x)' = Tag(x)
  BY DEF Posted, Keys, Tag
<1>3. /\ \A r \in pending_requests : r # s /\ sends[r].pc = "ok" /\ r \in Requests
      /\ \A r \in emulated : sends[r].pc = "ok" /\ r \notin OnRelay
      /\ \A x \in delivered : Tag(x) # None => sends[Tag(x)].pc = "ok"
      /\ \A x \in Posted : Tag(x) # None => Tag(x) \in Requests
      /\ \A r \in pending_requests, x \in delivered : Tag(x) # r
  BY DEF Correlation, Registration, PendingIsUnanswered, TypeOK
<1>4. pending_requests \subseteq Sends /\ emulated \subseteq Sends
  BY DEF TypeOK
<1>5. delivered \subseteq Posted /\ Requests \subseteq Sends
  BY DEF TypeOK, Requests, OnRelay
<1>6. \A r \in pending_requests' : sends'[r].pc = "ok"
  BY <1>3, <1>4
<1>7. \A r \in Sends : sends'[r].pc = "register" => r \in Requests'
  BY <1>1 DEF Correlation, Registration
<1>8. \A r \in emulated' : sends'[r].pc = "ok" /\ r \notin OnRelay'
  BY <1>1, <1>3, <1>4 DEF OnRelay
<1>9. \A r \in OnRelay' : sends'[r].pc # "idle" /\ sends'[r].pc # "publish"
  <2>1. ASSUME NEW r \in OnRelay', r # s
        PROVE  sends'[r].pc # "idle" /\ sends'[r].pc # "publish"
    <3>1. r \in Sends /\ r \in OnRelay
      BY <1>1, <2>1 DEF OnRelay
    <3>2. QED
      BY <2>1, <3>1 DEF Correlation, Registration
  <2>2. s \in OnRelay' => sends'[s].pc # "idle" /\ sends'[s].pc # "publish"
    BY DEF OnRelay
  <2>3. QED
    BY <2>1, <2>2
<1>10. \A x \in Posted' : Tag(x)' # None => Tag(x)' \in Requests'
  BY <1>1, <1>2, <1>3
<1>11. \A x \in delivered' : Tag(x)' # None => sends'[Tag(x)'].pc = "ok"
  <2>1. ASSUME NEW x \in delivered, Tag(x) # None
        PROVE  sends'[Tag(x)].pc = "ok"
    <3>1. Tag(x) \in Sends /\ Tag(x) # s
      BY <1>3, <1>5, <2>1
    <3>2. QED
      BY <1>3, <2>1, <3>1
  <2>2. QED
    BY <1>2, <2>1
<1>12. loop' # None => /\ loop' \notin delivered'
                       /\ Tag(loop)' # None => Tag(loop)' \in pending_requests'
  BY <1>2 DEF Correlation, Registration
<1>13. Registration'
  BY <1>6, <1>7, <1>8, <1>9, <1>10, <1>11, <1>12 DEF Registration, Tag
<1>14. PendingIsUnanswered'
  <2>1. ASSUME NEW r \in Sends \ {s}
        PROVE  r \in pending_requests' <=>
                 /\ r \in Requests' /\ sends'[r].pc = "ok"
                 /\ \A x \in delivered' : Tag(x)' # r
    <3>1. r \in pending_requests' <=> r \in pending_requests
      OBVIOUS
    <3>2. r \in Requests' <=> r \in Requests
      BY DEF OnRelay, Requests
    <3>3. QED
      BY <1>2, <3>1, <3>2 DEF Correlation, PendingIsUnanswered
  <2>2. s \in pending_requests' <=>
          /\ s \in Requests' /\ sends'[s].pc = "ok"
          /\ \A x \in delivered' : Tag(x)' # s
    BY <1>2
  <2>3. QED
    BY <2>1, <2>2 DEF PendingIsUnanswered, Tag
<1>15. AtMostOneAnswer'
  <2>1. \A x \in delivered : Tag(x) # None => Tag(x) \notin emulated'
    BY DEF Correlation, AtMostOneAnswer
  <2>2. QED
    BY <1>2, <2>1 DEF Correlation, AtMostOneAnswer
<1>16. QED
  BY <1>13, <1>14, <1>15 DEF Correlation

\* Every step keeps Correlation.
LEMMA NextCorrelation == TypeOK /\ Correlation /\ [Next]_vars => Correlation'
<1> SUFFICES ASSUME TypeOK, Correlation, [Next]_vars
             PROVE  Correlation'
  OBVIOUS
<1>t. TypeOK'
  BY NextType
<1>0. None \notin Events /\ None \notin Sends /\ None \notin Messages
  BY NoneAssumption
<1>1. ASSUME NEW s \in Sends, NEW m \in Messages, CallSend(s, m)
      PROVE  Correlation'
  <2>1. /\ \A r \in Sends \ {s} : sends'[r] = sends[r]
        /\ sends[s].pc = "idle"
        /\ s \in Sends /\ ~sends'[s].reached
        /\ sends'[s].pc = "ok" \/ sends'[s].pc = "publish"
        /\ \/ emulated' = emulated
           \/ emulated' = emulated \cup {s} /\ sends'[s].pc = "ok"
        /\ UNCHANGED <<pending_requests, inbox, read, loop, delivered>>
    <3>1. CASE IsEmulated(m)
      BY <1>1, <3>1 DEF CallSend, TypeOK
    <3>2. CASE ~IsEmulated(m)
      BY <1>1, <3>2 DEF CallSend, TypeOK
    <3>3. QED
      BY <3>1, <3>2
  <2>2. s \notin OnRelay /\ s \notin pending_requests /\ s \notin emulated
    BY <2>1 DEF Correlation, Registration, OnRelay
  <2>3. \A x \in delivered : Tag(x) # s
    BY <1>0, <2>1 DEF Correlation, Registration
  <2>4. s \notin Requests /\ s \notin Requests'
    BY <2>1, <2>2 DEF Requests, OnRelay
  <2>5. QED
    BY <1>t, <2>1, <2>2, <2>3, <2>4, SendStepCorrelation
<1>2. ASSUME NEW s \in Sends, NEW ok \in BOOLEAN, NEW reached \in BOOLEAN,
             Publish(s, ok, reached)
      PROVE  Correlation'
  <2>1. /\ \A r \in Sends \ {s} : sends'[r] = sends[r]
        /\ sends[s].pc = "publish"
        /\ sends'[s].pc \in {"register", "ok", "err"}
        /\ sends'[s].pc = "register" => sends'[s].msg.kind = "request" /\ sends'[s].reached
        /\ sends'[s].pc = "ok" => sends'[s].msg.kind # "request"
        /\ UNCHANGED <<pending_requests, emulated, inbox, read, loop, delivered>>
    BY <1>2 DEF Publish, TypeOK, Send
  <2>2. s \notin OnRelay /\ s \notin pending_requests /\ s \notin emulated
    BY <2>1 DEF Correlation, Registration, OnRelay
  <2>3. \A x \in delivered : Tag(x) # s
    BY <1>0, <2>1 DEF Correlation, Registration
  <2>4. /\ s \notin Requests /\ (sends'[s].pc = "register" => s \in Requests')
        /\ sends'[s].pc = "ok" => s \notin Requests'
    BY <2>1, <2>2 DEF Requests, OnRelay
  <2>5. QED
    BY <1>t, <2>1, <2>2, <2>3, <2>4, SendStepCorrelation
<1>3. ASSUME NEW s \in Sends, Register(s)
      PROVE  Correlation'
  <2>1. /\ \A r \in Sends \ {s} : sends'[r] = sends[r]
        /\ sends[s].pc = "register"
        /\ sends'[s].pc = "ok"
        /\ sends'[s].msg = sends[s].msg
        /\ sends'[s].reached = sends[s].reached
        /\ pending_requests' = pending_requests \cup {s}
        /\ UNCHANGED <<emulated, inbox, read, loop, delivered>>
    BY <1>3 DEF Register, TypeOK, Send
  <2>2. s \notin pending_requests /\ s \notin emulated
    BY <2>1 DEF Correlation, Registration, OnRelay
  <2>3. s \in Requests /\ \A x \in delivered : Tag(x) # s
    BY <1>0, <2>1 DEF Correlation, Registration
  <2>4. s \in Requests'
    BY <2>1, <2>3 DEF Requests, OnRelay
  <2>5. QED
    BY <1>t, <2>1, <2>2, <2>3, <2>4, SendStepCorrelation
<1>4. ASSUME NEW s \in Sends, DropSend(s)
      PROVE  Correlation'
  <2>1. /\ \A r \in Sends \ {s} : sends'[r] = sends[r]
        /\ sends[s].pc \in {"publish", "register"}
        /\ sends'[s].pc = "dropped"
        /\ sends'[s].msg = sends[s].msg
        /\ sends'[s].reached = sends[s].reached
        /\ UNCHANGED <<pending_requests, emulated, inbox, read, loop, delivered>>
    BY <1>4 DEF DropSend, TypeOK, Send
  <2>2. /\ s \notin pending_requests /\ s \notin emulated
        /\ \A x \in delivered : Tag(x) # s
    BY <1>0, <2>1 DEF Correlation, Registration
  <2>3. s \in Requests => s \in Requests'
    BY <2>1 DEF Requests, OnRelay
  <2>4. QED
    BY <1>t, <2>1, <2>2, <2>3, SendStepCorrelation
<1>5. ASSUME NEW x \in Events, NEW ev \in Inbound, Post(x, ev)
      PROVE  Correlation'
  <2>1. x \notin Posted /\ x \notin delivered /\ x # loop
    BY <1>0, <1>5 DEF Post, Posted, Keys, TypeOK
  <2>2. UNCHANGED <<sends, pending_requests, emulated, read, loop, delivered>>
    BY <1>5 DEF Post
  <2>3. OnRelay' = OnRelay /\ Requests' = Requests
    BY <2>2 DEF OnRelay, Requests
  <2>4. Posted' \subseteq Posted \cup {x} /\ inbox'[x] = ev
    BY <1>5 DEF Post, Put, Posted, Keys, Map, TypeOK
  <2>5. \A y \in Posted : Tag(y)' = Tag(y)
    BY <1>5, <2>1 DEF Post, Put, Posted, Keys, Tag, Map, TypeOK
  <2>6. ev.e_tag # None => ev.e_tag \in Requests
    BY <1>5 DEF Post
  <2>7. \A y \in Posted' : Tag(y)' # None => Tag(y)' \in Requests
    <3>1. \A y \in Posted : Tag(y)' # None => Tag(y)' \in Requests
      BY <2>5 DEF Correlation, Registration
    <3>2. Tag(x)' = ev.e_tag
      BY <2>4 DEF Tag
    <3>3. QED
      BY <2>4, <2>6, <3>1, <3>2
  <2>8. delivered \subseteq Posted /\ (loop # None => loop \in Posted)
    BY DEF TypeOK
  <2>9. QED
    BY <2>2, <2>3, <2>5, <2>7, <2>8 DEF Correlation, Registration, PendingIsUnanswered, AtMostOneAnswer, TypeOK
<1>6. ASSUME NEW x \in Events, Receive(x)
      PROVE  Correlation'
  <2>1. UNCHANGED <<sends, pending_requests, emulated, inbox, delivered>>
    BY <1>6 DEF Receive
  <2>2. /\ OnRelay' = OnRelay /\ Requests' = Requests
        /\ Posted' = Posted /\ \A y : Tag(y)' = Tag(y)
    BY <2>1 DEF OnRelay, Requests, Posted, Keys, Tag
  <2>3. x \notin delivered
    BY <1>6 DEF Receive, TypeOK
  <2>4. loop' # None => loop' = x /\ (Tag(x) # None => Tag(x) \in pending_requests)
    <3>1. loop' = x \/ loop' = None
      BY <1>6 DEF Receive
    <3>2. CASE Tag(x) # None /\ Tag(x) \notin pending_requests
      BY <1>6, <3>2 DEF Receive, Tag
    <3>3. QED
      BY <3>1, <3>2
  <2>5. QED
    BY <2>1, <2>2, <2>3, <2>4 DEF Correlation, Registration, PendingIsUnanswered, AtMostOneAnswer, TypeOK
<1>7. CASE Deliver
  <2>1. /\ UNCHANGED <<sends, emulated, inbox, read>>
        /\ loop # None
        /\ loop' = None
        /\ delivered' = delivered \cup {loop}
        /\ pending_requests' = pending_requests \ {Tag(loop)}
    BY <1>7 DEF Deliver
  <2>2. /\ OnRelay' = OnRelay /\ Requests' = Requests
        /\ Posted' = Posted /\ \A y : Tag(y)' = Tag(y)
    BY <2>1 DEF OnRelay, Requests, Posted, Keys, Tag
  <2>3. Tag(loop) # None => /\ sends[Tag(loop)].pc = "ok"
                            /\ Tag(loop) \notin emulated
                            /\ \A x \in delivered : Tag(x) # Tag(loop)
    BY <2>1 DEF Requests, Correlation, Registration, PendingIsUnanswered, TypeOK
  <2>4. Registration' /\ PendingIsUnanswered'
    BY <1>0, <2>1, <2>2, <2>3 DEF Correlation, Registration, PendingIsUnanswered, TypeOK
  <2>5. AtMostOneAnswer'
    BY <2>1, <2>2, <2>3 DEF Correlation, AtMostOneAnswer
  <2>6. QED
    BY <2>4, <2>5 DEF Correlation
<1>8. CASE UNCHANGED vars
  <2>1. /\ OnRelay' = OnRelay /\ Requests' = Requests
        /\ Posted' = Posted /\ \A y : Tag(y)' = Tag(y)
    BY <1>8 DEF vars, OnRelay, Requests, Posted, Keys, Tag
  <2>2. QED
    BY <1>8, <2>1 DEF vars, Correlation, Registration, PendingIsUnanswered, AtMostOneAnswer
<1>9. QED
  BY <1>1, <1>2, <1>3, <1>4, <1>5, <1>6, <1>7, <1>8 DEF Next, SendStep

\* The registrations and the deliveries are consistent in every reachable state
\* (client.rs, send and event_loop).
THEOREM CorrelationHolds == Spec => []Correlation
<1>1. Init => TypeOK /\ Correlation
  BY InitType, InitCorrelation
<1>2. TypeOK /\ Correlation /\ [Next]_vars => TypeOK' /\ Correlation'
  BY NextType, NextCorrelation
<1>3. QED
  BY <1>1, <1>2, PTL DEF Spec

\* The application gets at most one message for a request, whatever the server
\* and strangers write, in any order (client.rs, event_loop).
THEOREM OneAnswer == Spec => []AtMostOneAnswer
<1>1. Correlation => AtMostOneAnswer
  BY DEF Correlation
<1>2. QED
  BY <1>1, CorrelationHolds, PTL

\* What waits is what was sent, registered and not answered: a registration that
\* comes late leaves nothing behind (client.rs, send and event_loop).
THEOREM WaitsAreExact == Spec => []PendingIsUnanswered
<1>1. Correlation => PendingIsUnanswered
  BY DEF Correlation
<1>2. QED
  BY <1>1, CorrelationHolds, PTL

\* The loop forgets a request only as it delivers something tagged with it
\* (client.rs, event_loop).
THEOREM NoRequestIsForgotten == Spec => ForgottenOnlyWhenAnswered
<1> DEFINE Forgets == \A s \in pending_requests \ pending_requests' :
                        \E x \in delivered' \ delivered : inbox[x].e_tag = s
<1>1. TypeOK /\ Correlation /\ [Next]_vars => [Forgets]_vars
  <2>1. ASSUME TypeOK, Correlation, Deliver
        PROVE  Forgets
    BY <2>1 DEF Deliver, Correlation, Registration, Tag
  <2>2. ASSUME pending_requests \subseteq pending_requests'
        PROVE  Forgets
    BY <2>2
  <2> HIDE DEF Forgets
  <2>3. QED
    BY <2>1, <2>2 DEF Next, SendStep, CallSend, Publish, Register, DropSend, Post,
       Receive, vars
<1>2. ForgottenOnlyWhenAnswered <=> [][Forgets]_vars
  BY DEF ForgottenOnlyWhenAnswered
<1>3. Init => TypeOK /\ Correlation
  BY InitType, InitCorrelation
<1>4. TypeOK /\ Correlation /\ [Next]_vars => TypeOK' /\ Correlation'
  BY NextType, NextCorrelation
<1> HIDE DEF Forgets
<1>5. QED
  BY <1>1, <1>2, <1>3, <1>4, PTL DEF Spec

-----------------------------------------------------------------------------
(* The worker *)

\* What the loop let through and what send answered itself stay so.
LEMMA AnswersStay ==
  ASSUME [Next]_vars
  PROVE  delivered \cup emulated \subseteq (delivered \cup emulated)'
BY DEF Next, SendStep, CallSend, Publish, Register, DropSend, Post, Receive, Deliver,
   vars

\* The channel and the handler hold nothing else, and nothing twice.
HandedType ==
  /\ channel \in Seq(delivered \cup emulated)
  /\ handed \in Seq(delivered \cup emulated)

NothingTwice ==
  /\ \A i, j \in 1 .. Len(channel) : channel[i] = channel[j] => i = j
  /\ \A i, j \in 1 .. Len(handed) : handed[i] = handed[j] => i = j
  /\ \A i \in 1 .. Len(handed), j \in 1 .. Len(channel) : handed[i] # channel[j]

WorkerInvariant ==
  /\ TypeOK
  /\ Correlation
  /\ emulated # {} => Stateless
  /\ HandedType
  /\ NothingTwice

LEMMA InitWorker == WorkerInit => WorkerInvariant
<1> SUFFICES ASSUME WorkerInit PROVE WorkerInvariant
  OBVIOUS
<1>1. TypeOK /\ Correlation /\ emulated = {}
  BY InitType, InitCorrelation DEF WorkerInit, Init
<1>2. HandedType /\ NothingTwice
  BY EmptySeq DEF WorkerInit, HandedType, NothingTwice
<1>3. QED
  BY <1>1, <1>2 DEF WorkerInvariant

\* The worker drives the transport by its own operations.
LEMMA WorkerStepIsTransportStep == [WorkerNext]_allVars => [Next]_vars
BY DEF WorkerNext, OwnStep, WorkerStep, Background, Enqueue, TakeOutbound, Continue,
   HandOver, Quit, Next, allVars

\* A message that is new enters the channel.
LEMMA PushKeeps ==
  ASSUME WorkerInvariant, [Next]_vars, NEW e \in (delivered \cup emulated)',
         e \notin delivered \cup emulated,
         channel' = Append(channel, e), handed' = handed
  PROVE  HandedType' /\ NothingTwice'
<1> DEFINE S == delivered \cup emulated
           T == (delivered \cup emulated)'
<1>1. channel \in Seq(S) /\ handed \in Seq(S) /\ S \subseteq T /\ e \in T /\ e \notin S
  BY AnswersStay DEF WorkerInvariant, HandedType
<1>2. channel \in Seq(T) /\ handed \in Seq(T)
  <2> HIDE DEF S, T
  <2>1. QED
    BY <1>1, SeqDef
<1>3. /\ Append(channel, e) \in Seq(T)
      /\ Len(Append(channel, e)) = Len(channel) + 1
      /\ \A i \in 1 .. Len(channel) : Append(channel, e)[i] = channel[i]
      /\ Append(channel, e)[Len(channel) + 1] = e
  BY <1>1, <1>2, AppendProperties
<1>4. /\ \A i \in 1 .. Len(channel) : channel[i] \in S
      /\ \A i \in 1 .. Len(handed) : handed[i] \in S
      /\ Len(channel) \in Nat /\ Len(handed) \in Nat
  BY <1>1, ElementOfSeq, LenProperties
<1>5. HandedType'
  BY <1>2, <1>3 DEF HandedType
<1> HIDE DEF S, T
<1>6. NothingTwice'
  BY <1>1, <1>3, <1>4 DEF WorkerInvariant, NothingTwice
<1>7. QED
  BY <1>5, <1>6

\* The handler is given the head of the channel, or it is skipped.
LEMMA PopKeeps ==
  ASSUME WorkerInvariant, HandOver
  PROVE  HandedType' /\ NothingTwice'
<1> DEFINE S == delivered \cup emulated
<1>1. channel \in Seq(S) /\ handed \in Seq(S) /\ channel # <<>>
  BY DEF HandOver, WorkerInvariant, HandedType
<1>2. UNCHANGED <<delivered, emulated>>
  BY DEF HandOver, vars
<1>3. PICK head : head = Head(channel)
  OBVIOUS
<1>4. /\ head \in S /\ head = channel[1]
      /\ channel' \in Seq(S)
      /\ Len(channel') = Len(channel) - 1
      /\ \A i \in 1 .. Len(channel') : channel'[i] = channel[i + 1]
  BY <1>1, <1>3, HeadTailProperties DEF HandOver
<1>5. Len(channel) \in Nat /\ Len(channel) # 0 /\ Len(handed) \in Nat
  BY <1>1, LenProperties, EmptySeq
<1>6. \/ handed' = handed
      \/ /\ handed' \in Seq(S)
         /\ Len(handed') = Len(handed) + 1
         /\ \A i \in 1 .. Len(handed) : handed'[i] = handed[i]
         /\ handed'[Len(handed) + 1] = head
  BY <1>1, <1>3, <1>4, AppendProperties DEF HandOver
<1>7. HandedType'
  BY <1>1, <1>2, <1>4, <1>6 DEF HandedType
<1> HIDE DEF S
<1>8. \A i, j \in 1 .. Len(channel') : channel'[i] = channel'[j] => i = j
  BY <1>4, <1>5 DEF WorkerInvariant, NothingTwice
<1>9. \A j \in 1 .. Len(channel') : head # channel'[j]
  BY <1>4, <1>5 DEF WorkerInvariant, NothingTwice
<1>10. \A i \in 1 .. Len(handed) : handed[i] # head
  BY <1>4, <1>5 DEF WorkerInvariant, NothingTwice
<1>11. \A i \in 1 .. Len(handed), j \in 1 .. Len(channel') : handed[i] # channel'[j]
  BY <1>4, <1>5 DEF WorkerInvariant, NothingTwice
<1>12. NothingTwice'
  BY <1>5, <1>6, <1>8, <1>9, <1>10, <1>11 DEF WorkerInvariant, NothingTwice
<1>13. QED
  BY <1>7, <1>12

LEMMA NextWorker == WorkerInvariant /\ [WorkerNext]_allVars => WorkerInvariant'
<1> SUFFICES ASSUME WorkerInvariant, [WorkerNext]_allVars
             PROVE  WorkerInvariant'
  OBVIOUS
<1>1. [Next]_vars
  BY WorkerStepIsTransportStep
<1>2. TypeOK' /\ Correlation'
  BY <1>1, NextType, NextCorrelation DEF WorkerInvariant
<1>3. emulated' # {} => Stateless
  BY DEF WorkerInvariant, WorkerNext, OwnStep, WorkerStep, Background, Enqueue,
     TakeOutbound, Continue, HandOver, Quit, SendStep, CallSend, Publish, Register,
     Post, Receive, Deliver, vars, allVars, IsEmulated
<1>4. ASSUME UNCHANGED <<channel, handed>>
      PROVE  HandedType' /\ NothingTwice'
  <2> DEFINE S == delivered \cup emulated
             T == (delivered \cup emulated)'
  <2>1. channel \in Seq(S) /\ handed \in Seq(S) /\ S \subseteq T
    BY <1>1, AnswersStay DEF WorkerInvariant, HandedType
  <2>2. channel \in Seq(T) /\ handed \in Seq(T)
    <3> HIDE DEF S, T
    <3>1. QED
      BY <2>1, SeqDef
  <2>3. QED
    BY <1>4, <2>2 DEF WorkerInvariant, HandedType, NothingTwice
<1>5. ASSUME Enqueue
      PROVE  HandedType' /\ NothingTwice'
  <2>1. PICK x : x = loop
    OBVIOUS
  <2>2. /\ x # None /\ x \in Events /\ x \notin delivered
        /\ x \in delivered'
        /\ channel' = Append(channel, x) /\ handed' = handed
    BY <1>5, <2>1 DEF Enqueue, Deliver, WorkerInvariant, Correlation, Registration,
       TypeOK, Posted, Keys, Map
  <2>3. x \notin emulated
    BY <2>2, IdAssumption DEF WorkerInvariant, TypeOK
  <2>4. QED
    BY <1>1, <2>2, <2>3, PushKeeps
<1>6. ASSUME NEW s \in Sends, NEW m \in Messages, TakeOutbound(s, m)
      PROVE  HandedType' /\ NothingTwice'
  <2>1. CASE IsEmulated(m)
    <3>1. /\ s \in emulated'
          /\ channel' = Append(channel, s) /\ handed' = handed
      BY <1>6, <2>1 DEF TakeOutbound, CallSend
    <3>2. s \notin emulated
      BY <1>6 DEF TakeOutbound, CallSend, WorkerInvariant, Correlation, Registration
    <3>3. s \notin delivered
      BY IdAssumption DEF WorkerInvariant, TypeOK, Posted, Keys, Map
    <3>4. QED
      BY <1>1, <3>1, <3>2, <3>3, PushKeeps
  <2>2. CASE ~IsEmulated(m)
    BY <1>4, <1>6, <2>2 DEF TakeOutbound
  <2>3. QED
    BY <2>1, <2>2
<1>7. HandedType' /\ NothingTwice'
  BY <1>4, <1>5, <1>6, PopKeeps DEF WorkerNext, OwnStep, WorkerStep, Background,
     Continue, Quit, worker, allVars
<1>8. QED
  BY <1>2, <1>3, <1>7 DEF WorkerInvariant

\* The rmcp worker adds nothing to the transport's behaviour, whatever it leaves
\* undone: all that is proved of send and event_loop holds behind it
\* (worker.rs, NostrClientWorker::run).
THEOREM WorkerImplementsTransport == WorkerSpec => Spec
<1>1. WorkerInit => Init
  BY DEF WorkerInit
<1>2. QED
  BY <1>1, WorkerStepIsTransportStep, PTL DEF WorkerSpec, Spec

\* What the channel and the handler hold was let through or answered at once, and
\* is there once, in every reachable state (worker.rs, NostrClientWorker::run).
THEOREM WorkerInvariantHolds == WorkerSpec => []WorkerInvariant
BY InitWorker, NextWorker, PTL DEF WorkerSpec

\* The request a message of the channel is about, or None: a send answered
\* itself, or the one the event is tagged with.
AboutRequest(h) == IF h \in Sends THEN h ELSE Tag(h)

HandedOnce ==
  \A i, j \in 1 .. Len(handed) :
    /\ AboutRequest(handed[i]) # None
    /\ AboutRequest(handed[i]) = AboutRequest(handed[j])
    => i = j

\* The handler is given at most one message for a request, whether the transport
\* or the server answered it: neither the loop, nor the channel, nor the worker
\* repeats one (client.rs, send and event_loop; worker.rs, the select loop).
THEOREM HandlerIsAnsweredOnce == WorkerSpec => []HandedOnce
<1>1. WorkerInvariant => HandedOnce
  <2> SUFFICES ASSUME WorkerInvariant,
                      NEW i \in 1 .. Len(handed), NEW j \in 1 .. Len(handed),
                      AboutRequest(handed[i]) # None,
                      AboutRequest(handed[i]) = AboutRequest(handed[j])
               PROVE  i = j
    BY DEF HandedOnce
  <2>1. /\ handed[i] \in delivered \cup emulated
        /\ handed[j] \in delivered \cup emulated
    BY ElementOfSeq DEF WorkerInvariant, HandedType
  <2>2. /\ \A h \in delivered : h \notin Sends
        /\ \A h \in emulated : h \in Sends
    BY IdAssumption DEF WorkerInvariant, TypeOK, Posted, Keys, Map
  <2>3. handed[i] = handed[j]
    BY <2>1, <2>2 DEF AboutRequest, WorkerInvariant, Correlation, AtMostOneAnswer
  <2>4. QED
    BY <2>3 DEF WorkerInvariant, NothingTwice
<1>2. QED
  BY <1>1, WorkerInvariantHolds, PTL
=============================================================================
