--------------------------- MODULE RpcSessionProofs ---------------------------
(***************************************************************************)
(* What holds of a client and a server together, in every pair of modes    *)
(* and for all sends, messages, events and calls, checked by TLAPS.  What  *)
(* is proved of each party alone is cited for it here, where the other     *)
(* party is its environment; only what passes between them is new.         *)
(***************************************************************************)
EXTENDS RpcSession, TLAPS

-----------------------------------------------------------------------------
(* The assumptions of the parties' modules hold of their instances *)

LEMMA ClientAssumptions ==
  /\ "Optional" \in Client!EncryptionModes
  /\ ServerKey \notin OtherClients
  /\ \A m \in Messages : m.kind \in {"request", "notification", "response"}
  /\ None \notin Sends \cup Events \cup Messages
  /\ Sends \cap Events = {}
  /\ None \notin Client!Inbound
BY KeyAssumption, MessageAssumption, NoneAssumption DEF Client!EncryptionModes, EventIds

LEMMA OptionalAssumptions ==
  /\ "Optional" \in Optional!EncryptionModes
  /\ Traffic \in [Readings -> SUBSET Optional!Inbound]
  /\ \A m \in ServerMessages :
       /\ m.kind \in Optional!MessageKinds
       /\ m.token \in Tokens \cup {None}
       /\ m.kind = "request" => m.id \in RequestIds
  /\ None \notin Clients \cup Readings \cup EventIds \cup RequestIds \cup Tokens
  /\ None \notin Optional!Session
  /\ None \notin Optional!Inbound
<1>1. ASSUME NEW r \in Readings
      PROVE  Traffic[r] \subseteq Optional!Inbound
  <2>1. \A s \in Sends, w \in BOOLEAN, m \in Messages :
          ClientEvent(s, w, m) \in Optional!Inbound
    BY DEF ClientEvent, ServerMessages, EventIds, Clients, Optional!Inbound
  <2>2. OtherTraffic \subseteq Optional!Inbound
    BY TrafficAssumption DEF Optional!Inbound
  <2>3. QED
    BY <2>1, <2>2 DEF Traffic
<1>2. Traffic \in [Readings -> SUBSET Optional!Inbound]
  BY <1>1 DEF Traffic
<1>3. QED
  BY <1>2, MessageAssumption, NoneAssumption DEF Optional!EncryptionModes

LEMMA RequiredAssumptions ==
  /\ "Required" \in Required!EncryptionModes
  /\ Traffic \in [Readings -> SUBSET Required!Inbound]
  /\ \A m \in ServerMessages :
       /\ m.kind \in Required!MessageKinds
       /\ m.token \in Tokens \cup {None}
       /\ m.kind = "request" => m.id \in RequestIds
  /\ None \notin Clients \cup Readings \cup EventIds \cup RequestIds \cup Tokens
  /\ None \notin Required!Session
  /\ None \notin Required!Inbound
<1>1. Required!Session = Optional!Session
  BY DEF Required!Session, Optional!Session, Required!Map, Optional!Map
<1>2. Required!Inbound = Optional!Inbound
  BY DEF Required!Inbound, Optional!Inbound
<1>3. QED
  BY <1>1, <1>2, OptionalAssumptions
     DEF Required!EncryptionModes, Required!MessageKinds, Optional!MessageKinds

LEMMA DisabledAssumptions ==
  /\ "Disabled" \in Disabled!EncryptionModes
  /\ Traffic \in [Readings -> SUBSET Disabled!Inbound]
  /\ \A m \in ServerMessages :
       /\ m.kind \in Disabled!MessageKinds
       /\ m.token \in Tokens \cup {None}
       /\ m.kind = "request" => m.id \in RequestIds
  /\ None \notin Clients \cup Readings \cup EventIds \cup RequestIds \cup Tokens
  /\ None \notin Disabled!Session
  /\ None \notin Disabled!Inbound
<1>1. Disabled!Session = Optional!Session
  BY DEF Disabled!Session, Optional!Session, Disabled!Map, Optional!Map
<1>2. Disabled!Inbound = Optional!Inbound
  BY DEF Disabled!Inbound, Optional!Inbound
<1>3. QED
  BY <1>1, <1>2, OptionalAssumptions
     DEF Disabled!EncryptionModes, Disabled!MessageKinds, Optional!MessageKinds

-----------------------------------------------------------------------------
(* The invariant *)

\* The server is one of the three, with the invariant of its own.
ServerInvariant ==
  \/ server_mode = "Optional" /\ Optional!PolicyInv
  \/ server_mode = "Required" /\ Required!PolicyInv
  \/ server_mode = "Disabled" /\ Disabled!PolicyInv

\* A send has its message from the moment it is called.
SendsHaveMessages == \A s \in Sends : sends[s].pc # "idle" => sends[s].msg \in Messages

\* What the server has read as a send of the client is what this sent, in the form
\* of its mode.
HistoryWasSent ==
  \A s \in Sends : origin[s] # None => sends[s].reached /\ origin[s] = EventOf(s)

\* What the client has read as a publication of the server is one, and for it.
InboxWasPublished ==
  /\ carried \in Map(Events, published)
  /\ \A x \in Events :
       carried[x] # None => /\ carried[x].to = ClientKey
                            /\ inbox[x] # None
                            /\ inbox[x] = EventFor(carried[x])

\* The client's loop drops nothing of the server's but what it does not know.
ReadIsAccountedFor ==
  \A x \in read : carried[x] # None => x \in delivered \cup unknown \cup {c_loop}

SessionInvariant ==
  /\ client_mode \in EncryptionModes
  /\ Client!WorkerInvariant
  /\ ServerInvariant
  /\ SendsHaveMessages
  /\ HistoryWasSent
  /\ InboxWasPublished
  /\ ReadIsAccountedFor

-----------------------------------------------------------------------------
(* The server, whichever it is *)

\* The form of a server's messages follows the form of the client's.
Follows(p, wrapped) ==
  /\ server_mode # (IF wrapped THEN "Disabled" ELSE "Required")
  /\ p.encrypted = ShouldEncrypt(server_mode, FALSE, Wish(wrapped))

\* What the client may rely on, in every mode.
Reliable ==
  /\ origin \in Map(Readings, [id : EventIds, from : Clients, wrapped : BOOLEAN,
                               msg : ServerMessages])
  /\ None \notin published
  /\ \A p \in published :
       /\ p.event \in EventIds \cup {None} /\ p.encrypted \in BOOLEAN
       /\ \E r \in Keys(origin) : origin[r].from = p.to /\ Follows(p, origin[r].wrapped)
       /\ p.kind = "response" =>
            /\ \E r \in Keys(origin) : origin[r].from = p.to /\ origin[r].id = p.event
            /\ \/ p.id = AppId
               \/ \E r \in Keys(origin) :
                    /\ origin[r].from = p.to
                    /\ \/ origin[r].id = p.event /\ origin[r].msg.id = p.id
                       \/ origin[r].msg.token = p.event
  /\ \A t \in Calls : calls[t].pc = "ok" =>
       \E p \in published : p.kind = "response" /\ p.event = calls[t].event

LEMMA NoneIsNotPublished ==
  /\ None \notin Optional!Responses \cup Optional!Notifications
  /\ None \notin Required!Responses \cup Required!Notifications
  /\ None \notin Disabled!Responses \cup Disabled!Notifications
BY NoneAssumption
   DEF Optional!Responses, Required!Responses, Disabled!Responses,
       Optional!Notifications, Required!Notifications, Disabled!Notifications

LEMMA ServerIsReliable == ServerInvariant => Reliable
<1>1. ASSUME server_mode = "Optional", Optional!PolicyInv
      PROVE  Reliable
  <2>1. /\ Optional!Keys(origin) = Keys(origin)
        /\ Optional!Map(Readings, Optional!Inbound) = Map(Readings, Optional!Inbound)
        /\ \A w : Optional!ShouldEncrypt(server_mode, FALSE, Optional!Wish(w))
                   = ShouldEncrypt(server_mode, FALSE, Wish(w))
    BY DEF Optional!Keys, Keys, Optional!Map, Map, Optional!ShouldEncrypt, ShouldEncrypt, Optional!Wish, Wish
  <2>2. /\ origin \in Map(Readings, Optional!Inbound)
        /\ None \notin published
    BY <1>1, <2>1, Optional!ServerFacts, OptionalAssumptions, NoneIsNotPublished
  <2>3. ASSUME NEW p \in published
        PROVE  /\ p.event \in EventIds \cup {None} /\ p.encrypted \in BOOLEAN
               /\ \E r \in Keys(origin) : origin[r].from = p.to /\ Follows(p, origin[r].wrapped)
    <3>1. p.event \in EventIds \cup {None} /\ p.encrypted \in BOOLEAN
      BY <1>1, Optional!ServerFacts, OptionalAssumptions
    <3>2. \E r \in Optional!Keys(origin) :
             /\ origin[r].from = p.to
             /\ "Optional" # (IF origin[r].wrapped THEN "Disabled" ELSE "Required")
             /\ p.encrypted
                  = Optional!ShouldEncrypt("Optional", FALSE, Optional!Wish(origin[r].wrapped))
      BY <1>1, Optional!ServerFacts, OptionalAssumptions
    <3>3. QED
      BY <1>1, <2>1, <3>1, <3>2 DEF Follows
  <2>4. ASSUME NEW p \in published, p.kind = "response"
        PROVE  /\ \E r \in Keys(origin) : origin[r].from = p.to /\ origin[r].id = p.event
               /\ \/ p.id = AppId
                  \/ \E r \in Keys(origin) :
                       /\ origin[r].from = p.to
                       /\ \/ origin[r].id = p.event /\ origin[r].msg.id = p.id
                          \/ origin[r].msg.token = p.event
    <3>1. \E r \in Optional!Keys(origin) : origin[r].from = p.to /\ origin[r].id = p.event
      BY <1>1, <2>4, Optional!ServerFacts, OptionalAssumptions
    <3>2. \/ p.id = AppId
          \/ \E r \in Optional!Keys(origin) :
               /\ origin[r].from = p.to
               /\ \/ origin[r].id = p.event /\ origin[r].msg.id = p.id
                  \/ origin[r].msg.token = p.event
      BY <1>1, <2>4, Optional!ServerFacts, OptionalAssumptions
    <3>3. QED
      BY <2>1, <3>1, <3>2
  <2>5. \A t \in Calls : calls[t].pc = "ok" =>
          \E p \in published : p.kind = "response" /\ p.event = calls[t].event
    BY <1>1, Optional!ServerFacts, OptionalAssumptions
  <2>6. QED
    BY <2>2, <2>3, <2>4, <2>5 DEF Reliable, Optional!Inbound
<1>2. ASSUME server_mode = "Required", Required!PolicyInv
      PROVE  Reliable
  <2>1. /\ Required!Keys(origin) = Keys(origin)
        /\ Required!Map(Readings, Required!Inbound) = Map(Readings, Required!Inbound)
        /\ \A w : Required!ShouldEncrypt(server_mode, FALSE, Required!Wish(w))
                   = ShouldEncrypt(server_mode, FALSE, Wish(w))
    BY DEF Required!Keys, Keys, Required!Map, Map, Required!ShouldEncrypt, ShouldEncrypt, Required!Wish, Wish
  <2>2. /\ origin \in Map(Readings, Required!Inbound)
        /\ None \notin published
    BY <1>2, <2>1, Required!ServerFacts, RequiredAssumptions, NoneIsNotPublished
  <2>3. ASSUME NEW p \in published
        PROVE  /\ p.event \in EventIds \cup {None} /\ p.encrypted \in BOOLEAN
               /\ \E r \in Keys(origin) : origin[r].from = p.to /\ Follows(p, origin[r].wrapped)
    <3>1. p.event \in EventIds \cup {None} /\ p.encrypted \in BOOLEAN
      BY <1>2, Required!ServerFacts, RequiredAssumptions
    <3>2. \E r \in Required!Keys(origin) :
             /\ origin[r].from = p.to
             /\ "Required" # (IF origin[r].wrapped THEN "Disabled" ELSE "Required")
             /\ p.encrypted
                  = Required!ShouldEncrypt("Required", FALSE, Required!Wish(origin[r].wrapped))
      BY <1>2, Required!ServerFacts, RequiredAssumptions
    <3>3. QED
      BY <1>2, <2>1, <3>1, <3>2 DEF Follows
  <2>4. ASSUME NEW p \in published, p.kind = "response"
        PROVE  /\ \E r \in Keys(origin) : origin[r].from = p.to /\ origin[r].id = p.event
               /\ \/ p.id = AppId
                  \/ \E r \in Keys(origin) :
                       /\ origin[r].from = p.to
                       /\ \/ origin[r].id = p.event /\ origin[r].msg.id = p.id
                          \/ origin[r].msg.token = p.event
    <3>1. \E r \in Required!Keys(origin) : origin[r].from = p.to /\ origin[r].id = p.event
      BY <1>2, <2>4, Required!ServerFacts, RequiredAssumptions
    <3>2. \/ p.id = AppId
          \/ \E r \in Required!Keys(origin) :
               /\ origin[r].from = p.to
               /\ \/ origin[r].id = p.event /\ origin[r].msg.id = p.id
                  \/ origin[r].msg.token = p.event
      BY <1>2, <2>4, Required!ServerFacts, RequiredAssumptions
    <3>3. QED
      BY <2>1, <3>1, <3>2
  <2>5. \A t \in Calls : calls[t].pc = "ok" =>
          \E p \in published : p.kind = "response" /\ p.event = calls[t].event
    BY <1>2, Required!ServerFacts, RequiredAssumptions
  <2>6. QED
    BY <2>2, <2>3, <2>4, <2>5 DEF Reliable, Required!Inbound
<1>3. ASSUME server_mode = "Disabled", Disabled!PolicyInv
      PROVE  Reliable
  <2>1. /\ Disabled!Keys(origin) = Keys(origin)
        /\ Disabled!Map(Readings, Disabled!Inbound) = Map(Readings, Disabled!Inbound)
        /\ \A w : Disabled!ShouldEncrypt(server_mode, FALSE, Disabled!Wish(w))
                   = ShouldEncrypt(server_mode, FALSE, Wish(w))
    BY DEF Disabled!Keys, Keys, Disabled!Map, Map, Disabled!ShouldEncrypt, ShouldEncrypt, Disabled!Wish, Wish
  <2>2. /\ origin \in Map(Readings, Disabled!Inbound)
        /\ None \notin published
    BY <1>3, <2>1, Disabled!ServerFacts, DisabledAssumptions, NoneIsNotPublished
  <2>3. ASSUME NEW p \in published
        PROVE  /\ p.event \in EventIds \cup {None} /\ p.encrypted \in BOOLEAN
               /\ \E r \in Keys(origin) : origin[r].from = p.to /\ Follows(p, origin[r].wrapped)
    <3>1. p.event \in EventIds \cup {None} /\ p.encrypted \in BOOLEAN
      BY <1>3, Disabled!ServerFacts, DisabledAssumptions
    <3>2. \E r \in Disabled!Keys(origin) :
             /\ origin[r].from = p.to
             /\ "Disabled" # (IF origin[r].wrapped THEN "Disabled" ELSE "Required")
             /\ p.encrypted
                  = Disabled!ShouldEncrypt("Disabled", FALSE, Disabled!Wish(origin[r].wrapped))
      BY <1>3, Disabled!ServerFacts, DisabledAssumptions
    <3>3. QED
      BY <1>3, <2>1, <3>1, <3>2 DEF Follows
  <2>4. ASSUME NEW p \in published, p.kind = "response"
        PROVE  /\ \E r \in Keys(origin) : origin[r].from = p.to /\ origin[r].id = p.event
               /\ \/ p.id = AppId
                  \/ \E r \in Keys(origin) :
                       /\ origin[r].from = p.to
                       /\ \/ origin[r].id = p.event /\ origin[r].msg.id = p.id
                          \/ origin[r].msg.token = p.event
    <3>1. \E r \in Disabled!Keys(origin) : origin[r].from = p.to /\ origin[r].id = p.event
      BY <1>3, <2>4, Disabled!ServerFacts, DisabledAssumptions
    <3>2. \/ p.id = AppId
          \/ \E r \in Disabled!Keys(origin) :
               /\ origin[r].from = p.to
               /\ \/ origin[r].id = p.event /\ origin[r].msg.id = p.id
                  \/ origin[r].msg.token = p.event
      BY <1>3, <2>4, Disabled!ServerFacts, DisabledAssumptions
    <3>3. QED
      BY <2>1, <3>1, <3>2
  <2>5. \A t \in Calls : calls[t].pc = "ok" =>
          \E p \in published : p.kind = "response" /\ p.event = calls[t].event
    BY <1>3, Disabled!ServerFacts, DisabledAssumptions
  <2>6. QED
    BY <2>2, <2>3, <2>4, <2>5 DEF Reliable, Disabled!Inbound
<1>4. QED
  BY <1>1, <1>2, <1>3 DEF ServerInvariant

LEMMA ServerInit == Init => ServerInvariant
<1> SUFFICES ASSUME Init PROVE ServerInvariant
  OBVIOUS
<1>1. Optional!PolicyInv
  BY Optional!InitPolicy, OptionalAssumptions DEF Init
<1>2. Required!PolicyInv
  <2>1. Required!Init
    BY DEF Init, Optional!Init, Required!Init, Optional!EmptyMap, Required!EmptyMap,
       Optional!NoCall, Required!NoCall, Optional!NoNotice, Required!NoNotice
  <2>2. QED
    BY <2>1, Required!InitPolicy, RequiredAssumptions
<1>3. Disabled!PolicyInv
  <2>1. Disabled!Init
    BY DEF Init, Optional!Init, Disabled!Init, Optional!EmptyMap, Disabled!EmptyMap,
       Optional!NoCall, Disabled!NoCall, Optional!NoNotice, Disabled!NoNotice
  <2>2. QED
    BY <2>1, Disabled!InitPolicy, DisabledAssumptions
<1>4. server_mode \in {"Optional", "Required", "Disabled"}
  BY DEF Init, EncryptionModes
<1>5. QED
  BY <1>1, <1>2, <1>3, <1>4 DEF ServerInvariant

\* A step of the server's own, by which it forgets neither what it read nor what
\* it published.
LEMMA ServerStepKeeps ==
  ASSUME ServerInvariant, ServerStep
  PROVE  ServerInvariant' /\ origin' = origin /\ published \subseteq published'
<1>1. server_mode' = server_mode
  BY DEF ServerStep, modes
<1>2. CASE server_mode = "Optional"
  <2>1. Optional!PolicyInv /\ Optional!OwnStep
    BY <1>2 DEF ServerInvariant, ServerStep
  <2>2. Optional!PolicyInv'
    BY <2>1, Optional!NextPolicy, OptionalAssumptions DEF Optional!Next
  <2>3. origin' = origin /\ published \subseteq published'
    BY <2>1, Optional!OwnStepKeeps, OptionalAssumptions
  <2>4. QED
    BY <1>1, <1>2, <2>2, <2>3 DEF ServerInvariant
<1>3. CASE server_mode = "Required"
  <2>1. Required!PolicyInv /\ Required!OwnStep
    BY <1>3 DEF ServerInvariant, ServerStep
  <2>2. Required!PolicyInv'
    BY <2>1, Required!NextPolicy, RequiredAssumptions DEF Required!Next
  <2>3. origin' = origin /\ published \subseteq published'
    BY <2>1, Required!OwnStepKeeps, RequiredAssumptions
  <2>4. QED
    BY <1>1, <1>3, <2>2, <2>3 DEF ServerInvariant
<1>4. CASE server_mode = "Disabled"
  <2>1. Disabled!PolicyInv /\ Disabled!OwnStep
    BY <1>4 DEF ServerInvariant, ServerStep
  <2>2. Disabled!PolicyInv'
    BY <2>1, Disabled!NextPolicy, DisabledAssumptions DEF Disabled!Next
  <2>3. origin' = origin /\ published \subseteq published'
    BY <2>1, Disabled!OwnStepKeeps, DisabledAssumptions
  <2>4. QED
    BY <1>1, <1>4, <2>2, <2>3 DEF ServerInvariant
<1>5. QED
  BY <1>2, <1>3, <1>4 DEF ServerInvariant

\* A send is an event a server may read.
LEMMA SendsAreRead ==
  ASSUME SendsHaveMessages, NEW s \in Sends, sends[s].pc # "idle"
  PROVE  EventOf(s) \in Traffic[s]
<1>1. SendsWrapped \in BOOLEAN
  BY DEF SendsWrapped, ShouldEncrypt
<1>2. sends[s].msg \in Messages
  BY DEF SendsHaveMessages
<1>3. Traffic[s] = {ClientEvent(s, w, m) : w \in BOOLEAN, m \in Messages}
  BY DEF Traffic, Readings
<1>4. QED
  BY <1>1, <1>2, <1>3 DEF EventOf

\* So is what others send.
LEMMA TrafficIsRead ==
  ASSUME NEW r \in OtherReadings, NEW ev \in OtherTraffic
  PROVE  ev \in Traffic[r]
BY KeyAssumption DEF Traffic, Readings

\* The server reads an event, and adds it to its history.
LEMMA ReadsKeep ==
  ASSUME ServerInvariant, NEW r \in Readings, NEW ev \in Traffic[r], ServerReads(r, ev)
  PROVE  /\ ServerInvariant'
         /\ origin' = Put(origin, r, ev)
         /\ published' = published
<1>1. server_mode' = server_mode
  BY DEF ServerReads, modes
<1>2. CASE server_mode = "Optional"
  <2>1. Optional!PolicyInv /\ Optional!Read(r, ev)
    BY <1>2 DEF ServerInvariant, ServerReads
  <2>2. Optional!PolicyInv'
    BY <2>1, Optional!NextPolicy, OptionalAssumptions DEF Optional!Next
  <2>3. origin' = Put(origin, r, ev) /\ published' = published
    BY <2>1, Optional!ReadKeeps, OptionalAssumptions DEF Put, Optional!Put
  <2>4. QED
    BY <1>1, <1>2, <2>2, <2>3 DEF ServerInvariant
<1>3. CASE server_mode = "Required"
  <2>1. Required!PolicyInv /\ Required!Read(r, ev)
    BY <1>3 DEF ServerInvariant, ServerReads
  <2>2. Required!PolicyInv'
    BY <2>1, Required!NextPolicy, RequiredAssumptions DEF Required!Next
  <2>3. origin' = Put(origin, r, ev) /\ published' = published
    BY <2>1, Required!ReadKeeps, RequiredAssumptions DEF Put, Required!Put
  <2>4. QED
    BY <1>1, <1>3, <2>2, <2>3 DEF ServerInvariant
<1>4. CASE server_mode = "Disabled"
  <2>1. Disabled!PolicyInv /\ Disabled!Read(r, ev)
    BY <1>4 DEF ServerInvariant, ServerReads
  <2>2. Disabled!PolicyInv'
    BY <2>1, Disabled!NextPolicy, DisabledAssumptions DEF Disabled!Next
  <2>3. origin' = Put(origin, r, ev) /\ published' = published
    BY <2>1, Disabled!ReadKeeps, DisabledAssumptions DEF Put, Disabled!Put
  <2>4. QED
    BY <1>1, <1>4, <2>2, <2>3 DEF ServerInvariant
<1>5. QED
  BY <1>2, <1>3, <1>4 DEF ServerInvariant

\* Nothing else touches it.
LEMMA ServerUntouched ==
  ASSUME ServerInvariant, UNCHANGED <<modes, server>>
  PROVE  ServerInvariant'
<1>1. server_mode' = server_mode
  BY DEF modes
<1>2. ASSUME Optional!PolicyInv
      PROVE  Optional!PolicyInv'
  BY <1>2, Optional!NextPolicy, OptionalAssumptions DEF server, Optional!vars
<1>3. ASSUME Required!PolicyInv
      PROVE  Required!PolicyInv'
  BY <1>3, Required!NextPolicy, RequiredAssumptions DEF server, Required!vars
<1>4. ASSUME Disabled!PolicyInv
      PROVE  Disabled!PolicyInv'
  BY <1>4, Disabled!NextPolicy, DisabledAssumptions DEF server, Disabled!vars
<1>5. QED
  BY <1>1, <1>2, <1>3, <1>4 DEF ServerInvariant

-----------------------------------------------------------------------------
(* The client *)

LEMMA ClientInit == Init => Client!WorkerInvariant
BY Client!InitWorker, ClientAssumptions DEF Init

\* A step of the client's own: what it has sent stays sent, and its loop drops
\* nothing of the server's but what it does not know.
LEMMA ClientStepKeeps ==
  ASSUME Client!WorkerInvariant, SendsHaveMessages, ReadIsAccountedFor,
         InboxWasPublished, UNCHANGED carried, Client!OwnStep
  PROVE  /\ Client!WorkerInvariant'
         /\ SendsHaveMessages'
         /\ ReadIsAccountedFor'
         /\ inbox' = inbox
         /\ \A s \in Sends :
              sends[s].reached => sends'[s].reached /\ sends'[s].msg = sends[s].msg
<1>1. Client!TypeOK /\ Client!Registration
  BY DEF Client!WorkerInvariant, Client!Correlation
<1>2. Client!WorkerInvariant'
  BY Client!NextWorker, ClientAssumptions DEF Client!WorkerNext
<1>3. ASSUME NEW s \in Sends, NEW m \in Messages, Client!TakeOutbound(s, m)
      PROVE  /\ SendsHaveMessages' /\ ReadIsAccountedFor' /\ inbox' = inbox
             /\ \A r \in Sends :
                  sends[r].reached => sends'[r].reached /\ sends'[r].msg = sends[r].msg
  <2>1. /\ UNCHANGED <<inbox, read, delivered, unknown, c_loop>>
        /\ sends[s].pc = "idle"
        /\ sends'[s].msg = m
        /\ \A r \in Sends \ {s} : sends'[r] = sends[r]
    BY <1>1, <1>3 DEF Client!TakeOutbound, Client!CallSend, Client!TypeOK
  <2>2. ~sends[s].reached
    BY <1>1, <2>1 DEF Client!Registration, Client!OnRelay
  <2>3. QED
    BY <2>1, <2>2 DEF SendsHaveMessages, ReadIsAccountedFor
<1>4. ASSUME NEW s \in Sends, Client!SendStep(s)
      PROVE  /\ SendsHaveMessages' /\ ReadIsAccountedFor' /\ inbox' = inbox
             /\ \A r \in Sends :
                  sends[r].reached => sends'[r].reached /\ sends'[r].msg = sends[r].msg
  <2>1. /\ UNCHANGED <<inbox, read, delivered, unknown, c_loop>>
        /\ sends[s].pc \in {"publish", "register"}
        /\ sends'[s].msg = sends[s].msg
        /\ sends[s].pc = "register" => sends'[s].reached = sends[s].reached
        /\ \A r \in Sends \ {s} : sends'[r] = sends[r]
    BY <1>1, <1>4 DEF Client!SendStep, Client!Publish, Client!Register, Client!TypeOK,
       Client!Send
  <2>2. sends[s].pc = "publish" => ~sends[s].reached
    BY <1>1 DEF Client!Registration, Client!OnRelay
  <2>3. QED
    BY <2>1, <2>2 DEF SendsHaveMessages, ReadIsAccountedFor
<1>5. ASSUME NEW x \in Events, Client!Receive(x)
      PROVE  /\ SendsHaveMessages' /\ ReadIsAccountedFor' /\ inbox' = inbox
             /\ UNCHANGED sends
  <2>1. carried[x] # None => inbox[x].from = ServerKey /\ inbox[x].body # "malformed"
    <3>1. carried[x] # None => inbox[x] = EventFor(carried[x])
      BY DEF InboxWasPublished
    <3>2. \A p : EventFor(p).from = ServerKey /\ EventFor(p).body # "malformed"
      BY DEF EventFor
    <3>3. QED
      BY <3>1, <3>2
  <2>2. carried[x] # None => x \in unknown' \/ x = c_loop'
    BY <1>5, <2>1 DEF Client!Receive
  <2>3. /\ c_loop = None /\ None \notin read
        /\ read' = read \cup {x} /\ unknown \subseteq unknown' /\ delivered' = delivered
        /\ UNCHANGED <<sends, inbox>>
    BY <1>1, <1>5, NoneAssumption DEF Client!Receive, Client!TypeOK, Client!Posted,
       Client!Keys, Client!Map
  <2>4. QED
    BY <2>2, <2>3 DEF SendsHaveMessages, ReadIsAccountedFor
<1>6. ASSUME Client!Deliver
      PROVE  /\ SendsHaveMessages' /\ ReadIsAccountedFor' /\ inbox' = inbox
             /\ UNCHANGED sends
  BY <1>6 DEF Client!Deliver, SendsHaveMessages, ReadIsAccountedFor
<1>7. ASSUME Client!HandOver \/ Client!Quit
      PROVE  /\ SendsHaveMessages' /\ ReadIsAccountedFor' /\ inbox' = inbox
             /\ UNCHANGED sends
  BY <1>7 DEF Client!HandOver, Client!Quit, Client!vars, SendsHaveMessages,
     ReadIsAccountedFor
<1>8. QED
  BY <1>2, <1>3, <1>4, <1>5, <1>6, <1>7 DEF Client!OwnStep, Client!WorkerStep,
     Client!Background, Client!Enqueue, Client!Continue

\* A publication of the server is an event a client can be sent; so is what a
\* stranger sends.
LEMMA ToClientIsPost ==
  ASSUME Reliable, NEW x \in Events, NEW p \in published, ToClient(x, p)
  PROVE  Client!WorkerNext /\ EventFor(p) # None
<1>1. EventFor(p) \in Client!Inbound
  BY DEF Reliable, ToClient, Client!Post, Client!Requests, Client!OnRelay, EventFor,
     Client!Inbound
<1>2. QED
  BY <1>1, NoneAssumption DEF ToClient, Client!WorkerNext, Client!worker

LEMMA FromStrangersIsPost ==
  ASSUME NEW x \in Events, NEW ev \in StrangerTraffic, FromStrangers(x, ev)
  PROVE  Client!WorkerNext
BY TrafficAssumption DEF FromStrangers, Client!WorkerNext, Client!worker

LEMMA ClientUntouched ==
  ASSUME Client!WorkerInvariant, UNCHANGED client
  PROVE  Client!WorkerInvariant'
BY Client!NextWorker, ClientAssumptions DEF client, Client!allVars, Client!vars,
   Client!worker

-----------------------------------------------------------------------------
(* Both *)

LEMMA SessionInit == Init => SessionInvariant
<1> SUFFICES ASSUME Init PROVE SessionInvariant
  OBVIOUS
<1>1. /\ SendsHaveMessages /\ ReadIsAccountedFor
      /\ client_mode \in EncryptionModes
  BY DEF Init, Client!WorkerInit, Client!Init, Client!NoSend, SendsHaveMessages,
     ReadIsAccountedFor
<1>4. HistoryWasSent
  <2>1. \A r \in Readings : origin[r] = None
    BY DEF Init, Optional!Init, Optional!EmptyMap
  <2>2. QED
    BY <2>1 DEF HistoryWasSent, Readings
<1>2. InboxWasPublished
  BY DEF Init, Client!WorkerInit, Client!Init, Client!EmptyMap, EmptyMap, Map,
     InboxWasPublished
<1>3. QED
  BY <1>1, <1>2, <1>4, ServerInit, ClientInit DEF SessionInvariant

LEMMA SessionNext == SessionInvariant /\ [Next]_vars => SessionInvariant'
<1> SUFFICES ASSUME SessionInvariant, [Next]_vars
             PROVE  SessionInvariant'
  OBVIOUS
<1> USE DEF SessionInvariant
<1>0. UNCHANGED modes => \A p : EventFor(p)' = EventFor(p) /\ SendsWrapped' = SendsWrapped
  BY DEF modes, EventFor, SendsWrapped
<1>1. CASE ClientStep
  <2>1. /\ Client!WorkerInvariant' /\ SendsHaveMessages' /\ ReadIsAccountedFor'
        /\ inbox' = inbox
        /\ \A s \in Sends :
             sends[s].reached => sends'[s].reached /\ sends'[s].msg = sends[s].msg
    BY <1>1, ClientStepKeeps DEF ClientStep
  <2>2. UNCHANGED <<modes, server, carried>>
    BY <1>1 DEF ClientStep
  <2>3. HistoryWasSent'
    BY <1>0, <2>1, <2>2 DEF HistoryWasSent, EventOf, server
  <2>4. InboxWasPublished'
    BY <1>0, <2>1, <2>2 DEF InboxWasPublished, server
  <2>5. QED
    BY <2>1, <2>2, <2>3, <2>4, ServerUntouched DEF modes
<1>2. CASE ServerStep
  <2>1. ServerInvariant' /\ origin' = origin /\ published \subseteq published'
    BY <1>2, ServerStepKeeps
  <2>2. UNCHANGED <<modes, client, carried>>
    BY <1>2 DEF ServerStep
  <2>3. HistoryWasSent'
    BY <1>0, <2>1, <2>2 DEF HistoryWasSent, EventOf, client
  <2>4. InboxWasPublished'
    BY <1>0, <2>1, <2>2 DEF InboxWasPublished, client, Map
  <2>5. SendsHaveMessages' /\ ReadIsAccountedFor'
    BY <2>2 DEF SendsHaveMessages, ReadIsAccountedFor, client
  <2>6. QED
    BY <2>1, <2>2, <2>3, <2>4, <2>5, ClientUntouched DEF modes
<1>3. ASSUME NEW r \in Readings, NEW ev \in Traffic[r], ServerReads(r, ev),
             r \in Sends => sends[r].reached /\ ev = EventOf(r)
      PROVE  SessionInvariant'
  <2>1. ServerInvariant' /\ origin' = Put(origin, r, ev) /\ published' = published
    BY <1>3, ReadsKeep
  <2>2. UNCHANGED <<modes, client, carried>>
    BY <1>3 DEF ServerReads
  <2>3. \A s \in Sends : EventOf(s)' = EventOf(s)
    BY <1>0, <2>2 DEF EventOf, client
  <2>4. \A s \in Readings : origin'[s] = IF s = r THEN ev ELSE origin[s]
    BY <2>1, ServerIsReliable DEF Reliable, Put, Map
  <2>5. HistoryWasSent'
    BY <1>3, <2>2, <2>3, <2>4 DEF HistoryWasSent, client, Readings
  <2>6. InboxWasPublished'
    BY <1>0, <2>1, <2>2 DEF InboxWasPublished, client
  <2>7. SendsHaveMessages' /\ ReadIsAccountedFor'
    BY <2>2 DEF SendsHaveMessages, ReadIsAccountedFor, client
  <2>8. QED
    BY <2>1, <2>2, <2>5, <2>6, <2>7, ClientUntouched DEF modes
<1>4. ASSUME NEW x \in Events, NEW p \in published, ToClient(x, p)
      PROVE  SessionInvariant'
  <2>1. Client!WorkerInvariant' /\ EventFor(p) # None
    BY <1>4, ToClientIsPost, ServerIsReliable, Client!NextWorker, ClientAssumptions
  <2>2. /\ UNCHANGED <<modes, server, sends, read, delivered, unknown, c_loop>>
        /\ inbox' = Put(inbox, x, EventFor(p)) /\ carried' = Put(carried, x, p)
        /\ p.to = ClientKey /\ inbox[x] = None
    BY <1>4 DEF ToClient, Client!Post, Put, Client!Put
  <2>3. inbox \in Map(Events, Client!Inbound) /\ x \notin read
    BY <2>2 DEF Client!WorkerInvariant, Client!TypeOK, Map, Client!Map, Client!Posted,
       Client!Keys
  <2>4. InboxWasPublished'
    BY <1>0, <2>1, <2>2, <2>3 DEF InboxWasPublished, Put, Map, server
  <2>5. HistoryWasSent'
    BY <1>0, <2>2 DEF HistoryWasSent, EventOf, server
  <2>6. SendsHaveMessages' /\ ReadIsAccountedFor'
    BY <2>2, <2>3 DEF SendsHaveMessages, ReadIsAccountedFor, InboxWasPublished, Put, Map,
       Client!WorkerInvariant, Client!TypeOK, Client!Posted, Client!Keys
  <2>7. QED
    BY <2>1, <2>2, <2>4, <2>5, <2>6, ServerUntouched DEF modes
<1>5. CASE UNCHANGED vars
  <2>1. UNCHANGED <<modes, client, server, carried>>
    BY <1>5 DEF vars
  <2>2. HistoryWasSent' /\ InboxWasPublished'
    BY <1>0, <2>1 DEF HistoryWasSent, InboxWasPublished, EventOf, client, server
  <2>3. SendsHaveMessages' /\ ReadIsAccountedFor'
    BY <2>1 DEF SendsHaveMessages, ReadIsAccountedFor, client
  <2>4. QED
    BY <2>1, <2>2, <2>3, ServerUntouched, ClientUntouched DEF modes
<1>6. ASSUME NEW s \in Sends, ToServer(s)
      PROVE  SessionInvariant'
  <2>1. PICK ev : ev = EventOf(s)
    OBVIOUS
  <2>2. sends[s].reached /\ sends[s].pc # "idle"
    BY <1>6 DEF ToServer, Client!WorkerInvariant, Client!Correlation, Client!Registration,
       Client!OnRelay
  <2>3. ServerReads(s, ev)
    BY <1>6, <2>1 DEF ToServer
  <2>4. QED
    BY <1>3, <2>1, <2>2, <2>3, SendsAreRead DEF Readings
<1>7. ASSUME NEW r \in OtherReadings, NEW ev \in OtherTraffic, FromOthers(r, ev)
      PROVE  SessionInvariant'
  <2>1. r \in Readings /\ r \notin Sends
    BY KeyAssumption DEF Readings
  <2>2. QED
    BY <1>3, <1>7, <2>1, TrafficIsRead DEF FromOthers
<1>8. ASSUME NEW x \in Events, NEW ev \in StrangerTraffic, FromStrangers(x, ev)
      PROVE  SessionInvariant'
  <2>1. Client!WorkerInvariant'
    BY <1>8, FromStrangersIsPost, Client!NextWorker, ClientAssumptions
  <2>2. /\ UNCHANGED <<modes, server, carried, sends, read, delivered, unknown, c_loop>>
        /\ inbox[x] = None
        /\ inbox' = Put(inbox, x, ev)
    BY <1>8 DEF FromStrangers, Client!Post, Put, Client!Put
  <2>3. \A y \in Events : carried[y] # None => y # x /\ inbox'[y] = inbox[y]
    BY <2>2 DEF InboxWasPublished, Put, Client!WorkerInvariant, Client!TypeOK, Client!Map
  <2>4. InboxWasPublished'
    BY <1>0, <2>2, <2>3 DEF InboxWasPublished, server
  <2>5. HistoryWasSent'
    BY <1>0, <2>2 DEF HistoryWasSent, EventOf, server
  <2>6. SendsHaveMessages' /\ ReadIsAccountedFor'
    BY <2>2 DEF SendsHaveMessages, ReadIsAccountedFor
  <2>7. QED
    BY <2>1, <2>2, <2>4, <2>5, <2>6, ServerUntouched DEF modes
<1>9. QED
  BY <1>1, <1>2, <1>4, <1>5, <1>6, <1>7, <1>8 DEF Next

\* Whatever others write to either, in whatever name: what the server has taken for
\* a send of the client is what this sent; what the client has read of the server's
\* publications is as the server wrote it, and is delivered, or dropped as unknown,
\* and nothing else becomes of it; each party is in a state it can be in by itself
\* (client.rs, send and event_loop; server.rs, event_loop, send_response and
\* send_notification).
THEOREM SessionInvariantHolds == Spec => []SessionInvariant
BY SessionInit, SessionNext, PTL DEF Spec

-----------------------------------------------------------------------------
(* What follows for the client's handler *)

\* What the handler was given was delivered, and is what the server published if
\* it came from there.
LEMMA HandedWasPublished ==
  ASSUME SessionInvariant, NEW i \in 1 .. Len(handed), carried[handed[i]] # None
  PROVE  /\ handed[i] \in delivered /\ handed[i] \in Events
         /\ carried[handed[i]] \in published /\ carried[handed[i]].to = ClientKey
         /\ inbox[handed[i]] = EventFor(carried[handed[i]])
<1>1. emulated = {}
  BY DEF SessionInvariant, Client!WorkerInvariant
<1>2. handed[i] \in delivered
  BY <1>1 DEF SessionInvariant, Client!WorkerInvariant, Client!HandedType
<1>3. handed[i] \in Events /\ inbox[handed[i]] # None
  BY <1>2 DEF SessionInvariant, Client!WorkerInvariant, Client!TypeOK, Client!Posted,
     Client!Keys, Client!Map
<1>4. QED
  BY <1>2, <1>3 DEF SessionInvariant, InboxWasPublished, Map

\* The server's response to a handler's request carries the request's own JSON-RPC
\* id, or the one the server's application gave it, in every pair of modes, however
\* the relays reorder or lose what passes between them, and whatever other clients
\* ask under the same ids and tokens; unless the id of its event was used again in
\* the client's own name (client.rs, event_loop; server.rs, event_loop and
\* send_response).
THEOREM IdsAreRight == Spec => []RightAnswer
<1>1. SessionInvariant => RightAnswer
  <2> SUFFICES ASSUME SessionInvariant, NEW i \in 1 .. Len(handed),
                      carried[handed[i]] # None, carried[handed[i]].kind = "response"
               PROVE  LET p == carried[handed[i]] IN
                      /\ p.event \in Sends
                      /\ sends[p.event].msg.kind = "request"
                      /\ p.id \in {sends[p.event].msg.id, AppId} \/ Misused(p.event)
    BY DEF RightAnswer
  <2>1. PICK h, p : h = handed[i] /\ p = carried[h]
    OBVIOUS
  <2>2. /\ h \in delivered /\ h \in Events
        /\ p \in published /\ p.kind = "response" /\ p.to = ClientKey
        /\ inbox[h] = EventFor(p)
    BY <2>1, HandedWasPublished
  <2>3. /\ \E r \in Keys(origin) : origin[r].from = p.to /\ origin[r].id = p.event
        /\ \/ p.id = AppId
           \/ \E r \in Keys(origin) :
                /\ origin[r].from = p.to
                /\ \/ origin[r].id = p.event /\ origin[r].msg.id = p.id
                   \/ origin[r].msg.token = p.event
    BY <2>2, ServerIsReliable DEF SessionInvariant, Reliable
  <2>4. p.event \in EventIds
    BY <2>3, ServerIsReliable DEF SessionInvariant, Reliable, Map, Keys
  <2>5. Client!Tag(h) = p.event
    BY <2>2 DEF Client!Tag, EventFor
  <2>6. h \in Client!Posted /\ p.event # None
    BY <2>2, <2>4, NoneAssumption DEF SessionInvariant, Client!WorkerInvariant, Client!TypeOK
  <2>7. p.event \in Client!Requests
    BY <2>5, <2>6 DEF SessionInvariant, Client!WorkerInvariant, Client!Correlation,
       Client!Registration
  <2>8. p.event \in Sends /\ sends[p.event].msg.kind = "request"
    BY <2>7 DEF Client!Requests, Client!OnRelay
  <2>9. p.id \in {sends[p.event].msg.id, AppId} \/ Misused(p.event)
    <3>1. ASSUME NEW r \in Keys(origin), origin[r].from = p.to,
                 origin[r].id = p.event, origin[r].msg.id = p.id
          PROVE  p.id = sends[p.event].msg.id \/ Misused(p.event)
      BY <2>2, <3>1 DEF Misused, InItsName
    <3>2. ASSUME NEW r \in Keys(origin), origin[r].from = p.to,
                 origin[r].msg.token = p.event
          PROVE  Misused(p.event)
      BY <2>2, <3>2 DEF Misused, InItsName
    <3>3. QED
      BY <2>3, <3>1, <3>2
  <2>10. QED
    BY <2>1, <2>8, <2>9
<1>2. QED
  BY <1>1, SessionInvariantHolds, PTL

\* A handler hears only of servers whose mode agrees with the client's, and only
\* in the form the client writes in, although the client's loop never looks at
\* its mode: the server's session flag and its mode do it for both, until an event
\* of the other form is read in the client's name (client.rs, event_loop; server.rs,
\* event_loop, send_response and send_notification).
THEOREM ModesAgree == Spec => []FormsAgree
<1>1. SessionInvariant => FormsAgree
  <2> SUFFICES ASSUME SessionInvariant, NEW i \in 1 .. Len(handed),
                      carried[handed[i]] # None,
                      \A r \in InItsName : origin[r].wrapped = SendsWrapped
               PROVE  Compatible /\ inbox[handed[i]].wrapped = SendsWrapped
    BY DEF FormsAgree
  <2>1. PICK p : /\ p \in published /\ p.to = ClientKey
                 /\ inbox[handed[i]] = EventFor(p)
    BY HandedWasPublished
  <2>2. PICK r \in Keys(origin) :
          origin[r].from = ClientKey /\ Follows(p, origin[r].wrapped)
    BY <2>1, ServerIsReliable DEF SessionInvariant, Reliable
  <2>3. origin[r].wrapped = SendsWrapped
    BY <2>2 DEF InItsName
  <2>4. /\ server_mode # (IF SendsWrapped THEN "Disabled" ELSE "Required")
        /\ p.encrypted = ShouldEncrypt(server_mode, FALSE, Wish(SendsWrapped))
    BY <2>2, <2>3 DEF Follows
  <2>5. /\ server_mode \in {"Optional", "Required", "Disabled"}
        /\ client_mode \in {"Optional", "Required", "Disabled"}
    BY DEF SessionInvariant, ServerInvariant, EncryptionModes
  <2>6. Compatible
    BY <2>4, <2>5 DEF Compatible, SendsWrapped, ShouldEncrypt
  <2>7. p.encrypted = SendsWrapped
    BY <2>4, <2>5 DEF SendsWrapped, ShouldEncrypt, Wish
  <2>8. inbox[handed[i]].wrapped = p.encrypted
    BY <2>1 DEF EventFor
  <2>9. QED
    BY <2>6, <2>7, <2>8
<1>2. QED
  BY <1>1, SessionInvariantHolds, PTL

\* A response the server believes to be sent has not been lost between the two:
\* it is on its way, or came before the client had registered its request; unless
\* another client has asked under the request's id, whose response it may have been
\* (server.rs, send_response; client.rs, send and event_loop).
THEOREM NoAnswerIsLost == Spec => []AnswerIsOnItsWay
<1>1. SessionInvariant => AnswerIsOnItsWay
  <2> SUFFICES ASSUME SessionInvariant, NEW s \in pending_requests, NEW t \in Calls,
                      calls[t].pc = "ok", calls[t].event = s,
                      \A r \in Keys(origin) \ InItsName : origin[r].id # s
               PROVE  \E p \in published :
                        /\ p.kind = "response"
                        /\ p.event = s /\ p.to = ClientKey
                        /\ \A x \in Events :
                             carried[x] = p => x \notin read \/ x = c_loop \/ x \in unknown
    BY DEF AnswerIsOnItsWay
  <2>1. PICK p \in published : p.kind = "response" /\ p.event = s /\ p.to = ClientKey
    <3>1. PICK p \in published : p.kind = "response" /\ p.event = s
      BY ServerIsReliable DEF SessionInvariant, Reliable
    <3>2. \E r \in Keys(origin) : origin[r].from = p.to /\ origin[r].id = s
      BY <3>1, ServerIsReliable DEF SessionInvariant, Reliable
    <3>3. QED
      BY <3>1, <3>2 DEF InItsName
  <2>2. ASSUME NEW x \in Events, carried[x] = p, x \in read, x # c_loop
        PROVE  x \in unknown
    <3>1. carried[x] # None
      BY <2>2, ServerIsReliable DEF SessionInvariant, Reliable
    <3>2. inbox[x] = EventFor(p)
      BY <2>2, <3>1 DEF SessionInvariant, InboxWasPublished
    <3>3. Client!Tag(x) = s
      BY <2>1, <3>2 DEF Client!Tag, EventFor
    <3>4. s \in Sends
      BY DEF SessionInvariant, Client!WorkerInvariant, Client!TypeOK
    <3>5. x \notin delivered
      BY <3>3, <3>4 DEF SessionInvariant, Client!WorkerInvariant, Client!Correlation,
         Client!PendingIsUnanswered
    <3>6. QED
      BY <2>2, <3>1, <3>5 DEF SessionInvariant, ReadIsAccountedFor
  <2>3. QED
    BY <2>1, <2>2
<1>2. QED
  BY <1>1, SessionInvariantHolds, PTL

-----------------------------------------------------------------------------
(* The parties keep what they promise alone                                  *)

\* Behind its worker, a client that talks to the server behaves as one among
\* arbitrary events: what is proved of it alone holds here (client.rs; worker.rs,
\* NostrClientWorker::run).
THEOREM SessionImplementsClient == Spec => Client!WorkerSpec
<1>1. Init => Client!WorkerInit
  BY DEF Init
<1>2. SessionInvariant /\ [Next]_vars => [Client!WorkerNext]_(Client!allVars)
  <2> SUFFICES ASSUME SessionInvariant, [Next]_vars
               PROVE  Client!WorkerNext \/ UNCHANGED Client!allVars
    OBVIOUS
  <2>1. UNCHANGED client => UNCHANGED Client!allVars
    BY DEF client, Client!allVars, Client!vars, Client!worker
  <2>2. ClientStep => Client!WorkerNext
    BY DEF ClientStep, Client!WorkerNext
  <2>3. ASSUME NEW x \in Events, NEW p \in published, ToClient(x, p)
        PROVE  Client!WorkerNext
    BY <2>3, ToClientIsPost, ServerIsReliable DEF SessionInvariant
  <2>4. ASSUME NEW x \in Events, NEW ev \in StrangerTraffic, FromStrangers(x, ev)
        PROVE  Client!WorkerNext
    BY <2>4, FromStrangersIsPost
  <2>5. QED
    BY <2>1, <2>2, <2>3, <2>4 DEF Next, ServerStep, ToServer, FromOthers, ServerReads, vars
<1>3. QED
  BY <1>1, <1>2, SessionInvariantHolds, PTL DEF Spec, Client!WorkerSpec

\* However often the server answers, or its answer and its notifications name the
\* request, the client's handler is given one message for it (client.rs, send and
\* event_loop; worker.rs, the select loop).
THEOREM OneAnswerForAHandler == Spec => []Client!HandedOnce
<1>1. Client!WorkerSpec => []Client!HandedOnce
  BY Client!HandlerIsAnsweredOnce, ClientAssumptions
<1>2. QED
  BY <1>1, SessionImplementsClient, PTL

\* The server, in the mode it has, behaves as it does among arbitrary clients: what
\* is proved of it alone holds here (server.rs).
THEOREM SessionImplementsServer ==
  Spec => /\ server_mode = "Optional" => Optional!Spec
          /\ server_mode = "Required" => Required!Spec
          /\ server_mode = "Disabled" => Disabled!Spec
<1> DEFINE IsIn(mode) == server_mode = mode
<1>1. Init => Optional!Init /\ Required!Init /\ Disabled!Init
  BY DEF Init, Optional!Init, Required!Init, Disabled!Init, Optional!EmptyMap,
     Required!EmptyMap, Disabled!EmptyMap, Optional!NoCall, Required!NoCall,
     Disabled!NoCall, Optional!NoNotice, Required!NoNotice, Disabled!NoNotice
<1>2. ASSUME SessionInvariant, [Next]_vars
      PROVE  /\ server_mode' = server_mode
             /\ IsIn("Optional") => Optional!Next \/ UNCHANGED Optional!vars
             /\ IsIn("Required") => Required!Next \/ UNCHANGED Required!vars
             /\ IsIn("Disabled") => Disabled!Next \/ UNCHANGED Disabled!vars
  <2>1. UNCHANGED server => /\ UNCHANGED Optional!vars
                            /\ UNCHANGED Required!vars
                            /\ UNCHANGED Disabled!vars
    BY DEF server, Optional!vars, Required!vars, Disabled!vars
  <2>2. ASSUME ServerStep
        PROVE  /\ IsIn("Optional") => Optional!Next
               /\ IsIn("Required") => Required!Next
               /\ IsIn("Disabled") => Disabled!Next
    BY <2>2 DEF ServerStep, Optional!Next, Required!Next, Disabled!Next
  <2>3. ASSUME NEW r \in Readings, NEW ev \in Traffic[r], ServerReads(r, ev)
        PROVE  /\ IsIn("Optional") => Optional!Next
               /\ IsIn("Required") => Required!Next
               /\ IsIn("Disabled") => Disabled!Next
    BY <2>3 DEF ServerReads, Optional!Next, Required!Next, Disabled!Next
  <2>4. ASSUME NEW s \in Sends, ToServer(s)
        PROVE  /\ IsIn("Optional") => Optional!Next
               /\ IsIn("Required") => Required!Next
               /\ IsIn("Disabled") => Disabled!Next
    <3>1. sends[s].pc # "idle"
      BY <1>2, <2>4 DEF ToServer, SessionInvariant, Client!WorkerInvariant,
         Client!Correlation, Client!Registration, Client!OnRelay
    <3>2. PICK ev : ev = EventOf(s)
      OBVIOUS
    <3>3. ev \in Traffic[s] /\ s \in Readings
      BY <1>2, <3>1, <3>2, SendsAreRead DEF SessionInvariant, Readings
    <3>4. QED
      BY <2>3, <2>4, <3>2, <3>3 DEF ToServer
  <2>5. ASSUME NEW r \in OtherReadings, NEW ev \in OtherTraffic, FromOthers(r, ev)
        PROVE  /\ IsIn("Optional") => Optional!Next
               /\ IsIn("Required") => Required!Next
               /\ IsIn("Disabled") => Disabled!Next
    BY <2>3, <2>5, TrafficIsRead DEF FromOthers, Readings
  <2>6. server_mode' = server_mode
    BY <1>2 DEF Next, ClientStep, ServerStep, ToServer, FromOthers, ServerReads, ToClient,
       FromStrangers, modes, vars
  <2>7. QED
    BY <1>2, <2>1, <2>2, <2>4, <2>5, <2>6 DEF Next, ClientStep, ToClient, FromStrangers, vars
<1>3. SessionInvariant /\ IsIn("Optional") /\ [Next]_vars
        => IsIn("Optional")' /\ [Optional!Next]_(Optional!vars)
  BY <1>2
<1>4. SessionInvariant /\ IsIn("Required") /\ [Next]_vars
        => IsIn("Required")' /\ [Required!Next]_(Required!vars)
  BY <1>2
<1>5. SessionInvariant /\ IsIn("Disabled") /\ [Next]_vars
        => IsIn("Disabled")' /\ [Disabled!Next]_(Disabled!vars)
  BY <1>2
<1>6. /\ Spec /\ IsIn("Optional") => Optional!Spec
      /\ Spec /\ IsIn("Required") => Required!Spec
      /\ Spec /\ IsIn("Disabled") => Disabled!Spec
  <2> HIDE DEF IsIn
  <2>1. QED
    BY <1>1, <1>3, <1>4, <1>5, SessionInvariantHolds, PTL
       DEF Spec, Optional!Spec, Required!Spec, Disabled!Spec
<1>7. QED
  BY <1>6
===============================================================================
