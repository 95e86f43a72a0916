----------------------------- MODULE RpcSession -----------------------------
(***************************************************************************)
(* A client behind its rmcp worker (ClientWorker) and a server             *)
(* (ServerTransport), each in an encryption mode of its own, the relays    *)
(* between them, which lose and reorder what they are given, and everyone  *)
(* else who writes to either.  Each step is a step of one of the two, with *)
(* the other as its environment.  Both take the event within a gift wrap   *)
(* as it stands there, so others may wrap an event of either again, or any *)
(* other under its name.  What the two promise one another is said with    *)
(* this as the exception, where it makes one.                              *)
(***************************************************************************)
EXTENDS BaseTransport, MapOps, Integers, Sequences

CONSTANTS
  ClientKey, ServerKey,
  Sends, Messages, Events,       \* of the client; a send names its event
  RequestIds, AppId, Tokens,
  Calls, Notices,                \* of the server
  OtherClients, OtherIds,        \* its other clients, other ids of events
  OtherReadings, OtherTraffic,   \* what else the server reads
  StrangerTraffic                \* what else the client reads

VARIABLES
  client_mode, server_mode,      \* config.encryption_mode of each
  sends, pending_requests, emulated, inbox, read, c_loop, delivered, unknown,
  channel, handed, running,
  sessions, event_to_client, s_loop, forwarded, calls, notices, published,
  origin, phase,
  carried                        \* history: the publication in each inbound event,
                                 \*   None if it is not the server's

client == <<sends, pending_requests, emulated, inbox, read, c_loop, delivered,
            unknown, channel, handed, running>>
server == <<sessions, event_to_client, s_loop, forwarded, calls, notices,
            published, origin, phase>>
modes == <<client_mode, server_mode>>

vars == <<modes, client, server, carried>>

Clients == {ClientKey} \cup OtherClients
EventIds == Sends \cup OtherIds
Readings == Sends \cup OtherReadings
ServerMessages == Messages \cup {ev.msg : ev \in OtherTraffic}

\* An event of the client, whatever its form and its message.
ClientEvent(s, wrapped, msg) ==
  [id |-> s, from |-> ClientKey, wrapped |-> wrapped, msg |-> msg]

\* What the server's loop may read: once each send, and what others write.
Traffic ==
  [r \in Readings |->
     IF r \in Sends
       THEN {ClientEvent(r, wrapped, msg) : wrapped \in BOOLEAN, msg \in Messages}
       ELSE OtherTraffic]

\* The parties, with the theorems about them (ClientTransportProofs extends
\* ClientWorker, ServerTransportProofs extends ServerTransport).  No step of a
\* client depends on its mode, which only gives what it sends its form
\* (SendsWrapped); a server is one of three, by its mode.
Client == INSTANCE ClientTransportProofs WITH
  OtherKeys <- OtherClients, Stateless <- FALSE,
  Bodies <- {"response", "notification", "malformed"},
  Unconvertible <- {}, EncryptionMode <- "Optional", loop <- c_loop

Optional == INSTANCE ServerTransportProofs WITH
  Messages <- ServerMessages,
  AllowedKeys <- {}, ExcludedCapabilities <- {}, EncryptionMode <- "Optional",
  loop <- s_loop

Required == INSTANCE ServerTransportProofs WITH
  Messages <- ServerMessages,
  AllowedKeys <- {}, ExcludedCapabilities <- {}, EncryptionMode <- "Required",
  loop <- s_loop

Disabled == INSTANCE ServerTransportProofs WITH
  Messages <- ServerMessages,
  AllowedKeys <- {}, ExcludedCapabilities <- {}, EncryptionMode <- "Disabled",
  loop <- s_loop

ASSUME KeyAssumption ==
  /\ ClientKey \notin OtherClients /\ ServerKey \notin OtherClients
  /\ Sends \cap OtherReadings = {} /\ Sends \cap Events = {}
\* Anything, in the name of anyone.
ASSUME TrafficAssumption ==
  /\ OtherTraffic \subseteq
       [id : EventIds, from : Clients, wrapped : BOOLEAN, msg : ServerMessages]
  /\ StrangerTraffic \subseteq Client!Inbound
ASSUME MessageAssumption ==
  /\ \A m \in Messages : m.kind \in {"request", "notification", "response"}
  /\ \A m \in ServerMessages :
       /\ m.kind \in Optional!MessageKinds
       /\ m.token \in Tokens \cup {None}
       /\ m.kind = "request" => m.id \in RequestIds
ASSUME NoneAssumption ==
  /\ None \notin Clients \cup Readings \cup EventIds \cup Messages \cup RequestIds
                 \cup Tokens \cup Events
  /\ None \notin Client!Inbound \cup Optional!Inbound \cup Optional!Session
  /\ None \notin Optional!Responses \cup Optional!Notifications

Init ==
  /\ client_mode \in EncryptionModes
  /\ server_mode \in EncryptionModes
  /\ Client!WorkerInit
  /\ Optional!Init    \* the same in every mode
  /\ carried = EmptyMap(Events)

-----------------------------------------------------------------------------
(* The two parties *)

ClientStep ==
  /\ Client!OwnStep
  /\ UNCHANGED <<modes, server, carried>>

ServerStep ==
  /\ \/ server_mode = "Optional" /\ Optional!OwnStep
     \/ server_mode = "Required" /\ Required!OwnStep
     \/ server_mode = "Disabled" /\ Disabled!OwnStep
  /\ UNCHANGED <<modes, client, carried>>

-----------------------------------------------------------------------------
(* The relays *)

\* send_mcp_message, as send calls it: it leaves the form to the mode.
SendsWrapped == ShouldEncrypt(client_mode, FALSE, "none")

\* What the server's loop reads of a send: in a wrap, too, the signed event with
\* its author and its id, so the form is all that a wrap changes.
EventOf(s) == ClientEvent(s, SendsWrapped, sends[s].msg)

\* What the client's loop reads of a publication: the author and the e tag, here
\* too of the event within a wrap.
EventFor(p) ==
  [from |-> ServerKey, e_tag |-> p.event, wrapped |-> p.encrypted,
   body |-> IF p.kind = "response" THEN "response" ELSE "notification"]

\* An event comes to the server's loop.
ServerReads(r, ev) ==
  /\ \/ server_mode = "Optional" /\ Optional!Read(r, ev)
     \/ server_mode = "Required" /\ Required!Read(r, ev)
     \/ server_mode = "Disabled" /\ Disabled!Read(r, ev)
  /\ UNCHANGED <<modes, client, carried>>

\* It is that of a send, or another, in whatever name.
ToServer(s) == sends[s].reached /\ ServerReads(s, EventOf(s))

FromOthers(r, ev) == ServerReads(r, ev)

\* A publication of the server for the client, by its p tag, comes to the relays
\* the client reads.
ToClient(x, p) ==
  /\ p \in published \ {carried[y] : y \in Events}
  /\ p.to = ClientKey
  /\ Client!Post(x, EventFor(p))
  /\ carried' = Put(carried, x, p)
  /\ UNCHANGED <<modes, server, channel, handed, running>>

\* So does an event of anyone else's, in whatever name.
FromStrangers(x, ev) ==
  /\ Client!Post(x, ev)
  /\ UNCHANGED <<modes, server, carried, channel, handed, running>>

Next ==
  \/ ClientStep
  \/ ServerStep
  \/ \E s \in Sends : ToServer(s)
  \/ \E r \in OtherReadings, ev \in OtherTraffic : FromOthers(r, ev)
  \/ \E x \in Events, p \in published : ToClient(x, p)
  \/ \E x \in Events, ev \in StrangerTraffic : FromStrangers(x, ev)

Spec == Init /\ [][Next]_vars

-----------------------------------------------------------------------------
(* Safety *)

\* What the server has read in the client's name.
InItsName == {r \in Keys(origin) : origin[r].from = ClientKey}

\* Send s is not the client's only word under its id: another message was read
\* with that id, or one that has it for its progress token.
Misused(s) ==
  \E r \in InItsName : \/ /\ origin[r].id = s
                           /\ origin[r].msg # sends[s].msg
                        \/ origin[r].msg.token = s

\* A response of the server that a handler is given answers a request of its own,
\* and carries that request's JSON-RPC id, which the two transports never exchange
\* but through the id of its event; or the one the server's application gave it,
\* when the session expired while it was answered.  Other clients may use the same
\* ids and tokens, be answered at the same time, or wrap the request again: only a
\* second use of the event's id in the client's own name makes a difference.
RightAnswer ==
  \A i \in 1 .. Len(handed) :
    LET p == carried[handed[i]] IN
    p # None /\ p.kind = "response" =>
      /\ p.event \in Sends
      /\ sends[p.event].msg.kind = "request"
      /\ p.id \in {sends[p.event].msg.id, AppId} \/ Misused(p.event)

\* The pairs of modes in which the server reads what the client sends.
Compatible ==
  \/ server_mode = "Optional"
  \/ server_mode = "Required" /\ client_mode # "Disabled"
  \/ server_mode = "Disabled" /\ client_mode = "Disabled"

\* The client hears only of servers that can read it, and always in the form it
\* writes in itself, so that it keeps its mode although its loop does not look
\* at it: a Required client is never answered in plain, a Disabled one never in
\* a gift wrap.  The exception is a client in whose name the server has also read
\* an event of the other form, such as its own plain one that someone has wrapped.
FormsAgree ==
  \A i \in 1 .. Len(handed) :
    carried[handed[i]] # None =>
      \/ Compatible /\ inbox[handed[i]].wrapped = SendsWrapped
      \/ \E r \in InItsName : origin[r].wrapped # SendsWrapped

\* What the server takes for answered, the client has not lost: while it waits
\* for a request whose send_response has returned, the response is at a relay, or
\* not read yet, or was read before the request was registered, and dropped;
\* unless the id of the request was also read in another client's name, and the
\* answer may have been that one's.
AnswerIsOnItsWay ==
  \A s \in pending_requests, t \in Calls :
    calls[t].pc = "ok" /\ calls[t].event = s =>
      \/ \E p \in published :
           /\ p.kind = "response"
           /\ p.event = s /\ p.to = ClientKey
           /\ \A x \in Events :
                carried[x] = p => x \notin read \/ x = c_loop \/ x \in unknown
      \/ \E r \in Keys(origin) \ InItsName : origin[r].id = s
=============================================================================
