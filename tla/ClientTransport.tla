--------------------------- MODULE ClientTransport ---------------------------
(***************************************************************************)
(* NostrClientTransport (src/transport/client.rs): any number of tasks     *)
(* inside send, and one event loop, share the set pending_requests.  send  *)
(* publishes first and registers the event's id afterwards; the loop       *)
(* checks a response against the set under a read lock, parses it, and     *)
(* takes its id out under a write lock.  Relays and the server are the     *)
(* environment: events arrive late, in any order, or not at all.  The      *)
(* author of an event within a gift wrap is taken as it stands there, so   *)
(* what is read in the server's name may be anyone's.                      *)
(***************************************************************************)
EXTENDS BaseTransport, MapOps

CONSTANTS
  Sends,      \* invocations of send; each names the event it signs as well
  Messages,   \* what the application may send
  Events,     \* ids of the events addressed to this client
  ServerKey,  \* config.server_pubkey
  OtherKeys,  \* keys of anyone else who writes to this client
  Bodies,     \* what an inbound event may carry
  Stateless,  \* config.is_stateless
  EncryptionMode \* config.encryption_mode

ASSUME ModeAssumption == EncryptionMode \in EncryptionModes
ASSUME StatelessAssumption == Stateless \in BOOLEAN
ASSUME ServerAssumption == ServerKey \notin OtherKeys
ASSUME BodyAssumption == Bodies \subseteq {"response", "notification", "malformed"}
ASSUME MessageAssumption ==
  \A m \in Messages : m.kind \in {"request", "notification", "response"}
ASSUME NoneAssumption == None \notin Sends \cup Events \cup Messages
ASSUME IdAssumption == Sends \cap Events = {}

VARIABLES
  sends,            \* the progress of each send
  pending_requests, \* ids of requests awaiting a response
  emulated,         \* initialize requests answered locally
  inbox,            \* the events that exist on the relays for this client
  read,             \* those the loop has received
  loop,             \* the event the loop has let through, or None
  delivered,        \* those handed to the application
  unknown           \* those dropped as "Response for unknown request"

vars == <<sends, pending_requests, emulated, inbox, read, loop, delivered,
          unknown>>

-----------------------------------------------------------------------------
(* Data *)

SendPc == {"idle", "publish", "register", "ok", "err", "dropped"}

Send == [pc : SendPc, msg : Messages \cup {None}, reached : BOOLEAN]

NoSend == [pc |-> "idle", msg |-> None, reached |-> FALSE]

\* The author, the e tag, and the content of an event for this client, those of
\* the event within if it is a wrap; content that does not parse is "malformed".
\* A gift wrap that does not open has no author the loop could know, and is
\* dropped like one of another author.
Inbound == [from : {ServerKey} \cup OtherKeys, e_tag : Sends \cup {None},
            body : Bodies, wrapped : BOOLEAN]

ASSUME InboundAssumption == None \notin Inbound

Posted == Keys(inbox)

Tag(x) == inbox[x].e_tag

TypeOK ==
  /\ sends \in [Sends -> Send]
  /\ pending_requests \subseteq Sends
  /\ emulated \subseteq Sends
  /\ inbox \in Map(Events, Inbound)
  /\ read \subseteq Posted
  /\ loop \in read \cup {None}
  /\ delivered \subseteq read
  /\ unknown \subseteq read

Init ==
  /\ sends = [s \in Sends |-> NoSend]
  /\ pending_requests = {}
  /\ emulated = {}
  /\ inbox = EmptyMap(Events)
  /\ read = {}
  /\ loop = None
  /\ delivered = {}
  /\ unknown = {}

-----------------------------------------------------------------------------
(* send *)

IsEmulated(m) == Stateless /\ m.kind = "request" /\ m.method = "initialize"

IsSwallowed(m) ==
  Stateless /\ m.kind = "notification" /\ m.method = "notifications/initialized"

\* A stateless client answers initialize itself, and keeps initialized to
\* itself; everything else is to be published.
CallSend(s, m) ==
  /\ sends[s].pc = "idle"
  /\ sends' = [sends EXCEPT ![s] =
       [pc |-> IF IsEmulated(m) \/ IsSwallowed(m) THEN "ok" ELSE "publish",
        msg |-> m, reached |-> FALSE]]
  /\ emulated' = IF IsEmulated(m) THEN emulated \cup {s} ELSE emulated
  /\ UNCHANGED <<pending_requests, inbox, read, loop, delivered, unknown>>

\* Mutant of Publish: a request is registered although it was not sent.
PublishRegardless(s, ok, reached) ==
  /\ sends[s].pc = "publish"
  /\ ok => reached
  /\ sends' = [sends EXCEPT
       ![s].reached = reached,
       ![s].pc = IF sends[s].msg.kind = "request" THEN "register" ELSE "ok"]
  /\ UNCHANGED <<pending_requests, emulated, inbox, read, loop, delivered,
                 unknown>>

\* The event is signed and published.  An error may be reported for an event a
\* relay has kept.
Publish(s, ok, reached) ==
  /\ sends[s].pc = "publish"
  /\ ok => reached
  /\ sends' = [sends EXCEPT
       ![s].reached = reached,
       ![s].pc = CASE ~ok -> "err"
                   [] ok /\ sends[s].msg.kind = "request" -> "register"
                   [] OTHER -> "ok"]
  /\ UNCHANGED <<pending_requests, emulated, inbox, read, loop, delivered,
                 unknown>>

\* Only now is a request's id put in the set the loop looks it up in.
Register(s) ==
  /\ sends[s].pc = "register"
  /\ pending_requests' = pending_requests \cup {s}
  /\ sends' = [sends EXCEPT ![s].pc = "ok"]
  /\ UNCHANGED <<emulated, inbox, read, loop, delivered, unknown>>

\* The caller drops the future at one of its awaits.
DropSend(s) ==
  /\ sends[s].pc \in {"publish", "register"}
  /\ sends' = [sends EXCEPT ![s].pc = "dropped"]
  /\ UNCHANGED <<pending_requests, emulated, inbox, read, loop, delivered,
                 unknown>>

-----------------------------------------------------------------------------
(* The environment *)

\* The requests the server can know of.
OnRelay == {s \in Sends : sends[s].reached}

Requests == {s \in OnRelay : sends[s].msg.kind = "request"}

\* The server answers a request, perhaps again, or notifies, on behalf of a
\* request or of none; anyone else may write the same, in a wrap in its name too.
\* An event tagged with what is none of the requests is dropped, and left out.
Post(x, ev) ==
  /\ inbox[x] = None
  /\ ev.e_tag \in Requests \cup {None}
  /\ inbox' = Put(inbox, x, ev)
  /\ UNCHANGED <<sends, pending_requests, emulated, read, loop, delivered,
                 unknown>>

-----------------------------------------------------------------------------
(* The event loop *)

\* Mutants of Receive.  The position in the stream is not kept; the id is taken
\* out before the content is parsed; plain events are skipped.
ReceiveInPlace(x) ==
  /\ loop = None
  /\ x \in Posted \ read
  /\ loop' = x
  /\ UNCHANGED <<sends, pending_requests, emulated, inbox, read, delivered, unknown>>
ReceiveEagerly(x) ==
  /\ loop = None
  /\ x \in Posted \ read
  /\ read' = read \cup {x}
  /\ pending_requests' = pending_requests \ {Tag(x)}
  /\ loop' = IF inbox[x].from = ServerKey /\ inbox[x].body # "malformed"
               THEN x ELSE None
  /\ UNCHANGED <<sends, emulated, inbox, delivered, unknown>>
ReceiveWrapped(x) ==
  /\ loop = None
  /\ x \in Posted \ read
  /\ read' = read \cup {x}
  /\ loop' = IF inbox[x].from = ServerKey /\ inbox[x].wrapped /\ Tag(x) \in pending_requests
               THEN x ELSE None
  /\ UNCHANGED <<sends, pending_requests, emulated, inbox, delivered, unknown>>

\* The loop receives an event: it skips the one of another author, drops the
\* one tagged with an id it does not know, ignores what does not parse, and
\* lets the rest through.
Receive(x) ==
  LET ev == inbox[x]
      known == ev.e_tag = None \/ ev.e_tag \in pending_requests
      ours == ev.from = ServerKey
  IN
  /\ loop = None
  /\ x \in Posted \ read
  /\ read' = read \cup {x}
  /\ unknown' = IF ours /\ ~known THEN unknown \cup {x} ELSE unknown
  /\ loop' = IF ours /\ known /\ ev.body # "malformed" THEN x ELSE None
  /\ UNCHANGED <<sends, pending_requests, emulated, inbox, delivered>>

\* Mutant of Deliver: the request stays registered.
DeliverAndKeep ==
  /\ loop # None
  /\ delivered' = delivered \cup {loop}
  /\ loop' = None
  /\ UNCHANGED <<sends, pending_requests, emulated, inbox, read, unknown>>

\* It takes the id out of the set and hands the message over.
Deliver ==
  /\ loop # None
  /\ pending_requests' = pending_requests \ {Tag(loop)}
  /\ delivered' = delivered \cup {loop}
  /\ loop' = None
  /\ UNCHANGED <<sends, emulated, inbox, read, unknown>>

-----------------------------------------------------------------------------

SendStep(s) ==
  \/ \E ok, reached \in BOOLEAN : Publish(s, ok, reached)
  \/ Register(s)

Next ==
  \/ \E s \in Sends, m \in Messages : CallSend(s, m)
  \/ \E s \in Sends : SendStep(s) \/ DropSend(s)
  \/ \E x \in Events, ev \in Inbound : Post(x, ev)
  \/ \E x \in Events : Receive(x)
  \/ Deliver

Spec == Init /\ [][Next]_vars

\* Tasks inside send run and the loop runs; relays deliver what they hold, and
\* the stream of events is a queue, so none is passed over for ever.  The
\* server owes no answer.
Fairness ==
  /\ \A s \in Sends : WF_vars(SendStep(s))
  /\ \A x \in Events : SF_vars(Receive(x))
  /\ WF_vars(Deliver)

FairSpec == Spec /\ Fairness

-----------------------------------------------------------------------------
(* Safety *)

\* A request has at most one answer: of the messages tagged with it at most one
\* reaches the application, however often the server, or who writes in its name,
\* answers or notifies, and none if the answer was emulated.  Check and removal are
\* under two locks; the loop being alone is what makes them one.
AtMostOneAnswer ==
  \A x \in delivered :
    Tag(x) # None =>
      /\ Tag(x) \notin emulated
      /\ \A y \in delivered : Tag(y) = Tag(x) => y = x

\* What is pending is exactly what was sent as a request, registered, and has had
\* no answer: a registration that comes after the answer, or twice, would leave
\* an id in the set for ever, and a removal before the message is known to parse
\* would leave a wait that nothing can end.
PendingIsUnanswered ==
  \A s \in Sends :
    s \in pending_requests <=>
      /\ s \in Requests /\ sends[s].pc = "ok"
      /\ \A x \in delivered : Tag(x) # s

\* A request is forgotten only when something tagged with it is delivered: not
\* by a stranger's event, an unreadable one, or an answer to another request.
ForgottenOnlyWhenAnswered ==
  [][\A s \in pending_requests \ pending_requests' :
       \E x \in delivered' \ delivered : inbox[x].e_tag = s]_vars

-----------------------------------------------------------------------------
(* The inductive invariant behind them *)

\* A request is pending after it was sent, registered once, and before its
\* answer; the loop lets an answer through only while its request is pending.
Registration ==
  /\ \A s \in pending_requests : sends[s].pc = "ok"
  /\ \A s \in Sends : sends[s].pc = "register" => s \in Requests
  /\ \A s \in emulated : sends[s].pc = "ok" /\ s \notin OnRelay
  /\ \A s \in OnRelay : sends[s].pc # "idle" /\ sends[s].pc # "publish"
  /\ \A x \in Posted : Tag(x) # None => Tag(x) \in Requests
  /\ \A x \in delivered : Tag(x) # None => sends[Tag(x)].pc = "ok"
  /\ loop # None => /\ loop \notin delivered
                    /\ Tag(loop) # None => Tag(loop) \in pending_requests

Correlation == Registration /\ PendingIsUnanswered /\ AtMostOneAnswer

-----------------------------------------------------------------------------
(* Liveness, under Fairness *)

\* A well-formed response of the server to a request that is registered by then
\* ends the wait for it.
AnswerEndsWait ==
  \A s \in Sends, x \in Events :
    ( /\ s \in pending_requests
      /\ x \in Posted \ read
      /\ inbox[x].from = ServerKey
      /\ inbox[x].e_tag = s
      /\ inbox[x].body # "malformed" )
    ~> s \notin pending_requests

-----------------------------------------------------------------------------
(* What the documentation says, and the code does not do *)

\* The server's comment, "the client registers the inner event ID in its
\* correlation store", and DESIGN.md, "send request, receive correlated
\* response": once send has returned without an error, the response to the request
\* was known when it came, unless another had been delivered by then.
ResponseIsKnown ==
  \A x \in unknown :
    inbox[x].body = "response" /\ sends[Tag(x)].pc = "ok" =>
      \E y \in delivered : Tag(y) = Tag(x)

\* types.rs, Required: "Enforce encryption for all messages; reject plaintext".
\* The loop is given the mode and never looks at it.
RequiredRejectsPlaintext ==
  EncryptionMode = "Required" => \A x \in delivered : inbox[x].wrapped
==============================================================================
