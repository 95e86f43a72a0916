------------------------------ MODULE Lifecycle ------------------------------
(***************************************************************************)
(* Starting, stopping and starting again a NostrMCPGateway                 *)
(* (src/gateway/mod.rs) with its NostrServerTransport, its BaseTransport   *)
(* and its RelayPool; NostrMCPProxy with its client transport does the     *)
(* same.  start and stop borrow the gateway exclusively, so one call is in *)
(* progress at a time; either may fail, and its caller may drop it, at     *)
(* each await.  A start spawns an event loop, which nothing ever joins: it *)
(* reads the relay pool's notifications, a broadcast channel of bounded    *)
(* capacity in which a receiver sees what is sent after it was made, and   *)
(* which tells a receiver that fell too far behind that it lagged.         *)
(***************************************************************************)
EXTENDS Integers, Sequences, FiniteSets

CONSTANTS
  Events,    \* what the relays have for this endpoint; the pool reports each once
  FilterOf,  \* the subscription filter, by position, each event needs
  Capacity,  \* of the broadcast channel
  MaxLoops   \* bound on the number of loops, and so of restarts

\* Plain messages, gift wraps, ephemeral gift wraps.
Filters == 3

ASSUME FilterAssumption == FilterOf \in [Events -> 1 .. Filters]
ASSUME CapacityAssumption == Capacity \in Nat \ {0}
ASSUME LoopAssumption == MaxLoops \in Nat

VARIABLES
  is_running,    \* of the gateway
  is_connected,  \* of the base transport
  filters,       \* how many of the filters the relays know
  receiver,      \* message_rx: "kept" by the transport, "taken", or "dropped"
  op,            \* where the start or stop in progress stands
  result,        \* of the latest start
  loops,         \* the event loops spawned, ended ones included
  stream,        \* history: every notification sent
  channel,       \* history: every message sent to the receiver, and by which loop
  stops          \* history: the number of completed stops

vars == <<is_running, is_connected, filters, receiver, op, result, loops, stream,
          channel, stops>>

Loop == [pc : {"spawned", "listening", "lagged"},
         first : Nat \ {0}, next : Nat \ {0}]

Forwarded == [loop : Nat, event : Events]

TypeOK ==
  /\ is_running \in BOOLEAN
  /\ is_connected \in BOOLEAN
  /\ filters \in 0 .. Filters
  /\ receiver \in {"kept", "taken", "dropped"}
  /\ op \in {"none", "connect", "key", "subscribe", "clear"}
  /\ result \in {"none", "receiver", "running", "taken", "failed"}
  /\ loops \in Seq(Loop)
  /\ stream \in Seq(Events)
  /\ channel \in Seq(Forwarded)
  /\ stops \in Nat

Init ==
  /\ is_running = FALSE
  /\ is_connected = FALSE
  /\ filters = 0
  /\ receiver = "kept"
  /\ op = "none"
  /\ result = "none"
  /\ loops = <<>>
  /\ stream = <<>>
  /\ channel = <<>>
  /\ stops = 0

-----------------------------------------------------------------------------
(* start *)

\* A gateway that runs refuses to start.
RefuseStart ==
  /\ op = "none"
  /\ is_running
  /\ result' = "running"
  /\ UNCHANGED <<is_running, is_connected, filters, receiver, op, loops, stream,
                 channel, stops>>

\* Mutant of BeginStart: the receiver is taken out first.
BeginStartTaking ==
  /\ op = "none"
  /\ ~is_running
  /\ op' = "connect"
  /\ receiver' = IF receiver = "kept" THEN "taken" ELSE receiver
  /\ UNCHANGED <<is_running, is_connected, filters, result, loops, stream, channel,
                 stops>>

BeginStart ==
  /\ op = "none"
  /\ ~is_running
  /\ op' = "connect"
  /\ UNCHANGED <<is_running, is_connected, filters, receiver, result, loops, stream,
                 channel, stops>>

\* The base transport connects, unless it thinks it is connected.
Connect ==
  /\ op = "connect"
  /\ is_connected' = TRUE
  /\ op' = "key"
  /\ UNCHANGED <<is_running, filters, receiver, result, loops, stream, channel, stops>>

\* The signer gives the public key.
GetPublicKey ==
  /\ op = "key"
  /\ op' = "subscribe"
  /\ UNCHANGED <<is_running, is_connected, filters, receiver, result, loops, stream,
                 channel, stops>>

\* Mutant of FailStart: the filters of one start add to those of the last.
FailStartAdding(k) ==
  /\ \/ op = "connect" /\ ~is_connected /\ k = 0
     \/ op = "key" /\ k = 0
     \/ op = "subscribe"
  /\ filters' = filters + k
  /\ op' = "none"
  /\ result' = "failed"
  /\ UNCHANGED <<is_running, is_connected, receiver, loops, stream, channel, stops>>

\* Any of the three fails, or the caller drops the call while it awaits it: a
\* relay url is bad, the signer does not answer, or only the first k filters
\* were taken.  What was done before stays done.
FailStart(k) ==
  /\ \/ op = "connect" /\ ~is_connected /\ k = 0
     \/ op = "key" /\ k = 0
     \/ op = "subscribe"
  /\ filters' = IF k > filters THEN k ELSE filters
  /\ op' = "none"
  /\ result' = "failed"
  /\ UNCHANGED <<is_running, is_connected, receiver, loops, stream, channel, stops>>

NewLoop == [pc |-> "spawned", first |-> 1, next |-> 1]

\* Mutant of FinishStart: the gateway runs only if it has a receiver to return.
FinishStartStrict ==
  /\ op = "subscribe"
  /\ Len(loops) < MaxLoops
  /\ filters' = Filters
  /\ loops' = Append(loops, NewLoop)
  /\ is_running' = (receiver = "kept")
  /\ receiver' = IF receiver = "kept" THEN "taken" ELSE receiver
  /\ result' = IF receiver = "kept" THEN "receiver" ELSE "taken"
  /\ op' = "none"
  /\ UNCHANGED <<is_connected, stream, channel, stops>>

\* The last filter is subscribed; from here to the end nothing is awaited.  The
\* loop is spawned, the gateway runs, and the receiver, if the transport still
\* has it, is returned.
FinishStart ==
  /\ op = "subscribe"
  /\ Len(loops) < MaxLoops
  /\ filters' = Filters
  /\ loops' = Append(loops, NewLoop)
  /\ is_running' = TRUE
  /\ receiver' = IF receiver = "kept" THEN "taken" ELSE receiver
  /\ result' = IF receiver = "kept" THEN "receiver" ELSE "taken"
  /\ op' = "none"
  /\ UNCHANGED <<is_connected, stream, channel, stops>>

-----------------------------------------------------------------------------
(* stop *)

\* A running gateway closes its transport, which disconnects, if it is connected.
Disconnect ==
  /\ op = "none"
  /\ is_running
  /\ is_connected' = FALSE
  /\ op' = "clear"
  /\ UNCHANGED <<is_running, filters, receiver, result, loops, stream, channel, stops>>

\* The caller drops it while it waits for the locks of the two maps.
DropStop ==
  /\ op = "clear"
  /\ op' = "none"
  /\ UNCHANGED <<is_running, is_connected, filters, receiver, result, loops, stream,
                 channel, stops>>

\* The maps are cleared (ServerTransport) and the gateway runs no more.
FinishStop ==
  /\ op = "clear"
  /\ op' = "none"
  /\ is_running' = FALSE
  /\ stops' = stops + 1
  /\ UNCHANGED <<is_connected, filters, receiver, result, loops, stream, channel>>

-----------------------------------------------------------------------------
(* The relays, the loops, the application *)

Sent == {stream[k] : k \in 1 .. Len(stream)}

\* The pool reports an event some relay has sent for a filter it knows.
Notification(e) ==
  /\ is_connected
  /\ e \notin Sent
  /\ FilterOf[e] <= filters
  /\ stream' = Append(stream, e)
  /\ UNCHANGED <<is_running, is_connected, filters, receiver, op, result, loops,
                 channel, stops>>

\* A spawned loop runs for the first time, and makes its receiver of
\* notifications: what was sent before is lost to it.
Listen(i) ==
  /\ loops[i].pc = "spawned"
  /\ loops' = [loops EXCEPT ![i] = [pc |-> "listening", first |-> Len(stream) + 1,
                                    next |-> Len(stream) + 1]]
  /\ UNCHANGED <<is_running, is_connected, filters, receiver, op, result, stream,
                 channel, stops>>

Behind(i) == Len(stream) - loops[i].next + 1

\* Mutant of Read: the loop ends once the transport is disconnected.
ReadConnected(i) ==
  LET e == stream[loops[i].next] IN
  /\ loops[i].pc = "listening"
  /\ Behind(i) \in 1 .. Capacity
  /\ is_connected
  /\ loops' = [loops EXCEPT ![i].next = @ + 1]
  /\ channel' = IF receiver = "dropped"
                  THEN channel
                  ELSE Append(channel, [loop |-> i, event |-> e])
  /\ UNCHANGED <<is_running, is_connected, filters, receiver, op, result, stream,
                 stops>>

\* A loop reads the next notification and sends it to the receiver; that there
\* is none any more is not noticed.
Read(i) ==
  LET e == stream[loops[i].next] IN
  /\ loops[i].pc = "listening"
  /\ Behind(i) \in 1 .. Capacity
  /\ loops' = [loops EXCEPT ![i].next = @ + 1]
  /\ channel' = IF receiver = "dropped"
                  THEN channel
                  ELSE Append(channel, [loop |-> i, event |-> e])
  /\ UNCHANGED <<is_running, is_connected, filters, receiver, op, result, stream,
                 stops>>

\* Mutant of Lag: the loop goes on with the oldest notification still there.
Skip(i) ==
  /\ loops[i].pc = "listening"
  /\ Behind(i) > Capacity
  /\ loops' = [loops EXCEPT ![i].next = Len(stream) - Capacity + 1]
  /\ UNCHANGED <<is_running, is_connected, filters, receiver, op, result, stream,
                 channel, stops>>

\* A loop that lags is given an error instead, and ends for good.
Lag(i) ==
  /\ loops[i].pc = "listening"
  /\ Behind(i) > Capacity
  /\ loops' = [loops EXCEPT ![i].pc = "lagged"]
  /\ UNCHANGED <<is_running, is_connected, filters, receiver, op, result, stream,
                 channel, stops>>

\* The application drops the receiver it was given.
DropReceiver ==
  /\ receiver = "taken"
  /\ receiver' = "dropped"
  /\ UNCHANGED <<is_running, is_connected, filters, op, result, loops, stream,
                 channel, stops>>

-----------------------------------------------------------------------------

LoopStep(i) == Listen(i) \/ Read(i) \/ Lag(i)

Next ==
  \/ RefuseStart
  \/ BeginStart
  \/ Connect
  \/ GetPublicKey
  \/ \E k \in 0 .. Filters - 1 : FailStart(k)
  \/ FinishStart
  \/ Disconnect
  \/ DropStop
  \/ FinishStop
  \/ \E e \in Events : Notification(e)
  \/ \E i \in DOMAIN loops : LoopStep(i)
  \/ DropReceiver

Spec == Init /\ [][Next]_vars

\* The runtime runs every loop that has something to do.  Relays, the
\* application and its calls owe nothing.
Fairness ==
  \A i \in 1 .. MaxLoops : WF_vars(i \in DOMAIN loops /\ LoopStep(i))

FairSpec == Spec /\ Fairness

-----------------------------------------------------------------------------
(* Safety *)

\* Whatever starts and stops fail, are dropped half way or are tried again, one
\* event loop is spawned for each time the gateway comes to run: more would
\* answer every request once each.
OneLoopPerCycle == Len(loops) <= IF is_running THEN stops + 1 ELSE stops

\* Failed and dropped starts do not cost the gateway its receiver: a start can
\* fail for want of it only after a completed stop.
FirstStartHasReceiver == result = "taken" => stops > 0

\* Where in the channel the messages of loop i are, and those before place p.
SentBy(i) == {p \in DOMAIN channel : channel[p].loop = i}
SentBefore(i, p) == {q \in SentBy(i) : q < p}

\* A loop forwards a gapless stretch of the notifications, in their order, from
\* its first on: it ends rather than skip what it was too slow for, and a lost
\* connection, a stop or another loop do not make it skip either.
NoGaps ==
  \A i \in DOMAIN loops :
    /\ \A p \in SentBy(i) :
         channel[p].event = stream[loops[i].first + Cardinality(SentBefore(i, p))]
    /\ Cardinality(SentBy(i)) <= loops[i].next - loops[i].first
    /\ receiver # "dropped" =>
         Cardinality(SentBy(i)) = loops[i].next - loops[i].first

-----------------------------------------------------------------------------
(* The inductive invariant behind the first two, and the one behind the third *)

LifecycleInvariant ==
  /\ OneLoopPerCycle
  /\ FirstStartHasReceiver
  /\ op \in {"connect", "key", "subscribe"} => ~is_running
  /\ op = "clear" => is_running
  /\ receiver # "kept" => loops # <<>>

\* Every loop reads inside the stream, and what it has sent comes before what
\* it reads next.
ChannelInvariant ==
  /\ \A p \in DOMAIN channel : channel[p].loop \in DOMAIN loops
  /\ \A i \in DOMAIN loops :
       /\ loops[i].next <= Len(stream) + 1
       /\ loops[i].pc = "spawned" => loops[i].next = loops[i].first
       /\ \A p \in SentBy(i) :
            Cardinality(SentBefore(i, p)) < loops[i].next - loops[i].first
  /\ NoGaps

-----------------------------------------------------------------------------
(* Liveness, under Fairness *)

\* A loop that listens comes to every notification there is, also once the
\* endpoint is stopped, or it has lagged.
HeardIsRead ==
  \A i \in 1 .. MaxLoops, e \in Events :
    (i \in DOMAIN loops /\ loops[i].pc = "listening" /\ e \in Sent)
      ~> /\ i \in DOMAIN loops
         /\ \/ loops[i].pc = "lagged"
            \/ \E k \in 1 .. loops[i].next - 1 : stream[k] = e

-----------------------------------------------------------------------------
(* What the documentation says, and the code does not do *)

\* gateway/mod.rs, start: "Start the gateway. Returns a receiver for incoming
\* requests."  Here: of a gateway that does not run, and when nothing fails.
StartReturnsReceiver == result # "taken"
==============================================================================
