---------------------------- MODULE ClientWorker ----------------------------
(***************************************************************************)
(* NostrClientWorker (src/rmcp_transport/worker.rs): the task that puts an *)
(* rmcp service in front of a NostrClientTransport.  One select loop takes *)
(* messages from the transport's channel to the handler, and from the      *)
(* handler to the transport; it awaits each send to its end, so it has at  *)
(* most one in progress, and never drops one.                              *)
(***************************************************************************)
EXTENDS ClientTransport, Sequences

CONSTANT Unconvertible  \* those of Events whose messages have no rmcp form

VARIABLES
  channel,  \* the transport's channel: events, and sends it answered itself
  handed,   \* what the handler was given, in order
  running   \* the select loop

worker == <<channel, handed, running>>

allVars == <<vars, worker>>

WorkerInit ==
  /\ Init
  /\ channel = <<>>
  /\ handed = <<>>
  /\ running = TRUE

-----------------------------------------------------------------------------

\* The transport's event loop, which the end of the worker does not stop.
Background ==
  /\ \E x \in Events : Receive(x)
  /\ UNCHANGED worker

Enqueue ==
  /\ Deliver
  /\ channel' = Append(channel, loop)
  /\ UNCHANGED <<handed, running>>

Sending == \E s \in Sends : sends[s].pc \in {"publish", "register"}

\* The loop is at its select.
Free == running /\ ~Sending

\* The handler sends a message.  The transport may answer it at once, into its
\* own channel.
TakeOutbound(s, m) ==
  /\ Free
  /\ CallSend(s, m)
  /\ channel' = IF IsEmulated(m) THEN Append(channel, s) ELSE channel
  /\ UNCHANGED <<handed, running>>

\* The send in progress goes on.
Continue ==
  /\ \E s \in Sends : SendStep(s)
  /\ UNCHANGED worker

\* The message of x has an rmcp form (internal_to_rmcp_client_rx).
Converts(x) == x \notin Unconvertible

\* The handler is given the next message, if it has one.
HandOver ==
  /\ Free
  /\ channel # <<>>
  /\ channel' = Tail(channel)
  /\ handed' = IF Converts(Head(channel))
                 THEN Append(handed, Head(channel)) ELSE handed
  /\ UNCHANGED <<vars, running>>

\* Cancelled, or the handler is gone.
Quit ==
  /\ Free
  /\ running' = FALSE
  /\ UNCHANGED <<vars, channel, handed>>

WorkerStep == Background \/ Enqueue \/ Continue \/ HandOver

\* What a client does by itself.
OwnStep ==
  \/ WorkerStep
  \/ \E s \in Sends, m \in Messages : TakeOutbound(s, m)
  \/ Quit

WorkerNext ==
  \/ OwnStep
  \/ \E x \in Events, ev \in Inbound : Post(x, ev) /\ UNCHANGED worker

WorkerSpec == WorkerInit /\ [][WorkerNext]_allVars
=============================================================================
