# contextvm-sdk in TLA+

A verification development for the Rust SDK of ContextVM, which carries the
Model Context Protocol (JSON-RPC 2.0) over Nostr relays. Paths are relative to
the root of the repository.

## The system

| component | source | state | operations |
|---|---|---|---|
| server transport | `src/transport/server.rs` | `sessions` (client key → session: initialized, encrypted, last activity, pending requests, progress tokens) and `event_to_client` (event id → client key), each behind its own lock; a channel of incoming messages | an event loop, a cleanup task, `send_response`, `send_notification`, `broadcast_notification`, `close`, announcements |
| client transport | `src/transport/client.rs` | `pending_requests`, a set of event ids behind a lock; a channel of incoming messages | `send` (with the emulated handshake of a stateless client), an event loop, `close` |
| base transport | `src/transport/base.rs` | the relay pool, the mode, `is_connected` | connect, disconnect, subscribe, sign and publish (`send_mcp_message`), `should_encrypt` |
| rmcp server worker | `src/rmcp_transport/worker.rs` | `active_client_pubkey`, `request_id_to_event_id` | a select loop between the transport's channel and an rmcp handler |
| rmcp client worker | same file | none of its own | the same select loop around a client transport; one send at a time |
| gateway, proxy | `src/gateway/mod.rs`, `src/proxy/mod.rs` | `is_running` | start, send, stop |
| relay pool | `src/relay/mod.rs` | the nostr-sdk client | connect, publish, subscribe |
| subscriptions | `src/transport/base.rs` | the `since` of three filters, at the relays | `subscribe_for_pubkey`, once per start |
| announcements | `src/transport/server.rs` | replaceable events at the relays | announce, publish a list, delete all |
| discovery | `src/discovery/mod.rs` | none | fetch servers and lists from all relays |
| encryption | `src/encryption/mod.rs` | none | NIP-44, gift wraps of one layer |
| core | `src/core/*` | none | JSON-RPC types, validation, serialization, constants |
| logger, signer | `src/util/logger.rs`, `src/signer/mod.rs` | a log file | |

**Interaction.** A client's `send` signs an event and publishes it, wrapped or
plain. A relay hands it to the server's event loop, which filters it, records
its sender and, for a request, its id in both maps, and forwards it through a
channel. The application (a gateway's owner, or the rmcp worker) calls
`send_response` with the event's id; this looks the client up in one map and its
session in the other, publishes an event tagged with the request's, and removes
the request from both maps. The client's loop looks the tag up in its set,
removes it, and hands the message to its application.

**What is hard.** All of it runs on tasks of one runtime. The server's two maps
must agree although `send_response` takes their locks four times, with a
publication in between, while the loop and the cleanup task take both at once
and `close` one after the other. A session may expire, and be made anew,
between any two of these steps. A publication may fail, or fail after a relay
has kept the event. A caller may drop the future of any call at any of its
awaits. On the client, publication comes before registration, and the lookup
and the removal of an id are two steps. Relays deliver late, twice, out of
order or never. Behind the rmcp worker, requests are known by their JSON-RPC id
only, which their clients choose. A process that restarts remembers nothing, and
only the second in its filters keeps it from serving stored requests again.
Neither end verifies the event within a gift wrap, or remembers which it has read:
the id, the author and the content that correlation rests on are what stands
there, so one event may be read again in another wrap, and one id with several
authors or contents. A progress token is any string, and shares one key space
with the ids of events; behind the rmcp worker an unknown JSON-RPC id is taken for
the id of an event.
Relays hold different versions of an announcement, two versions may be of one
second, and a deletion may stop half way.

**What must hold.** For the server: an answer goes to a client that asked under
its id, with an id of this client's own; the two maps lead to each other; no
request is lost but with the session of a client that used its id; keys outside
the allow list get nothing they are not entitled to; the mode is kept; silent
sessions go away. For the client: one answer per request,
requests are forgotten only when answered, an answer ends the wait. For the
worker: one peer, results reach the requests they were made for. For the life
cycle: one event loop for each start, a receiver that later failures do not take
away, and what a loop forwards is what it was sent, in order. For both ends
together: the right response, in the form the client writes in, and no response
lost but by the relays or a late registration. For a restart: no stored request
is served twice but in a window that can be named. For discovery: the newest
version any answering relay had, and every server it had.

## Modules

| module | models |
|---|---|
| `MapOps` | `HashMap`: a total function with `None` where there is no entry |
| `BaseTransport` | the three modes, the caller's wish, `should_encrypt` |
| `ServerTransport` | the server transport: its loop, cleanup, the three sends, `close` |
| `ClientTransport` | the client transport: `send` and its loop; the server and the relays as an environment |
| `ServerWorker` | the server worker in front of the server transport: it extends `ServerTransport`, and each of its steps is a step of the transport's own tasks, of the worker, or of both |
| `Lifecycle` | start, stop and start again of a gateway with its transport and relay pool; the event loops that starts leave behind, and the bounded stream they read |
| `RequestLedger` | the abstract specification: what a server transport promises of a request |
| `ServerLedger` | the refinement mapping from `ServerTransport` to `RequestLedger` |
| `ClientWorker` | the client worker around the client transport: it extends `ClientTransport` |
| `RpcSession` | a `ClientWorker` and a `ServerTransport`, each in a mode of its own, the relays between them, the server's other clients, and whoever else writes to either |
| `Subscriptions` | the three filters, their dates, and an endpoint that crashes and starts again |
| `Announcements` | announcements, lists and their deletion; relays; discovery |
| `MC*` | messages and symmetry sets for TLC |
| `*Proofs` | theorems, checked by TLAPS |

### ServerTransport

`sessions` and `event_to_client` are the two maps. A *reading* is one passage of
the event loop; `origin`, a history, says what each reading found: an id, an
author, a form and a message. `Traffic` says what each may find, and it is any
event at all, except that the pool verifies plain events and reports none twice
(`Unseen`). So two readings may find the same event in two wraps, or one id with
two authors or two messages. Where a comment says that a client has sent or asked
something, it means that this was read in its name. `loop` is the reading that was
tracked and is not yet forwarded, `forwarded` those that were. `calls` and
`notices` hold the progress of each `send_response` and each `send_notification`
or `broadcast_notification`; they are identified by the elements of `Calls` and
`Notices`, which bound how many there are. `published` is what a relay has kept,
and `phase` is where `close` stands.

| action | code |
|---|---|
| `Discard`, `Track` | one turn of `event_loop` up to the release of the session lock. The mode filter, parsing and authorization decide which of the two; `Track` makes or updates the session and enters the request in both maps, over what another reading may have put there. It is one step because the loop takes the second lock while it holds the first |
| `Forward` | `tx.send` at the end of the turn |
| `BecomeIdle` | `last_activity.elapsed() > timeout` becomes true; time itself is not modelled |
| `CleanupSessions` | `cleanup_sessions`, both locks held |
| `LookUpRoute`, `LookUpSession`, `PublishResponse`, `Untrack`, `Unroute` | the five stretches of `send_response`. Publication has an `ok` the caller sees and a `reached` the relays see: an error after a relay has kept the event is allowed, a success without is not |
| `Notify`, `Broadcast`, `LookUpTarget`, `PublishNotice` | `send_notification`, alone or for each client of a broadcast |
| `DropCall`, `DropNotice` | the caller drops the future: nothing further of the call happens |
| `ClearSessions`, `ClearRoutes` | `close`, which has the transport to itself but for the loop and the cleanup task, which it does not stop |

A response carries the id that the session has under its event's id, and, when
there is none, the id the application put in it, `AppId`.

The code has one key for the id of an event, whoever asked under it, and for a
progress token. What this makes impossible to promise, each property states as an
exception of its own, for the ids it concerns, and no assumption excludes:

| property | exception |
|---|---|
| `AnswersMatchRequests` | none: an answer goes to a client that asked under its id, with the JSON-RPC id of a request it asked under this id, the application's, or, where it used the one's id for the other's token, the id of its own other event |
| `RoutesAreBacked` | after a future dropped between the two removals of `send_response`; for a client that has used the event's id for a token |
| `PendingIsRouted` | for an id that another client asked under, or that is a token |
| `SessionTablesAgree` | for a client with a token that is the id of its own event, or with two requests under one id |
| `TrackedUntilAnswered` | with the expired session of a client that used the id |
| `EncryptionPolicyKept` | none: it speaks of the forms read in the client's name |
| `OutsidersAreConfined` | none: an outsider is answered under an id it used for an exempt request |
| `AnsweredIsReleased` | for an id that was read again, or is a token |

### ClientTransport

A send names the event it signs, so `pending_requests` is a set of sends.
`CallSend` decides what a stateless client keeps to itself, `Publish` and
`Register` are the two stretches of the rest; `DropSend` is a dropped future.
`Post` is the environment: the server may answer or notify about any request a
relay holds, more than once, and so may anyone else, in the server's name too when
it comes in a wrap, whose author the loop does not verify. So the properties say
what becomes of an event, whoever wrote it. `Receive` is a turn of the
loop up to the parsed message, `Deliver` the removal and the hand-over.

### ServerWorker

`channel` is the transport's channel, in order. `Accept` and `Ignore` are the
branch of the select loop that reads it; `Answer`, `AnswerUnknown` and
`SendToPeer` are the branches of `forward_server_internal`, which awaits each
send (`Continue`) before the loop goes on; `Quit` and `FinishClose` are its end.
`Background` and `Enqueue` are the transport's own tasks. The handler is
external: it answers each request it was given at most once, in any order, and
sends notifications and requests as it likes. An answer goes where the map leads
from its id (`Destination`), and when the map has no entry, a string is itself
taken for the id of an event; `AnswerUnknown` is what remains, a number, or a
string that is no event's id. The map loses an entry too early only if one id is in
use for two requests at a time (`overlapped`): the second entry is written over
the first, the first answer takes it away, and the second answer is sent for the
event that its id names, if there is one. `OnePeer`, `HandledIsKnown`,
`ResultsReachTheirRequests` and `AnsweredOnce` name this exception, for the ids
and events it touches, and `AnsweredOnce` also an event that was read twice.

### Lifecycle

`is_running`, `is_connected` and `receiver` (`message_rx`) are the flags of the
gateway and its transport; `op` is where the start or stop in progress stands,
of which there is one at a time because both borrow the gateway exclusively.
`stream` is all the pool has reported, of which the last `Capacity` are still in
the broadcast channel, and `loops` holds the position of every loop.

| action | code |
|---|---|
| `RefuseStart`, `BeginStart` | the test of `is_running` in `start` |
| `Connect`, `GetPublicKey`, `FinishStart` | the three awaits of the transport's `start`; after the last, the loop is spawned, `is_running` set and the receiver taken without another await, so it is one step |
| `FailStart` | any of the three fails or is dropped; `?` leaves `start` and undoes nothing |
| `Disconnect`, `FinishStop`, `DropStop` | `stop`: `disconnect`, the two locks of `close`, `is_running` cleared |
| `Notification` | the pool reports an event |
| `Listen`, `Read`, `Lag` | a loop's `notifications()`, its `recv`, and the error of `recv` that ends it |
| `DropReceiver` | the application drops the receiver; `tx.send` fails unnoticed |

### RequestLedger and ServerLedger

A request of the ledger is an id. Its variables: who asked under which id, who
borrowed an id for another end (a token), whom each is open for, who was answered,
and whether the transport is shut. Its actions are `Open`, by which a later client
takes an id over; `Answer`, to a client that asked; `Close`, of an id that was
answered; `GiveUp` of some clients, which takes only ids they have asked under or
borrowed, and must take all that is owed to them (`IsOwed`); and `ShutDown`. In
`ServerLedger` a request is open for the client `event_to_client` leads to, what
was asked and borrowed is read off `origin`, and answers off `published`. So
`Track` of a request is `Open`, `PublishResponse` is `Answer`, `Unroute` is
`Close`, `CleanupSessions` is `GiveUp` of the expired clients, and `ClearRoutes`,
once shut, is `GiveUp` of everybody; every other step stutters. The code could
fail this by giving up half of an expired client's requests, by losing one on a
failed publication, with a client that knows nothing of it, or unanswered, or by
answering one to somebody who never asked.

### ClientWorker and RpcSession

The client worker awaits each send to its end, so its `TakeOutbound` starts a
send, `Continue` is the rest of it, and `HandOver` waits for it (`Free`).
`RpcSession` instantiates the two, with a variable for the mode of each. The mode
of a client only gives what it sends its form (`SendsWrapped`); a server is one of
three instances, `Optional`, `Required` and `Disabled`, with the same variables.
The instances are of the modules with the theorems about the parties, so that the
proofs about the session can cite them. A step of the session is one of either
party (`OwnStep` of `ClientWorker` and of `ServerTransport`), or one of the relays:
`ToServer` takes a send that has reached them to the server's loop, `FromOthers`
any other event (`OtherTraffic`): of another client, of this client wrapped again
or with another content, or under an id of this client's in another's name.
`ToClient` takes a publication of the server with this client's p tag to the
client's loop, and `FromStrangers` anything else (`StrangerTraffic`), in the
server's name too. Any of them may come late, in any order, or never. Who is
the author of a plain event the pool verifies; this is not needed, and not assumed.
The event in a wrap is the whole signed event, so a wrap changes the form and
nothing else (`EventOf`, `EventFor`). Both event loops drop what they cannot read;
nobody tells the other side about its mode. `carried` is a history of which events
the client was sent are the server's own, since the client cannot tell: the three
properties are about those. Their exceptions are a second use of the request's id in
the client's own name (`Misused`, for `RightAnswer`), an event of the other form in
its name (`FormsAgree`), and a request of another client under the id
(`AnswerIsOnItsWay`).

### Subscriptions

A start reads the clock twice (`ReadClock`), once for plain messages and once
for both kinds of wraps, subscribes three filters one after the other
(`Subscribe`), and its event loop starts to listen after that (`Listen`); what
comes in between is lost (`Miss`). Gift wraps are stored by relays; the other
two kinds are ephemeral and reach only who is subscribed. `Crash` may come
anywhere and takes all with it. `posted` has the second and the skew of each
client's clock, `served` is the history of what was served, by which process,
under which bound.

### Announcements

`sent` is what was signed and `accepted` what each relay has got; a relay keeps
the newest event of an author and kind (`Kept`), where the lower id wins within
one second. `Announce` and `PublishList` are the server's, `Publish` with the
contents of `Others` stands for other programs that write with a server's key,
garbage included. `DeleteNext` is one turn of `delete_announcements`.
`BeginFetch`, `Reply`, `EndFetch` and `FailFetch` are the discover functions:
each relay answers, or not, from what it has at that moment.

## Runs

| run | instance | shows |
|---|---|---|
| `server_answers` | 2 clients, 2 readings under 2 ids, with a shared token, an id with two authors and contents, and an id that is a token; 2 calls, Required | the maps agree, answers are right, no request is lost, and the whole implements `RequestLedger` |
| `server_policy` | 2 clients, 2 readings in either form, an id used by both, 1 call, 1 notification, Optional, one allowed key, one exempt capability, all kinds of messages | outsiders get no more than they may; what is sent has a form read in its receiver's name; broadcasts reach initialized clients only |
| `server_live` | 2 clients, 2 readings, 1 call, 1 notification, fair | tracked events are forwarded, answered requests released, silent sessions removed, every client of a broadcast has its turn |
| `client_answers` | 2 sends of any kind, stateless, 2 inbound events, a stranger, fair | at most one answer each, none for an emulated one; nothing is forgotten unanswered; a well-formed response ends the wait |
| `worker_answers` | 2 clients, 3 readings under 2 event ids, 2 JSON-RPC ids of which one is also the id of an event, 2 answers, 1 notification, a message without rmcp form, fair | one peer, results reach their requests, none is answered twice, the channel is drained |
| `rpc_session` | all 9 pairs of modes, 1 send, 1 other event to the server, of 5 kinds, 1 answer, 2 events to the client, the server's or a stranger's in its name | the handler gets the right response in its own form; a response is lost only by the relays or by a late registration |
| `life_cycle` | 3 events, one per filter, a stream of 2 places, 2 loops, fair | one loop per cycle, failed starts keep the receiver, loops forward without gaps or end, and read all they hear |
| `subscriptions` | 2 events of any kind, 2 processes, 3 seconds, clocks a second off, fair | a restart serves again only what its bound cannot tell from new; what is written to a listening process is served |
| `announcements` | 2 servers, 2 relays, 2 events, 2 seconds, 1 fetch of servers or of a typed list | discovery shows the newest version known and hides no server; a repeated deletion is whole |
| `client_known`, `client_plaintext`, `life_restart` | the smallest that shows it | the documentation and the code disagree: see below |

**Bounds.** They are the sets of the constants; the actions with a
bound of their own are `FinishStart` (`MaxLoops`), `Tick` (`MaxTime`),
`StartProcess` (`MaxRuns`) and the publications of `Announcements` (`MaxEvents`).
Two clients are needed for one to be served in another's name, two readings for
one event to come twice, for two requests to share an id, a token or a session,
for an id to be a token, and for a session to expire and come back; two calls for
two answers to one event at the same time. The worker has a third reading: two
requests of its peer use one id at a time, which is the id of an event of another
client, or come a second time, or have no rmcp form. The life cycle has two loops, so that one restart meets every
failure before and after it, and one event more than the stream has places, so
that a loop may lag. The session has one answer and no notification, since the notifications of the
server are covered by `server_policy`; one send and one other event are what it
takes to use an id or a token twice, in the client's name or another's, or to
change the form; two events to the client, for a stranger's to come before or after
the server's; all nine pairs of modes come at once. Two
processes are a restart; three seconds let an event come before, in and after
the second of a filter, by a clock that is early or late. Two announcements on
two relays make them differ, and the two seconds let them be of one second or of
two. The invariants relate at most two events, calls or
clients to each other, and the proofs below remove the bounds for the
invariants they cover. Deadlock is not checked: these systems stop when every
event, call and send of an instance has been used up.

**Fairness.** `Forward`, each call, each notification call and `CleanupSessions`
are weakly fair: tokio runs ready tasks, its locks are fair queues, an interval
ticks for ever, and nostr-sdk bounds its wait for relays. The client's `Receive`
is strongly fair for each event because the stream of events is a queue and the
loop returns to it after each; the worker's reading is strongly fair because
`select!` chooses at random among the ready branches. In `Lifecycle` each loop is
weakly fair, and in `Subscriptions` a start that has begun and the loop that
serves: neither waits for anything but the relay pool. Nothing is assumed of
clients, servers, handlers, clocks or callers.
The stream of events is a bounded broadcast channel, and a loop that falls
behind it ends (`Lag`); `HeardIsRead` says so, and the liveness properties of the
two transports are about loops that keep up.

**Where the documentation and the code disagree.**

* `client_known`: a response that is read between the publication and the
  registration of its request is dropped, and `send` then registers the request and
  returns without an error (comment at server.rs:617, DESIGN.md:219).
* `client_plaintext`: a client in Required mode accepts plain responses
  (types.rs:19).
* `life_restart`: a gateway that was stopped spawns a second event loop when it is
  started again, sets `is_running`, and then returns an error because the receiver
  has left the transport (gateway/mod.rs:39). The proxy does the same.

More of them have no run, because they follow from one line of the code:

* In Optional mode a response takes the form of its client's latest message, not
  of the request it answers (server.rs:268 and 706; README.md:190).
  `EncryptionPolicyKept` states what holds.
* A notification on behalf of a request ends the wait for its response, which is
  then dropped (client.rs:340; the comment at client.rs:58 speaks of requests
  "awaiting responses"). `ForgottenOnlyWhenAnswered` states what holds.
* A response leaves with the application's id when its session expired and was
  made anew between two steps of `send_response` (DESIGN.md:229 says the original
  id is restored; `AnswersMatchRequests` states what holds).
* A client whose session expired is not initialized any more, and gets no
  broadcast until it says so again (types.rs:55).
* The client's `timeout` (client.rs:34) is read nowhere, so a request that is not
  answered stays pending.
* The deletions of `delete_announcements` name a kind and no event, and NIP-09
  deletes what is named, so relays that follow it keep the announcements
  (DESIGN.md:292 says discovery returns nothing afterwards). `DeletionIsWhole` is
  about what was asked for.
* The comment of `subscribe_for_pubkey` (base.rs:57-62) says gift wraps get no
  `since`, since their dates are randomized; the code gives them one. With the
  comment's version `NoReplay` fails: a restart would serve all stored requests
  again.

## Proofs

TLAPS checks these for every value of the constants that satisfies the named
assumptions: the mode is one of three; requests carry ids; `None` is none of the
values; an event the client receives has not the id of one it sends; the stream
has a place;
clocks and ids are natural numbers. Nothing is assumed of the ids, authors,
contents and tokens of what the server reads: they may all be one another's.

**ServerTransportProofs.** `TypeCorrect` is type correctness, with the fact that
a call past its lookup has an event and a client. `CorrelationHolds` is the
inductive invariant `Correlation`. `RoutesAreBacked` and `PendingIsRouted` lead
from one map to the other, but neither is inductive. That a removal by
`send_response` hits the right session needs that its call is about a client that
asked under the event's id, and that what a session holds, its client sent
(`CallsMatchOrigin`, `MapsMatchOrigin`, with `ChannelMatchesOrigin` for what a call
may start from). That answers to two requests with one token, and cleanup after
them, leave nothing behind needs `SessionTablesAgree`. The exceptions are all about
the history, which only grows, so none is ever withdrawn. The properties the runs
check are conjuncts of it (`AnswersAreCorrect`, `RoutesAreNotLost`,
`RequestsAreAnswerable`, `TablesStayInStep`). `NoRequestIsLost` is the action
property `TrackedUntilAnswered`; it needs that a call which has published is past
an answer. `AnswersAreFinal` is the safety half of the liveness property
`AnsweredIsReleased`: the request of a call that has returned is in neither map
(`AnsweredIsSettled`), and no step undoes that until its id is used again
(`SettledStays`).

The same module proves the three properties of `server_policy`: `ModeIsKept`,
`OnlyInitializedAreBroadcastTo` and `AllowListIsKept`. None is inductive, because
what is published is read from a session that may be gone by then. The invariant
`PolicyInv` follows the flags on their way: a session is encrypted only as was
read in its client's name, and initialized only if this was read to say so
(`SessionsMatchOrigin`); a call at its publication has a flag of that kind
(`CallsFollowSessions`, `NoticesFollowSessions`); and so has what is published
(`PublishedFollows`). It refers to the history of events, which only grows, so
that a session that expires or is made anew under a call cannot break it.
`ServerFacts` at its end is what a client may rely on, and what the proofs about
the session cite.

**ServerLedgerProofs.** `LedgerIsImplemented`: every behaviour of
`ServerTransport` is one of `RequestLedger` under the mapping of `ServerLedger`,
that is, `Spec => ImplementsLedger`. The steps use `Correlation`: that a call which
removes a request has published its answer, that a session's keys are what its
client asked under or borrowed, and that all which is owed to a client is among
them when its session expires.

**ClientTransportProofs.** `TypeCorrect`; `CorrelationHolds`, where
`Registration` says when a send is registered relative to its publication and
its answer; from it `OneAnswer`, `WaitsAreExact` and `NoRequestIsForgotten`. Here
the lookup and the removal of an id are under two locks, and the loop being the
only reader is what the proof uses. For `ClientWorker`, `WorkerImplementsTransport`: all of
this holds behind a worker. `HandlerIsAnsweredOnce` goes on from `OneAnswer` to the
handler: `WorkerInvariant` says that the channel and the handler hold only what
the loop let through or `send` answered itself (`HandedType`), and nothing twice
(`NothingTwice`).

**RpcSessionProofs.** `SessionImplementsClient` and `SessionImplementsServer`:
each party, with the other for its environment, behaves as its own module allows,
so what is proved of it alone holds in the session (`OneAnswerForAHandler`). What
no party can know alone are the three properties of `rpc_session`: `IdsAreRight`
(`RightAnswer`), `ModesAgree` (`FormsAgree`) and `NoAnswerIsLost`
(`AnswerIsOnItsWay`), for all nine pairs of modes, any number of other clients that
may use the same ids and other forms, and anything strangers write in wraps. They
follow from `SessionInvariant`, which joins the invariants of both parties with what
passes between them: what the server took for a send is what was sent, in the form
of the client's mode (`HistoryWasSent`); what the client was sent of the server's
is as the server published it (`InboxWasPublished`); and what the client's loop has
read of it, it has delivered, holds, or dropped as unknown (`ReadIsAccountedFor`).
Of what others wrote it says nothing, so the proofs have to show that it does not
matter but where the properties say so. The server's `ServerFacts` say that a
response goes to a client that asked under the id it tags. An id goes from the
request through the server's history into its publication, and back to the request
the tag names, which is why the two transports may match them by event ids alone.

**ServerWorkerProofs.** `WorkerImplementsTransport`: a behaviour of the worker is
one of `ServerTransport`, so the theorems above hold behind a worker. It is not
by construction: the worker calls `send_response` with what it finds in its map,
and that this is an event needs the worker's invariant. `WorkerTypeCorrect`, and
from the invariant `WorkerInvariant` the four properties of `worker_answers`.
The invariant says that a reading still in the channel is in no table of the
worker (`ChannelIsFresh`), that the map leads from an id to the event of a request
of the peer's that had it and is not answered (`MapIsSound`), that all the handler
and the sends in progress speak of is the peer's, or an event its id names
(`WorkIsForPeer`, `NoticesAreForPeer`), and that two requests with one id at the
handler are known as an overlap (`OverlapsAreSeen`). `HandledIsKnown` is part of
it: an answer leaves the map's way only where `overlapped` says so, which is what
makes `OnePeer`, `ResultsReachTheirRequests` and `AnsweredOnce` inductive.

**LifecycleProofs.** `TypeCorrect`; `LoopsMatchCycles` and
`ReceiverSurvivesFailures`, from an invariant that adds where a start or stop may
stand while the gateway runs, and that the receiver leaves with a loop.
`LoopsSkipNothing` is `NoGaps`: the k-th message of a loop in the channel is the
k-th notification after the one it began with, for every capacity and number of
loops. Its invariant `ChannelInvariant` adds that a loop stays inside the stream,
has sent nothing before it listens, and until the receiver is dropped has sent
as many as it has read.

**SubscriptionsProofs.** `TypeCorrect` and `ReplaysAreConfined`, which is
`NoReplay`, for any clocks and any number of restarts. The invariant: what is on
its way matches a filter of this process (`IncomingMatches`), no filter is of the
future (`NothingAhead`), and what earlier processes served was written no later
than the filters a later one has built (`ServedMatched`).

**AnnouncementsProofs.** `TypeCorrect`, `DeletionsAreWhole`, `EveryServerIsListed`
and `ListsAreFresh`, for every number of servers, relays, kinds and publications.
A lemma shows that among events with natural dates and ids one is newest, which
is what makes a relay's `Kept` and the fetch's `First` say something. The
invariant of a fetch in progress: what it has got was published and matches, and
whatever an answering relay had when it began is still matched by something as
new in what the fetch has got.

**Only model-checked.** The liveness properties, which are beyond the prover:
`AcceptedIsForwarded`, `AnsweredIsReleased`, `IdleIsReclaimed` and
`EveryTargetHasItsTurn` of the server transport, `AnswerEndsWait` of the client's,
`ChannelIsDrained` of the server worker, `HeardIsRead` of the life cycle and
`OwedIsServed` of the subscriptions. Every invariant, action property and
refinement that a passing run checks is a theorem.

## Not modelled

* Cryptography, serialization, event formats: an event is wrapped or not,
  readable or not.
* Time in the transports: a session's timeout elapses at any moment. Only
  `Subscriptions` and `Announcements` have a clock, in seconds.
* The pool reports each outer event once while its process lives, and verifies it;
  a restart may see one again (`Subscriptions`). Of the event in a wrap neither is
  assumed. Two sends of a client have two ids; that two equal messages of one
  author within one second are one event in Nostr is left out there.
* Connecting and disconnecting the relays one by one: each is one step that
  succeeds or fails. What the pool reports comes while the base transport is
  connected, for the filters subscribed, once per event.
* Classification and validation of JSON-RPC: pure functions, whose outcome the
  transports see as the kind of a message or as "malformed". `validate_message`
  and the size limit are called by `convert_event_to_mcp` only, which nothing
  calls.
* The rmcp conversions: a message has an rmcp form or not.
* `serve_handler` and `serve_client_handler`, and the start of the transport
  inside the workers' `run`: a start is in `Lifecycle`.
* The relay pool of nostr-sdk, beyond what the modules that use it state.
* Logging, key generation, constants, error texts.

## Plan

Done: the two transports, both workers, their composition over relays, the
ledger and its refinement, the life cycle, subscriptions, announcements and
discovery, and the proofs above. What is left, in order:

1. The start of the transport inside a worker, and its failure.
2. The session with a server worker in the server's place, so that the ids of the
   two rmcp peers meet as well; `WorkerImplementsTransport` of `ServerWorkerProofs`
   already gives what does not depend on the worker.
3. Classification and validation of JSON-RPC as operators over small message
   shapes, if a path comes to call them.
