---------------------------- MODULE Subscriptions ----------------------------
(***************************************************************************)
(* What an endpoint that crashes and starts again hears of the events of   *)
(* its relays (src/transport/base.rs, subscribe_for_pubkey, as the start   *)
(* of either transport calls it).  Nothing it has seen outlives the        *)
(* process; what keeps it from serving an old request again is the second  *)
(* it puts in its filters.  Relays are the environment: they keep gift     *)
(* wraps, and pass plain messages and ephemeral gift wraps, whose kinds    *)
(* are ephemeral, to those subscribed at the time.                         *)
(***************************************************************************)
EXTENDS Integers

CONSTANTS
  None,
  Events,    \* what clients write to this endpoint
  Skews,     \* how far a client's clock may be from the endpoint's, in seconds
  MaxTime,   \* bound on the clock, in seconds
  MaxRuns    \* bound on the number of processes

\* The filters of subscribe_for_pubkey, in their order.
CTXVM_MESSAGES_KIND == 1
GIFT_WRAP_KIND == 2
EPHEMERAL_GIFT_WRAP_KIND == 3
Filters == 1 .. 3

\* The steps of a start: the clock is read for the first filter, then for the
\* other two, the filters are subscribed one after the other, and only then does
\* the event loop make its receiver of what the pool reports.
Steps == 0 .. 6
Listens == 6
ClockRead(k) == IF k = CTXVM_MESSAGES_KIND THEN 1 ELSE 2
Subscribed(k) == 2 + k

ASSUME SkewAssumption == Skews \subseteq Int
ASSUME BoundAssumption == MaxTime \in Nat /\ MaxRuns \in Nat

VARIABLES
  now,       \* the endpoint's clock, in seconds
  run,       \* the number of the process, 0 before the first
  up,        \* whether it runs
  step,      \* of its start
  since,     \* of its filters
  posted,    \* the events on the relays, and when they came there
  incoming,  \* those on their way to this process
  served     \* history: what each process served, and through which bound

vars == <<now, run, up, step, since, posted, incoming, served>>

\* owed_by: history, the process that must not miss the event, or 0.
Posted == [kind : Filters, skew : Skews, at : 0 .. MaxTime, owed_by : 0 .. MaxRuns]

ASSUME NoneAssumption == None \notin Posted

Serving == [event : Events, run : 1 .. MaxRuns, since : 0 .. MaxTime]

TypeOK ==
  /\ now \in 0 .. MaxTime
  /\ run \in 0 .. MaxRuns
  /\ up \in BOOLEAN
  /\ step \in Steps
  /\ since \in [Filters -> 0 .. MaxTime]
  /\ posted \in [Events -> Posted \cup {None}]
  /\ incoming \subseteq Events
  /\ served \subseteq Serving
  /\ up => run > 0

Init ==
  /\ now = 0
  /\ run = 0
  /\ up = FALSE
  /\ step = 0
  /\ since = [k \in Filters |-> 0]
  /\ posted = [e \in Events |-> None]
  /\ incoming = {}
  /\ served = {}

-----------------------------------------------------------------------------
(* The clock, the clients and the relays *)

Tick ==
  /\ now < MaxTime
  /\ now' = now + 1
  /\ UNCHANGED <<run, up, step, since, posted, incoming, served>>

\* created_at, in the endpoint's seconds, by the clock of whoever wrote it.
CreatedAt(e) == posted[e].at + posted[e].skew

\* The process owes an answer to what is written while its loop listens, by a
\* clock that is not behind.
Owes(skew) == up /\ step = Listens /\ skew >= 0

\* A client writes an event.  A relay passes it on if it matches a filter.
Post(e, k, skew) ==
  /\ posted[e] = None
  /\ posted' = [posted EXCEPT ![e] =
       [kind |-> k, skew |-> skew, at |-> now,
        owed_by |-> IF Owes(skew) THEN run ELSE 0]]
  /\ incoming' = IF up /\ step >= Subscribed(k) /\ now + skew >= since[k]
                   THEN incoming \cup {e}
                   ELSE incoming
  /\ UNCHANGED <<now, run, up, step, since, served>>

-----------------------------------------------------------------------------
(* The endpoint *)

StartProcess ==
  /\ ~up
  /\ run < MaxRuns
  /\ up' = TRUE
  /\ run' = run + 1
  /\ step' = 0
  /\ UNCHANGED <<now, since, posted, incoming, served>>

\* Mutants of BoundedBy: gift wraps without a bound, as the comment of
\* subscribe_for_pubkey has it; a second later, against replays.
BoundedByComment(k) == IF k = CTXVM_MESSAGES_KIND THEN now ELSE 0
BoundedByNext(k) == now + 1

\* The since of a filter built now.
BoundedBy(k) == now

\* Timestamp::now(), once for plain messages, once for both kinds of gift wraps.
ReadClock ==
  /\ up
  /\ step < 2
  /\ step' = step + 1
  /\ since' = [k \in Filters |->
                 IF ClockRead(k) = step + 1 THEN BoundedBy(k) ELSE since[k]]
  /\ UNCHANGED <<now, run, up, posted, incoming, served>>

\* What a relay has kept and sends when filter k comes to it.
Stored(k) ==
  {e \in Events : /\ k = GIFT_WRAP_KIND
                  /\ posted[e] # None
                  /\ posted[e].kind = k
                  /\ CreatedAt(e) >= since[k]}

\* RelayPool::subscribe sends the next filter.
Subscribe ==
  /\ up
  /\ step \in 2 .. 4
  /\ step' = step + 1
  /\ incoming' = incoming \cup Stored(step - 1)
  /\ UNCHANGED <<now, run, up, since, posted, served>>

\* The event loop first runs.
Listen ==
  /\ up
  /\ step = 5
  /\ step' = Listens
  /\ UNCHANGED <<now, run, up, since, posted, incoming, served>>

\* What comes before that is reported to nobody, and not reported again.
Miss(e) ==
  /\ up
  /\ step < Listens
  /\ e \in incoming
  /\ incoming' = incoming \ {e}
  /\ UNCHANGED <<now, run, up, step, since, posted, served>>

\* The event loop serves an event.  The pool has reported it only once, though
\* several relays may have sent it.
Serve(e) ==
  /\ up
  /\ step = Listens
  /\ e \in incoming
  /\ incoming' = incoming \ {e}
  /\ served' = served \cup {[event |-> e, run |-> run,
                             since |-> since[posted[e].kind]]}
  /\ UNCHANGED <<now, run, up, step, since, posted>>

\* The process ends, wherever it stands, and with it all it knows.
Crash ==
  /\ up
  /\ up' = FALSE
  /\ step' = 0
  /\ since' = [k \in Filters |-> 0]
  /\ incoming' = {}
  /\ UNCHANGED <<now, run, posted, served>>

-----------------------------------------------------------------------------

StartStep == ReadClock \/ Subscribe \/ Listen

Next ==
  \/ Tick
  \/ \E e \in Events, k \in Filters, skew \in Skews : Post(e, k, skew)
  \/ StartProcess
  \/ StartStep
  \/ \E e \in Events : Miss(e) \/ Serve(e)
  \/ Crash

Spec == Init /\ [][Next]_vars

\* A start goes on, and the loop takes what has come.  Clocks and clients owe
\* nothing, and nothing says that a process lives.
Fairness ==
  /\ WF_vars(StartStep)
  /\ \A e \in Events : WF_vars(Serve(e))

FairSpec == Spec /\ Fairness

-----------------------------------------------------------------------------
(* Safety *)

\* A restart serves again what an earlier process has served only when it comes
\* within the second of that event, or the clock of the event's author is ahead:
\* the only protection against answering stored requests twice is the since of
\* the filters, and this is all it leaves open.
NoReplay ==
  \A x, y \in served :
    x.event = y.event /\ x.run < y.run =>
      \/ posted[x.event].skew > 0
      \/ posted[x.event].at = y.since

-----------------------------------------------------------------------------
(* The inductive invariant behind it *)

\* What is on its way to a process matches a filter it has subscribed.
IncomingMatches ==
  \A e \in incoming :
    /\ posted[e] # None
    /\ up /\ step >= Subscribed(posted[e].kind)
    /\ CreatedAt(e) >= since[posted[e].kind]

\* Neither the events nor the filters are of the future.
NothingAhead ==
  /\ \A e \in Events : posted[e] # None => posted[e].at <= now
  /\ \A k \in Filters : since[k] <= now

\* What was served matched its filter, and the filters a later process has built
\* are no older than the event.
ServedMatched ==
  \A x \in served :
    /\ posted[x.event] # None
    /\ x.run <= run
    /\ CreatedAt(x.event) >= x.since
    /\ up /\ x.run < run /\ step >= ClockRead(posted[x.event].kind) =>
         posted[x.event].at <= since[posted[x.event].kind]

ReplayInv ==
  TypeOK /\ IncomingMatches /\ NothingAhead /\ ServedMatched /\ NoReplay

-----------------------------------------------------------------------------
(* Liveness, under Fairness *)

\* A process that listens serves every event of any of the three kinds, unless
\* it ends first: the bounds of its filters exclude nothing that is written by a
\* right clock, although they were read some seconds before.
OwedIsServed ==
  \A e \in Events, r \in 1 .. MaxRuns :
    posted[e] # None /\ posted[e].owed_by = r
      ~> \/ \E x \in served : x.event = e /\ x.run = r
         \/ ~up \/ run # r
==============================================================================
