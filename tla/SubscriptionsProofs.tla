------------------------- MODULE SubscriptionsProofs -------------------------
(***************************************************************************)
(* What holds of Subscriptions for any number of events, processes,        *)
(* seconds and skews, checked by TLAPS.                                    *)
(***************************************************************************)
EXTENDS Subscriptions, TLAPS

\* The bounds of a process that has built no filter.
LEMMA NoBounds == [k \in Filters |-> 0] \in [Filters -> 0 .. MaxTime]
<1>1. 0 \in 0 .. MaxTime
  BY BoundAssumption
<1>2. QED
  BY <1>1

LEMMA InitReplay == Init => ReplayInv
<1> SUFFICES ASSUME Init PROVE ReplayInv
  OBVIOUS
<1>1. TypeOK
  <2>1. since \in [Filters -> 0 .. MaxTime]
    BY NoBounds DEF Init
  <2>2. posted \in [Events -> Posted \cup {None}]
    BY DEF Init
  <2>3. 0 \in 0 .. MaxTime /\ 0 \in 0 .. MaxRuns /\ 0 \in Steps
    BY BoundAssumption DEF Steps
  <2>4. QED
    BY <2>1, <2>2, <2>3 DEF Init, TypeOK
<1>2. IncomingMatches /\ NothingAhead /\ ServedMatched /\ NoReplay
  BY DEF Init, IncomingMatches, NothingAhead, ServedMatched, NoReplay
<1>3. QED
  BY <1>1, <1>2 DEF ReplayInv

-----------------------------------------------------------------------------
(* Types.  What is served exists: hence the hypothesis on incoming. *)

LEMMA NextType == TypeOK /\ IncomingMatches /\ [Next]_vars => TypeOK'
<1> SUFFICES ASSUME TypeOK, IncomingMatches, [Next]_vars
             PROVE  TypeOK'
  OBVIOUS
<1> USE BoundAssumption DEF TypeOK
<1>1. CASE Tick
  BY <1>1 DEF Tick
<1>2. ASSUME NEW e \in Events, NEW k \in Filters, NEW skew \in Skews, Post(e, k, skew)
      PROVE  TypeOK'
  <2>1. [kind |-> k, skew |-> skew, at |-> now,
         owed_by |-> IF Owes(skew) THEN run ELSE 0] \in Posted
    BY DEF Posted
  <2>2. posted' \in [Events -> Posted \cup {None}]
    BY <1>2, <2>1 DEF Post
  <2>3. QED
    BY <1>2, <2>2 DEF Post
<1>3. CASE StartProcess
  BY <1>3 DEF StartProcess, Steps
<1>4. CASE ReadClock
  BY <1>4 DEF ReadClock, Steps, BoundedBy
<1>5. CASE Subscribe
  BY <1>5 DEF Subscribe, Steps, Stored
<1>6. CASE Listen
  BY <1>6 DEF Listen, Steps, Listens
<1>7. ASSUME NEW e \in Events, Miss(e)
      PROVE  TypeOK'
  BY <1>7 DEF Miss
<1>8. ASSUME NEW e \in Events, Serve(e)
      PROVE  TypeOK'
  <2>1. posted[e] # None /\ posted[e] \in Posted
    BY <1>8 DEF Serve, IncomingMatches
  <2>2. posted[e].kind \in Filters /\ run \in 1 .. MaxRuns
    BY <1>8, <2>1 DEF Serve, Posted
  <2>3. [event |-> e, run |-> run, since |-> since[posted[e].kind]] \in Serving
    BY <2>2 DEF Serving
  <2>4. QED
    BY <1>8, <2>3 DEF Serve
<1>9. CASE Crash
  <2>1. since' \in [Filters -> 0 .. MaxTime]
    BY <1>9, NoBounds DEF Crash
  <2>2. 0 \in Steps
    BY DEF Steps
  <2>3. QED
    BY <1>9, <2>1, <2>2 DEF Crash
<1>10. CASE UNCHANGED vars
  BY <1>10 DEF vars
<1>11. QED
  BY <1>1, <1>2, <1>3, <1>4, <1>5, <1>6, <1>7, <1>8, <1>9, <1>10 DEF Next, StartStep

-----------------------------------------------------------------------------
(* The bounds of the filters *)

\* An event that was posted stays what it is.
LEMMA PostedStays ==
  ASSUME TypeOK, [Next]_vars
  PROVE  \A e \in Events : posted[e] # None => posted'[e] = posted[e]
BY DEF Next, vars, Tick, Post, StartProcess, StartStep, ReadClock, Subscribe, Listen,
   Miss, Serve, Crash, TypeOK

\* An event on the relays is one of Posted.
LEMMA PostedType ==
  ASSUME TypeOK, NEW e \in Events, posted[e] # None
  PROVE  /\ posted[e] \in Posted
         /\ posted[e].kind \in Filters
         /\ posted[e].at \in Int /\ posted[e].skew \in Int
         /\ CreatedAt(e) \in Int
         /\ since[posted[e].kind] \in Int
<1>1. posted[e] \in Posted
  BY DEF TypeOK
<1>2. 0 .. MaxTime \subseteq Int
  BY BoundAssumption
<1>3. posted[e].kind \in Filters /\ posted[e].at \in Int /\ posted[e].skew \in Int
  BY <1>1, <1>2, SkewAssumption DEF Posted
<1>4. QED
  BY <1>1, <1>2, <1>3 DEF TypeOK, CreatedAt

LEMMA NextAhead == TypeOK /\ NothingAhead /\ [Next]_vars => NothingAhead'
<1> SUFFICES ASSUME TypeOK, NothingAhead, [Next]_vars
             PROVE  NothingAhead'
  OBVIOUS
<1> USE DEF TypeOK, NothingAhead
<1>1. CASE Tick
  <2>1. \A e \in Events : posted[e] # None => posted[e].at \in Int
    BY PostedType
  <2>2. \A k \in Filters : since[k] \in Int
    OBVIOUS
  <2>3. QED
    BY <1>1, <2>1, <2>2 DEF Tick
<1>2. ASSUME NEW e \in Events, NEW k \in Filters, NEW skew \in Skews, Post(e, k, skew)
      PROVE  NothingAhead'
  BY <1>2 DEF Post
<1>3. CASE ReadClock
  BY <1>3 DEF ReadClock, BoundedBy
<1>4. CASE Crash
  BY <1>4 DEF Crash
<1>5. ASSUME UNCHANGED <<now, posted, since>>
      PROVE  NothingAhead'
  BY <1>5
<1>6. QED
  BY <1>1, <1>2, <1>3, <1>4, <1>5
     DEF Next, StartStep, vars, StartProcess, Subscribe, Listen, Miss, Serve

LEMMA NextIncoming ==
  ASSUME TypeOK, IncomingMatches, [Next]_vars
  PROVE  IncomingMatches'
<1>1. \A e \in Events : posted[e] # None =>
        /\ posted'[e] = posted[e]
        /\ CreatedAt(e)' = CreatedAt(e)
        /\ posted[e].kind \in Filters
  BY PostedStays, PostedType DEF CreatedAt
<1>2. incoming \subseteq Events /\ step \in 0 .. 6
  BY DEF TypeOK, Steps
<1>3. ASSUME UNCHANGED <<up, since>>, incoming' \subseteq incoming,
             step' \in Int, step' >= step
      PROVE  IncomingMatches'
  BY <1>1, <1>2, <1>3 DEF IncomingMatches, Subscribed, Filters
<1>4. ASSUME NEW e \in Events, NEW k \in Filters, NEW skew \in Skews, Post(e, k, skew)
      PROVE  IncomingMatches'
  <2>0. [kind |-> k, skew |-> skew, at |-> now,
         owed_by |-> IF Owes(skew) THEN run ELSE 0] \in Posted
    BY BoundAssumption DEF Posted, TypeOK
  <2>1. /\ posted'[e].kind = k /\ posted'[e].skew = skew /\ posted'[e].at = now
        /\ posted'[e] # None
    BY <1>4, <2>0, NoneAssumption DEF Post, TypeOK
  <2>2. CreatedAt(e)' = now + skew
    BY <2>1 DEF CreatedAt
  <2>3. e \notin incoming
    BY <1>4 DEF Post, IncomingMatches
  <2>4. QED
    BY <1>1, <1>2, <1>4, <2>1, <2>2, <2>3 DEF Post, IncomingMatches
<1>5. CASE StartProcess
  BY <1>5 DEF StartProcess, IncomingMatches
<1>6. CASE ReadClock
  <2>1. incoming = {}
    BY <1>1, <1>2, <1>6 DEF ReadClock, IncomingMatches, Subscribed, Filters
  <2>2. QED
    BY <1>6, <2>1 DEF ReadClock, IncomingMatches
<1>7. CASE Subscribe
  <2>1. \A e \in Stored(step - 1) :
          /\ e \in Events /\ posted[e] # None
          /\ posted[e].kind = step - 1
          /\ CreatedAt(e) >= since[posted[e].kind]
    BY DEF Stored
  <2>2. UNCHANGED <<up, since, posted>> /\ step' = step + 1 /\ up
    BY <1>7 DEF Subscribe
  <2>3. \A e \in incoming' : e \in incoming \/ e \in Stored(step - 1)
    BY <1>7 DEF Subscribe
  <2>4. QED
    BY <1>1, <1>2, <2>1, <2>2, <2>3 DEF IncomingMatches, Subscribed, Filters
<1>8. CASE Crash
  BY <1>8 DEF Crash, IncomingMatches
<1>9. CASE Listen
  BY <1>2, <1>3, <1>9 DEF Listen, Listens
<1>10. ASSUME NEW e \in Events, Miss(e) \/ Serve(e)
       PROVE  IncomingMatches'
  BY <1>2, <1>3, <1>10 DEF Miss, Serve
<1>11. CASE Tick \/ UNCHANGED vars
  BY <1>2, <1>3, <1>11 DEF Tick, vars
<1>12. QED
  BY <1>4, <1>5, <1>6, <1>7, <1>8, <1>9, <1>10, <1>11 DEF Next, StartStep

\* What a step adds to served matched its filter, and what it leaves is no newer
\* than the filters built since.
LEMMA NextServed ==
  ASSUME TypeOK, IncomingMatches, NothingAhead, ServedMatched, [Next]_vars
  PROVE  ServedMatched'
<1>1. \A e \in Events : posted[e] # None =>
        /\ posted'[e] = posted[e]
        /\ CreatedAt(e)' = CreatedAt(e)
        /\ posted[e].kind \in Filters
        /\ posted[e].at \in Int /\ posted[e].at <= now
  BY PostedStays, PostedType DEF CreatedAt, NothingAhead
<1>2. \A x \in served :
        /\ x.event \in Events /\ posted[x.event] # None
        /\ x.run \in Int /\ x.run <= run
        /\ CreatedAt(x.event) >= x.since
  BY BoundAssumption DEF ServedMatched, TypeOK, Serving
<1>3. step \in 0 .. 6 /\ run \in Int /\ now \in Int /\ served \subseteq Serving
  BY BoundAssumption DEF TypeOK, Steps
<1>4. ASSUME UNCHANGED <<up, run, since, served>>,
             \/ step' = step
             \/ step >= 2 /\ step' \in Int
      PROVE  ServedMatched'
  BY <1>1, <1>2, <1>3, <1>4 DEF ServedMatched, ClockRead
<1>5. CASE StartProcess
  BY <1>1, <1>2, <1>3, <1>5 DEF StartProcess, ServedMatched, ClockRead
<1>6. CASE ReadClock
  <2>1. UNCHANGED <<up, run, served>> /\ up /\ step < 2 /\ step' = step + 1
    BY <1>6 DEF ReadClock
  <2>2. \A k \in Filters :
          since'[k] = IF ClockRead(k) = step + 1 THEN now ELSE since[k]
    BY <1>6 DEF ReadClock, BoundedBy
  <2>3. ASSUME NEW x \in served, x.run < run,
               step + 1 >= ClockRead(posted[x.event].kind)
        PROVE  posted[x.event].at <= since'[posted[x.event].kind]
    <3>1. CASE ClockRead(posted[x.event].kind) = step + 1
      BY <1>1, <1>2, <2>2, <3>1
    <3>2. CASE ClockRead(posted[x.event].kind) # step + 1
      <4>1. step >= ClockRead(posted[x.event].kind)
        BY <1>3, <2>3, <3>2 DEF ClockRead
      <4>2. posted[x.event].at <= since[posted[x.event].kind]
        BY <2>1, <2>3, <4>1 DEF ServedMatched
      <4>3. QED
        BY <1>1, <1>2, <2>2, <3>2, <4>2
    <3>3. QED
      BY <3>1, <3>2
  <2>4. QED
    BY <1>1, <1>2, <2>1, <2>3 DEF ServedMatched
<1>7. ASSUME NEW e \in Events, Serve(e)
      PROVE  ServedMatched'
  <2>1. posted[e] # None /\ CreatedAt(e) >= since[posted[e].kind]
    BY <1>7 DEF Serve, IncomingMatches
  <2>2. UNCHANGED <<now, run, up, step, since, posted>>
    BY <1>7 DEF Serve
  <2>3. \A x \in served' :
          \/ x \in served
          \/ x.event = e /\ x.run = run /\ x.since = since[posted[e].kind]
    BY <1>7 DEF Serve
  <2>4. QED
    BY <1>1, <1>2, <1>3, <2>1, <2>2, <2>3 DEF ServedMatched
<1>8. CASE Crash
  BY <1>1, <1>2, <1>8 DEF Crash, ServedMatched
<1>9. CASE Subscribe
  BY <1>3, <1>4, <1>9 DEF Subscribe
<1>10. CASE Listen
  BY <1>4, <1>10 DEF Listen, Listens
<1>11. QED
  BY <1>4, <1>5, <1>6, <1>7, <1>8, <1>9, <1>10
     DEF Next, StartStep, vars, Tick, Post, Miss

\* Two processes serve one event only within its second, or by a clock ahead.
LEMMA NextNoReplay ==
  ASSUME TypeOK, IncomingMatches, ServedMatched, NoReplay, [Next]_vars
  PROVE  NoReplay'
<1>1. \A x \in served :
        x.event \in Events /\ posted[x.event] # None /\ posted'[x.event] = posted[x.event]
  BY PostedStays DEF ServedMatched, TypeOK, Serving
<1>2. CASE UNCHANGED served
  BY <1>1, <1>2 DEF NoReplay
<1>3. ASSUME NEW e \in Events, Serve(e)
      PROVE  NoReplay'
  <2> DEFINE new == [event |-> e, run |-> run, since |-> since[posted[e].kind]]
  <2>1. /\ served' = served \cup {new} /\ UNCHANGED posted
        /\ up /\ step = Listens /\ e \in incoming
    BY <1>3 DEF Serve
  <2>2. ASSUME NEW x \in served, x.event = e, x.run < run
        PROVE  posted[e].skew > 0 \/ posted[e].at = since[posted[e].kind]
    <3>1. /\ posted[e].at \in Int /\ posted[e].skew \in Int
          /\ since[posted[e].kind] \in Int /\ posted[e].kind \in Filters
      BY <1>1, <2>2, PostedType
    <3>2. posted[e].at <= since[posted[e].kind]
      BY <2>1, <2>2 DEF ServedMatched, ClockRead, Listens
    <3>3. posted[e].at + posted[e].skew >= since[posted[e].kind]
      BY <2>1 DEF IncomingMatches, CreatedAt
    <3>4. QED
      BY <3>1, <3>2, <3>3
  <2>3. ASSUME NEW y \in served \cup {new}
        PROVE  ~(run < y.run)
    BY <2>3, BoundAssumption DEF ServedMatched, TypeOK, Serving
  <2>4. \A x, y \in served' :
          x.event = y.event /\ x.run < y.run =>
            x \in served /\ (y \in served \/ y = new)
    BY <2>1, <2>3
  <2>5. QED
    BY <2>1, <2>2, <2>4 DEF NoReplay
<1>4. QED
  BY <1>2, <1>3
     DEF Next, StartStep, vars, Tick, Post, StartProcess, ReadClock, Subscribe, Listen,
         Miss, Crash

-----------------------------------------------------------------------------

LEMMA NextReplay == ReplayInv /\ [Next]_vars => ReplayInv'
BY NextType, NextAhead, NextIncoming, NextServed, NextNoReplay DEF ReplayInv

\* Type correctness of a start and of what it hears (base.rs,
\* subscribe_for_pubkey).
THEOREM TypeCorrect == Spec => []TypeOK
<1>1. ReplayInv => TypeOK
  BY DEF ReplayInv
<1>2. QED
  BY <1>1, InitReplay, NextReplay, PTL DEF Spec

\* However often a process crashes and starts again, what an earlier one has
\* served comes again only within the second of the event, or by a clock that is
\* ahead (base.rs, subscribe_for_pubkey).
THEOREM ReplaysAreConfined == Spec => []NoReplay
<1>1. ReplayInv => NoReplay
  BY DEF ReplayInv
<1>2. QED
  BY <1>1, InitReplay, NextReplay, PTL DEF Spec
=============================================================================
