--------------------------- MODULE LifecycleProofs ---------------------------
(***************************************************************************)
(* What holds of Lifecycle for every set of events, capacity and number of *)
(* restarts, checked by TLAPS.                                             *)
(***************************************************************************)
EXTENDS Lifecycle, SequenceTheorems, FiniteSetTheorems, TLAPS

-----------------------------------------------------------------------------
(* Type correctness *)

LEMMA InitType == Init => TypeOK
<1> SUFFICES ASSUME Init PROVE TypeOK
  OBVIOUS
<1>1. is_running \in BOOLEAN /\ is_connected \in BOOLEAN
  BY DEF Init
<1>2. filters \in 0 .. Filters /\ stops \in Nat
  BY DEF Init, Filters
<1>3. loops \in Seq(Loop) /\ stream \in Seq(Events) /\ channel \in Seq(Forwarded)
  BY EmptySeq DEF Init
<1>4. QED
  BY <1>1, <1>2, <1>3 DEF Init, TypeOK

\* A loop that is given another record stays in a sequence of loops.
LEMMA LoopsType ==
  ASSUME TypeOK, NEW i \in DOMAIN loops, NEW loop \in Loop,
         loops' = [loops EXCEPT ![i] = loop]
  PROVE  loops' \in Seq(Loop)
BY DEF TypeOK

LEMMA NextType == TypeOK /\ [Next]_vars => TypeOK'
<1> SUFFICES ASSUME TypeOK, [Next]_vars
             PROVE  TypeOK'
  OBVIOUS
<1> USE DEF TypeOK, Filters
<1>1. CASE RefuseStart \/ BeginStart \/ Connect \/ GetPublicKey
  BY <1>1 DEF RefuseStart, BeginStart, Connect, GetPublicKey
<1>8. CASE Disconnect \/ DropStop \/ DropReceiver
  BY <1>8 DEF Disconnect, DropStop, DropReceiver
<1>9. CASE FinishStop
  <2>1. is_running' \in BOOLEAN
    BY <1>9 DEF FinishStop
  <2>2. stops' \in Nat
    BY <1>9 DEF FinishStop
  <2>3. QED
    BY <1>9, <2>1, <2>2 DEF FinishStop
<1>2. ASSUME NEW k \in 0 .. Filters - 1, FailStart(k)
      PROVE  TypeOK'
  BY <1>2 DEF FailStart
<1>3. CASE FinishStart
  <2>1. loops' \in Seq(Loop)
    BY <1>3 DEF FinishStart, NewLoop, Loop
  <2>2. QED
    BY <1>3, <2>1 DEF FinishStart
<1>4. ASSUME NEW e \in Events, Notification(e)
      PROVE  TypeOK'
  BY <1>4 DEF Notification
<1>5. ASSUME NEW i \in DOMAIN loops, LoopStep(i)
      PROVE  TypeOK'
  <2>1. loops[i] \in Loop /\ i \in Nat
    BY <1>5
  <2>2. Len(stream) \in Nat
    OBVIOUS
  <2>3. CASE Listen(i)
    <3>1. [pc |-> "listening", first |-> Len(stream) + 1, next |-> Len(stream) + 1] \in Loop
      BY <2>2 DEF Loop
    <3>2. QED
      BY <2>3, <3>1, LoopsType DEF Listen
  <2>4. CASE Read(i)
    <3>0. loops[i].next + 1 \in Nat \ {0}
      BY <2>1 DEF Loop
    <3>1. [loops[i] EXCEPT !.next = @ + 1] \in Loop
      BY <2>1, <3>0 DEF Loop
    <3>2. loops' \in Seq(Loop)
      <4>1. loops' = [loops EXCEPT ![i] = [loops[i] EXCEPT !.next = @ + 1]]
        BY <2>4 DEF Read
      <4>2. QED
        BY <3>1, <4>1, LoopsType
    <3>3. stream[loops[i].next] \in Events
      <4>1. loops[i].next \in Nat /\ loops[i].next <= Len(stream)
        BY <2>1, <2>2, <2>4, CapacityAssumption DEF Read, Behind, Loop
      <4>2. loops[i].next # 0
        BY <2>1 DEF Loop
      <4>3. QED
        BY <2>2, <4>1, <4>2
    <3>4. channel' \in Seq(Forwarded)
      <4>1. [loop |-> i, event |-> stream[loops[i].next]] \in Forwarded
        BY <2>1, <3>3 DEF Forwarded
      <4>2. QED
        BY <2>4, <4>1 DEF Read
    <3>5. QED
      BY <2>4, <3>2, <3>4 DEF Read
  <2>5. CASE Lag(i)
    <3>1. [loops[i] EXCEPT !.pc = "lagged"] \in Loop
      BY <2>1 DEF Loop
    <3>2. QED
      BY <2>5, <3>1, LoopsType DEF Lag
  <2>6. QED
    BY <1>5, <2>3, <2>4, <2>5 DEF LoopStep
<1>6. CASE UNCHANGED vars
  BY <1>6 DEF vars
<1>7. QED
  BY <1>1, <1>2, <1>3, <1>4, <1>5, <1>6, <1>8, <1>9 DEF Next

\* Types of the gateway's, the transport's and the loops' state.
THEOREM TypeCorrect == Spec => []TypeOK
BY InitType, NextType, PTL DEF Spec

-----------------------------------------------------------------------------
(* One loop for each time the gateway runs *)

LEMMA InitLifecycle == Init => LifecycleInvariant
BY DEF Init, LifecycleInvariant, OneLoopPerCycle, FirstStartHasReceiver

\* The flag that guards start is set in the step that spawns the loop, and
\* cleared in the step that counts the stop.
LEMMA NextLifecycle ==
  TypeOK /\ LifecycleInvariant /\ [Next]_vars => LifecycleInvariant'
<1> SUFFICES ASSUME TypeOK, LifecycleInvariant, [Next]_vars
             PROVE  LifecycleInvariant'
  OBVIOUS
<1> USE DEF LifecycleInvariant, OneLoopPerCycle, FirstStartHasReceiver
<1>0. Len(loops) \in Nat /\ stops \in Nat /\ (loops # <<>> => Len(loops) > 0)
  BY EmptySeq DEF TypeOK
<1>1. CASE RefuseStart
  BY <1>0, <1>1 DEF RefuseStart
<1>2. CASE BeginStart
  BY <1>0, <1>2 DEF BeginStart
<1>3. CASE Connect
  BY <1>0, <1>3 DEF Connect
<1>4. CASE GetPublicKey
  BY <1>0, <1>4 DEF GetPublicKey
<1>5. ASSUME NEW k \in 0 .. Filters - 1, FailStart(k)
      PROVE  LifecycleInvariant'
  BY <1>0, <1>5 DEF FailStart
<1>6. CASE FinishStart
  <2>1. Len(loops') = Len(loops) + 1 /\ loops' # <<>>
    BY <1>6 DEF FinishStart, TypeOK, NewLoop
  <2>2. result' = "taken" => stops > 0
    BY <1>0, <1>6 DEF FinishStart
  <2>3. QED
    BY <1>0, <1>6, <2>1, <2>2 DEF FinishStart
<1>7. CASE Disconnect
  BY <1>0, <1>7 DEF Disconnect
<1>8. CASE DropStop
  BY <1>0, <1>8 DEF DropStop
<1>9. CASE FinishStop
  BY <1>0, <1>9 DEF FinishStop
<1>10. ASSUME NEW e \in Events, Notification(e)
       PROVE  LifecycleInvariant'
  BY <1>0, <1>10 DEF Notification
<1>11. ASSUME NEW i \in DOMAIN loops, LoopStep(i)
       PROVE  LifecycleInvariant'
  <2>1. UNCHANGED <<is_running, receiver, op, result, stops>>
    BY <1>11 DEF LoopStep, Listen, Read, Lag
  <2>2. Len(loops') = Len(loops)
    BY <1>11 DEF LoopStep, Listen, Read, Lag, TypeOK
  <2>3. loops # <<>> => loops' # <<>>
    BY <1>0, <2>2
  <2>4. QED
    BY <2>1, <2>2, <2>3
<1>12. CASE DropReceiver
  BY <1>0, <1>12 DEF DropReceiver
<1>13. CASE UNCHANGED vars
  BY <1>13 DEF vars
<1>14. QED
  BY <1>1, <1>2, <1>3, <1>4, <1>5, <1>6, <1>7, <1>8, <1>9, <1>10, <1>11, <1>12,
     <1>13 DEF Next

LEMMA LifecycleInductive == Spec => []LifecycleInvariant
BY InitLifecycle, NextLifecycle, TypeCorrect, PTL DEF Spec

\* No failure, dropped call or retry makes a second loop: there is one for each
\* completed stop, and one for the gateway that runs (gateway/mod.rs, start, stop).
THEOREM LoopsMatchCycles == Spec => []OneLoopPerCycle
<1>1. LifecycleInvariant => OneLoopPerCycle
  BY DEF LifecycleInvariant
<1>2. QED
  BY <1>1, LifecycleInductive, PTL

\* Until the gateway has been stopped, no start fails for want of the receiver,
\* however many starts failed before (gateway/mod.rs, start).
THEOREM ReceiverSurvivesFailures == Spec => []FirstStartHasReceiver
<1>1. LifecycleInvariant => FirstStartHasReceiver
  BY DEF LifecycleInvariant
<1>2. QED
  BY <1>1, LifecycleInductive, PTL

-----------------------------------------------------------------------------
(* The channel: what each loop has sent, and in which order *)

LEMMA SentIsFinite ==
  ASSUME TypeOK, NEW i
  PROVE  /\ IsFiniteSet(SentBy(i))
         /\ Cardinality(SentBy(i)) \in Nat
         /\ \A p : Cardinality(SentBefore(i, p)) \in Nat
<1>1. Len(channel) \in Nat /\ SentBy(i) \in SUBSET (1 .. Len(channel))
  BY DEF TypeOK, SentBy
<1>2. IsFiniteSet(1 .. Len(channel))
  BY <1>1, FS_Interval
<1>3. IsFiniteSet(SentBy(i))
  BY <1>1, <1>2, FS_Subset
<1>4. \A p : SentBefore(i, p) \in SUBSET SentBy(i)
  BY DEF SentBefore
<1>5. \A p : IsFiniteSet(SentBefore(i, p))
  BY <1>3, <1>4, FS_Subset
<1>6. QED
  BY <1>3, <1>5, FS_CardinalityType

LEMMA LoopFields ==
  ASSUME TypeOK, NEW i \in DOMAIN loops
  PROVE  /\ loops[i] \in Loop
         /\ loops[i].first \in Nat \ {0}
         /\ loops[i].next \in Nat \ {0}
<1>1. loops[i] \in Loop
  BY DEF TypeOK
<1>2. QED
  BY <1>1 DEF Loop

\* What ChannelInvariant says of one loop.
LoopInOrder(i) ==
  /\ loops[i].next <= Len(stream) + 1
  /\ loops[i].pc = "spawned" => loops[i].next = loops[i].first
  /\ \A p \in SentBy(i) :
       /\ Cardinality(SentBefore(i, p)) < loops[i].next - loops[i].first
       /\ channel[p].event = stream[loops[i].first + Cardinality(SentBefore(i, p))]
  /\ Cardinality(SentBy(i)) <= loops[i].next - loops[i].first
  /\ receiver # "dropped" =>
       Cardinality(SentBy(i)) = loops[i].next - loops[i].first

LEMMA ChannelByLoop ==
  ChannelInvariant <=> /\ \A p \in DOMAIN channel : channel[p].loop \in DOMAIN loops
                       /\ \A i \in DOMAIN loops : LoopInOrder(i)
BY DEF ChannelInvariant, NoGaps, LoopInOrder

\* A loop for which the channel, its record and the notifications it has read are
\* as they were, is still in order.
LEMMA LoopStays ==
  ASSUME TypeOK, ChannelInvariant, NEW i \in DOMAIN loops,
         SentBy(i)' = SentBy(i),
         \A p \in SentBy(i) : /\ channel'[p] = channel[p]
                              /\ SentBefore(i, p)' = SentBefore(i, p),
         loops'[i].first = loops[i].first,
         loops'[i].next = loops[i].next,
         loops'[i].pc = "spawned" => loops[i].pc = "spawned",
         Len(stream) <= Len(stream)', Len(stream)' \in Nat,
         \A k \in 1 .. Len(stream) : stream'[k] = stream[k],
         receiver = "dropped" => receiver' = "dropped"
  PROVE  LoopInOrder(i)'
<1>1. /\ loops[i].first \in Nat \ {0} /\ loops[i].next \in Nat \ {0}
      /\ Len(stream) \in Nat
  BY LoopFields DEF TypeOK
<1>2. LoopInOrder(i)
  BY ChannelByLoop
<1>3. ASSUME NEW p \in SentBy(i)
      PROVE  /\ Cardinality(SentBefore(i, p)) < loops[i].next - loops[i].first
             /\ channel[p].event = stream[loops[i].first + Cardinality(SentBefore(i, p))]
             /\ loops[i].first + Cardinality(SentBefore(i, p)) \in 1 .. Len(stream)
  <2>1. Cardinality(SentBefore(i, p)) < loops[i].next - loops[i].first
    BY <1>2 DEF LoopInOrder
  <2>2. Cardinality(SentBefore(i, p)) \in Nat
    BY SentIsFinite
  <2>3. QED
    BY <1>1, <1>2, <2>1, <2>2 DEF LoopInOrder
<1>4. \A p \in SentBy(i)' :
        /\ Cardinality(SentBefore(i, p))' < loops'[i].next - loops'[i].first
        /\ channel'[p].event =
             stream'[loops'[i].first + Cardinality(SentBefore(i, p))']
  BY <1>3
<1>5. QED
  BY <1>1, <1>2, <1>4 DEF LoopInOrder

\* Steps of the gateway and of the relays: the channel is left alone, the stream
\* may grow, and a loop may come, which has sent nothing.
LEMMA ChannelFrame ==
  ASSUME TypeOK, ChannelInvariant, UNCHANGED channel,
         DOMAIN loops \subseteq DOMAIN loops',
         \A i \in DOMAIN loops : /\ loops'[i].first = loops[i].first
                                 /\ loops'[i].next = loops[i].next
                                 /\ loops'[i].pc = "spawned" => loops[i].pc = "spawned",
         \A i \in DOMAIN loops' \ DOMAIN loops : loops'[i] = NewLoop,
         Len(stream) <= Len(stream)', Len(stream)' \in Nat,
         \A k \in 1 .. Len(stream) : stream'[k] = stream[k],
         receiver = "dropped" => receiver' = "dropped"
  PROVE  ChannelInvariant'
<1>1. \A i, p : SentBy(i)' = SentBy(i) /\ SentBefore(i, p)' = SentBefore(i, p)
  BY DEF SentBy, SentBefore
<1>2. ASSUME NEW i \in DOMAIN loops
      PROVE  LoopInOrder(i)'
  BY <1>1, LoopStays
<1>3. ASSUME NEW i \in DOMAIN loops' \ DOMAIN loops
      PROVE  LoopInOrder(i)'
  <2>1. SentBy(i) = {}
    BY DEF ChannelInvariant, SentBy
  <2>2. SentBy(i)' = {} /\ Cardinality({}) = 0
    BY <1>1, <2>1, FS_EmptySet
  <2>3. loops'[i].first = 1 /\ loops'[i].next = 1
    BY DEF NewLoop
  <2>4. QED
    BY <2>2, <2>3 DEF LoopInOrder
<1>4. \A p \in DOMAIN channel' : channel'[p].loop \in DOMAIN loops'
  BY DEF ChannelInvariant
<1>5. QED
  BY <1>2, <1>3, <1>4 DEF ChannelInvariant, NoGaps, LoopInOrder

\* A step of loop i leaves the others in order, and does for the whole if it does
\* for itself.
LEMMA LoopStepFrame ==
  ASSUME TypeOK, ChannelInvariant, NEW i \in DOMAIN loops,
         UNCHANGED <<stream, receiver>>,
         DOMAIN loops' = DOMAIN loops,
         \A j \in DOMAIN loops \ {i} : loops'[j] = loops[j],
         \A p \in DOMAIN channel : p \in DOMAIN channel' /\ channel'[p] = channel[p],
         \A p \in DOMAIN channel' \ DOMAIN channel : channel'[p].loop = i,
         LoopInOrder(i)'
  PROVE  ChannelInvariant'
<1>1. Len(stream) \in Nat
  BY DEF TypeOK
<1>2. ASSUME NEW j \in DOMAIN loops \ {i}
      PROVE  LoopInOrder(j)'
  <2>1. SentBy(j)' = SentBy(j) /\ \A p \in SentBy(j) : channel'[p] = channel[p]
    BY DEF SentBy
  <2>2. \A p : SentBefore(j, p)' = SentBefore(j, p)
    BY <2>1 DEF SentBefore
  <2>3. QED
    BY <1>1, <2>1, <2>2, LoopStays
<1>3. \A p \in DOMAIN channel' : channel'[p].loop \in DOMAIN loops'
  BY DEF ChannelInvariant
<1>4. QED
  <2>1. \A j \in DOMAIN loops' : LoopInOrder(j)'
    BY <1>2
  <2>2. QED
    BY <1>3, <2>1 DEF ChannelInvariant, NoGaps, LoopInOrder

LEMMA ListenChannel ==
  ASSUME TypeOK, ChannelInvariant, NEW i \in DOMAIN loops, Listen(i)
  PROVE  ChannelInvariant'
<1>1. /\ UNCHANGED <<stream, channel, receiver>>
      /\ DOMAIN loops' = DOMAIN loops
      /\ \A j \in DOMAIN loops \ {i} : loops'[j] = loops[j]
      /\ loops'[i] = [pc |-> "listening", first |-> Len(stream) + 1,
                      next |-> Len(stream) + 1]
  BY DEF Listen, TypeOK
<1>2. SentBy(i)' = {}
  <2>1. LoopInOrder(i)
    BY ChannelByLoop
  <2>2. loops[i].next = loops[i].first /\ loops[i].next \in Nat
    BY <2>1, LoopFields DEF LoopInOrder, Listen
  <2>3. Cardinality(SentBy(i)) = 0
    BY <2>1, <2>2, SentIsFinite DEF LoopInOrder
  <2>4. SentBy(i) = {}
    BY <2>3, SentIsFinite, FS_EmptySet
  <2>5. QED
    BY <1>1, <2>4 DEF SentBy
<1>3. Cardinality({}) = 0 /\ Len(stream) \in Nat
  BY FS_EmptySet DEF TypeOK
<1>4. LoopInOrder(i)'
  BY <1>1, <1>2, <1>3 DEF LoopInOrder
<1>5. QED
  BY <1>1, <1>4, LoopStepFrame

\* A message that is sent comes right after the loop's others, and is the
\* notification right after theirs: until the receiver is dropped a loop has
\* sent as many as it has read.
LEMMA ReadChannel ==
  ASSUME TypeOK, ChannelInvariant, NEW i \in DOMAIN loops, Read(i)
  PROVE  ChannelInvariant'
<1> DEFINE first == loops[i].first
           next == loops[i].next
           m == [loop |-> i, event |-> stream[next]]
<1>1. /\ UNCHANGED <<stream, receiver>>
      /\ DOMAIN loops' = DOMAIN loops
      /\ \A j \in DOMAIN loops \ {i} : loops'[j] = loops[j]
      /\ loops[i].pc = "listening"
  BY DEF Read, TypeOK
<1>2. loops'[i].pc = "listening" /\ loops'[i].first = first /\ loops'[i].next = next + 1
  <2>1. loops' = [loops EXCEPT ![i] = [loops[i] EXCEPT !.next = next + 1]]
    BY DEF Read
  <2>2. loops'[i] = [loops[i] EXCEPT !.next = next + 1]
    BY <2>1 DEF TypeOK
  <2>3. QED
    BY <1>1, <2>2, LoopFields DEF Loop
<1>3. /\ first \in Nat \ {0} /\ next \in Nat \ {0}
      /\ Len(stream) \in Nat /\ Len(channel) \in Nat /\ channel \in Seq(Forwarded)
  BY LoopFields DEF TypeOK
<1>4. next + 1 <= Len(stream) + 1
  BY <1>3, CapacityAssumption DEF Read, Behind
<1>5. /\ \A p \in SentBy(i) :
           /\ Cardinality(SentBefore(i, p)) < next - first
           /\ channel[p].event = stream[first + Cardinality(SentBefore(i, p))]
      /\ Cardinality(SentBy(i)) <= next - first
      /\ receiver # "dropped" => Cardinality(SentBy(i)) = next - first
  BY ChannelByLoop DEF LoopInOrder
<1>6. /\ Cardinality(SentBy(i)) \in Nat
      /\ \A p : Cardinality(SentBefore(i, p)) \in Nat
  BY SentIsFinite
<1>7. /\ \A p \in SentBy(i)' :
           /\ Cardinality(SentBefore(i, p))' < next + 1 - first
           /\ channel'[p].event = stream[first + Cardinality(SentBefore(i, p))']
      /\ Cardinality(SentBy(i))' <= next + 1 - first
      /\ receiver # "dropped" => Cardinality(SentBy(i))' = next + 1 - first
  <2>1. CASE receiver = "dropped"
    <3>1. UNCHANGED channel
      BY <2>1 DEF Read
    <3>2. \A p : SentBefore(i, p)' = SentBefore(i, p) /\ SentBy(i)' = SentBy(i)
      BY <3>1 DEF SentBy, SentBefore
    <3>3. QED
      BY <1>3, <1>5, <1>6, <2>1, <3>1, <3>2
  <2>2. CASE receiver # "dropped"
    <3>0. PICK last \in Nat : last = Len(channel) + 1
      BY <1>3
    <3>1. channel' = Append(channel, m)
      BY <2>2 DEF Read
    <3>2. /\ DOMAIN channel' = DOMAIN channel \cup {last}
          /\ DOMAIN channel = 1 .. Len(channel)
          /\ \A p \in DOMAIN channel : channel'[p] = channel[p]
          /\ channel'[last] = m
      BY <1>3, <3>0, <3>1
    <3>3. m.loop = i /\ m.event = stream[next]
      OBVIOUS
    <3> HIDE DEF m
    <3>4. /\ SentBy(i)' = SentBy(i) \cup {last}
          /\ last \notin SentBy(i)
          /\ \A p \in SentBy(i) : p < last /\ ~(last < p)
      BY <1>3, <3>0, <3>2, <3>3 DEF SentBy
    <3>5. SentBefore(i, last)' = SentBy(i)
      <4>1. ~(last < last)
        BY <3>0
      <4>2. QED
        BY <3>4, <4>1 DEF SentBefore
    <3>6. \A p \in SentBy(i) : SentBefore(i, p)' = SentBefore(i, p)
      BY <3>4 DEF SentBefore
    <3>7. Cardinality(SentBy(i))' = Cardinality(SentBy(i)) + 1
      BY <3>4, SentIsFinite, FS_AddElement
    <3>8. Cardinality(SentBy(i)) = next - first
      BY <1>5, <2>2
    <3>9. ASSUME NEW p \in SentBy(i)
          PROVE  /\ Cardinality(SentBefore(i, p))' < next + 1 - first
                 /\ channel'[p].event = stream[first + Cardinality(SentBefore(i, p))']
      <4>1. channel'[p] = channel[p] /\ SentBefore(i, p)' = SentBefore(i, p)
        BY <3>2, <3>6 DEF SentBy
      <4>2. QED
        BY <1>3, <1>5, <1>6, <4>1
    <3>10. /\ Cardinality(SentBefore(i, last))' < next + 1 - first
           /\ channel'[last].event = stream[first + Cardinality(SentBefore(i, last))']
      <4>1. Cardinality(SentBefore(i, last))' = next - first
        BY <3>5, <3>8
      <4>2. first + (next - first) = next /\ next - first < next + 1 - first
        BY <1>3
      <4>3. QED
        BY <3>2, <3>3, <4>1, <4>2
    <3>11. \A p \in SentBy(i)' : p \in SentBy(i) \/ p = last
      BY <3>4
    <3>12. Cardinality(SentBy(i))' = next + 1 - first
      BY <1>3, <3>7, <3>8
    <3> HIDE DEF first, next
    <3>13. \A p \in SentBy(i)' :
             /\ Cardinality(SentBefore(i, p))' < next + 1 - first
             /\ channel'[p].event = stream[first + Cardinality(SentBefore(i, p))']
      BY <3>9, <3>10, <3>11
    <3>14. Cardinality(SentBy(i))' <= next + 1 - first
      BY <1>3, <3>12
    <3>15. QED
      BY <3>12, <3>13, <3>14
  <2>3. QED
    BY <2>1, <2>2
<1>8. /\ \A p \in DOMAIN channel : p \in DOMAIN channel' /\ channel'[p] = channel[p]
      /\ \A p \in DOMAIN channel' \ DOMAIN channel : channel'[p].loop = i
  <2>1. CASE UNCHANGED channel
    BY <2>1
  <2>2. CASE channel' = Append(channel, m)
    <3>1. /\ DOMAIN channel' = DOMAIN channel \cup {Len(channel) + 1}
          /\ \A p \in DOMAIN channel : channel'[p] = channel[p]
          /\ channel'[Len(channel) + 1].loop = i
      BY <1>3, <2>2
    <3>2. QED
      BY <3>1
  <2>3. QED
    BY <2>1, <2>2 DEF Read
<1> HIDE DEF first, next, m
<1>9. LoopInOrder(i)'
  BY <1>1, <1>2, <1>3, <1>4, <1>7 DEF LoopInOrder
<1>10. QED
  BY <1>1, <1>8, <1>9, LoopStepFrame

LEMMA NextChannel == TypeOK /\ ChannelInvariant /\ [Next]_vars => ChannelInvariant'
<1> SUFFICES ASSUME TypeOK, ChannelInvariant, [Next]_vars
             PROVE  ChannelInvariant'
  OBVIOUS
<1>1. /\ loops \in Seq(Loop) /\ stream \in Seq(Events)
      /\ Len(stream) \in Nat /\ Len(loops) \in Nat
  BY DEF TypeOK
<1>2. ASSUME UNCHANGED <<loops, stream, channel>>,
             receiver = "dropped" => receiver' = "dropped"
      PROVE  ChannelInvariant'
  BY <1>1, <1>2, ChannelFrame
<1>3. ASSUME FinishStart
      PROVE  ChannelInvariant'
  <2>1. /\ UNCHANGED <<stream, channel>>
        /\ receiver = "dropped" => receiver' = "dropped"
        /\ loops' = Append(loops, NewLoop)
    BY <1>3 DEF FinishStart
  <2>2. /\ DOMAIN loops \subseteq DOMAIN loops'
        /\ \A i \in DOMAIN loops : loops'[i] = loops[i]
        /\ \A i \in DOMAIN loops' \ DOMAIN loops : loops'[i] = NewLoop
    BY <1>1, <2>1
  <2>3. QED
    BY <1>1, <2>1, <2>2, ChannelFrame
<1>4. ASSUME NEW e \in Events, Notification(e)
      PROVE  ChannelInvariant'
  <2>1. UNCHANGED <<loops, channel, receiver>> /\ stream' = Append(stream, e)
    BY <1>4 DEF Notification
  <2>2. /\ Len(stream') = Len(stream) + 1
        /\ \A k \in 1 .. Len(stream) : stream'[k] = stream[k]
    BY <1>1, <2>1
  <2>3. QED
    BY <1>1, <2>1, <2>2, ChannelFrame
<1>5. ASSUME NEW i \in DOMAIN loops, Lag(i)
      PROVE  ChannelInvariant'
  <2>1. /\ UNCHANGED <<stream, channel, receiver>>
        /\ loops' = [loops EXCEPT ![i] = [loops[i] EXCEPT !.pc = "lagged"]]
    BY <1>5 DEF Lag
  <2>2. /\ [loops[i] EXCEPT !.pc = "lagged"].first = loops[i].first
        /\ [loops[i] EXCEPT !.pc = "lagged"].next = loops[i].next
        /\ [loops[i] EXCEPT !.pc = "lagged"].pc = "lagged"
    BY LoopFields DEF Loop
  <2>3. /\ DOMAIN loops' = DOMAIN loops
        /\ \A j \in DOMAIN loops : /\ loops'[j].first = loops[j].first
                                   /\ loops'[j].next = loops[j].next
                                   /\ loops'[j].pc \in {loops[j].pc, "lagged"}
    BY <1>1, <2>1, <2>2
  <2>4. QED
    BY <1>1, <2>1, <2>3, ChannelFrame
<1>6. QED
  BY <1>2, <1>3, <1>4, <1>5, ListenChannel, ReadChannel
     DEF Next, LoopStep, vars, RefuseStart, BeginStart, Connect, GetPublicKey,
         FailStart, Disconnect, DropStop, FinishStop, DropReceiver

\* What a loop has forwarded is a gapless stretch of the notifications, whatever
\* the capacity, the other loops, and the starts and stops in between
\* (server.rs and client.rs, event_loop).
THEOREM LoopsSkipNothing == Spec => []NoGaps
<1>1. Init => ChannelInvariant
  BY DEF Init, ChannelInvariant, NoGaps, SentBy
<1>2. ChannelInvariant => NoGaps
  BY DEF ChannelInvariant
<1>3. QED
  BY <1>1, <1>2, NextChannel, TypeCorrect, PTL DEF Spec
==============================================================================
