------------------------- MODULE AnnouncementsProofs -------------------------
(***************************************************************************)
(* Proofs about Announcements, checked by TLAPS: the type of its state,    *)
(* what discovery returns, and what a deletion has asked for, for any      *)
(* number of servers, relays, events and fetches.                          *)
(***************************************************************************)
EXTENDS Announcements, WellFoundedInduction, TLAPS

-----------------------------------------------------------------------------
(* The order of events *)

\* A set of naturals that is not empty has a least member.
LEMMA LeastNatural ==
  ASSUME NEW S \in SUBSET Nat, S # {}
  PROVE  \E n \in S : \A m \in S : n <= m
<1>1. \E n \in S : \A m \in S : ~(m < n)
  <2>1. PICK n \in S : \A m \in S : ~(<<m, n>> \in OpToRel(<, Nat))
    BY WFMin, NatLessThanWellFounded, Zenon
  <2>2. QED
    BY <2>1, Zenon DEF OpToRel
<1>2. QED
  BY <1>1

\* Newer orders events strictly, and any two with different ids.
LEMMA NewerIsAnOrder ==
  ASSUME NEW e \in Event, NEW f \in Event, NEW g \in Event
  PROVE  /\ ~(Newer(e, f) /\ Newer(f, e))
         /\ Newer(e, f) /\ Newer(f, g) => Newer(e, g)
         /\ e.id # f.id => Newer(e, f) \/ Newer(f, e)
<1>1. /\ e.id \in Int /\ f.id \in Int /\ g.id \in Int
      /\ e.created_at \in Int /\ f.created_at \in Int /\ g.created_at \in Int
  BY BoundAssumption DEF Event
<1>2. QED
  BY <1>1 DEF Newer

UniqueIds(T) == \A e, f \in T : e.id = f.id => e = f

\* Among events with ids of their own there is a newest one.
LEMMA NewestExists ==
  ASSUME NEW T \in SUBSET Event, T # {}, UniqueIds(T)
  PROVE  \E e \in T : \A f \in T \ {e} : Newer(e, f)
<1> DEFINE Ages == {MaxTime - e.created_at : e \in T}
<1>1. \A e \in T : e.created_at \in 0 .. MaxTime /\ e.id \in Nat
  BY BoundAssumption DEF Event
<1>2. Ages \in SUBSET Nat /\ Ages # {}
  BY <1>1, BoundAssumption
<1>3. PICK age \in Ages : \A a \in Ages : age <= a
  <2> HIDE DEF Ages
  <2>1. QED
    BY <1>2, LeastNatural
<1> DEFINE Ids == {e.id : e \in {e \in T : MaxTime - e.created_at = age}}
<1>4. Ids \in SUBSET Nat /\ Ids # {}
  BY <1>1, <1>3
<1>5. PICK id \in Ids : \A i \in Ids : id <= i
  <2> HIDE DEF Ids
  <2>1. QED
    BY <1>4, LeastNatural
<1>6. PICK e \in T : MaxTime - e.created_at = age /\ e.id = id
  BY <1>5
<1>7. ASSUME NEW f \in T, f # e
      PROVE  Newer(e, f)
  <2>1. e.id # f.id
    BY <1>7 DEF UniqueIds
  <2>2. e.created_at >= f.created_at
    <3>1. MaxTime - e.created_at <= MaxTime - f.created_at
      BY <1>3, <1>6
    <3>2. QED
      BY <1>1, <3>1, BoundAssumption
  <2>3. e.created_at = f.created_at => e.id <= f.id
    BY <1>1, <1>5, <1>6
  <2>4. QED
    BY <1>1, <2>1, <2>2, <2>3 DEF Newer
<1>8. QED
  BY <1>7

\* What First takes of the fetched events is the newest of them.
LEMMA FirstIsNewest ==
  ASSUME NEW T \in SUBSET Event, T # {}, UniqueIds(T)
  PROVE  First(T) \in T /\ \A f \in T \ {First(T)} : Newer(First(T), f)
BY NewestExists DEF First

-----------------------------------------------------------------------------
(* Types *)

LEMMA KindsAre ==
  /\ Kinds = {"server", "tools", "resources", "templates", "prompts"}
  /\ \A i \in 1 .. 5 : UNENCRYPTED_KINDS[i] \in Kinds
<1>1. \A i \in 1 .. 5 : i = 1 \/ i = 2 \/ i = 3 \/ i = 4 \/ i = 5
  OBVIOUS
<1>2. QED
  BY <1>1 DEF Kinds, UNENCRYPTED_KINDS

\* The ids of events are theirs alone.
Sane == TypeOK /\ UniqueIds(sent)

LEMMA NoFetchIsTyped ==
  /\ NoFetch \in Fetch
  /\ NoFetch.answered = {} /\ NoFetch.got = {}
<1>1. [r \in Relays |-> {}] \in [Relays -> SUBSET Event]
  OBVIOUS
<1>2. QED
  BY <1>1, KindsAre DEF NoFetch, Fetch

LEMMA InitSane == Init => Sane
<1> SUFFICES ASSUME Init PROVE Sane
  OBVIOUS
<1>1. NoFetch \in Fetch
  BY NoFetchIsTyped
<1>2. fetches \in [Fetchers -> Fetch]
  BY <1>1 DEF Init
<1>3. /\ deletion \in [Hosts -> Deletion]
      /\ \A s \in Hosts : deletion[s].pc = "sending" => deletion[s].step <= 5
  BY DEF Init, Deletion
<1>4. accepted \in [Relays -> SUBSET sent]
  BY DEF Init
<1>5. now \in 0 .. MaxTime
  BY BoundAssumption DEF Init
<1>6. QED
  BY <1>2, <1>3, <1>4, <1>5 DEF Init, Sane, TypeOK, UniqueIds

\* An event that is signed.
LEMMA PublishSane ==
  ASSUME Sane, NEW id \in 1 .. MaxEvents, NEW author \in Servers, NEW kind \in Kinds,
         NEW content \in Content, Publish(id, author, kind, content)
  PROVE  Sane' /\ sent \subseteq sent'
<1> DEFINE e == [id |-> id, author |-> author, kind |-> kind,
                 created_at |-> now, content |-> content]
<1>1. e \in Event
  BY DEF Sane, TypeOK, Event
<1>2. sent' = sent \cup {e} /\ e.id = id
  BY DEF Publish
<1>3. \A f \in sent : f.id # id
  BY DEF Publish
<1> HIDE DEF e
<1>4. UniqueIds(sent)'
  BY <1>2, <1>3 DEF Sane, UniqueIds
<1>5. accepted' = accepted /\ accepted \in [Relays -> SUBSET sent']
  BY <1>2 DEF Publish, Sane, TypeOK
<1>6. QED
  BY <1>1, <1>2, <1>4, <1>5 DEF Publish, Sane, TypeOK

\* The two publications of a server of this SDK, and any other program's.
LEMMA AnnounceIsTyped ==
  ASSUME NEW id, NEW s \in Hosts, Announce(id, s)
  PROVE  s \in Servers /\ \E content \in Content : Publish(id, s, "server", content)
<1>1. [json |-> TRUE, key |-> "server", items |-> ServerInfo[s]] \in Content
  BY InfoAssumption DEF Announce, Hosts, Content, Keys
<1>2. QED
  BY <1>1, InfoAssumption DEF Announce, Hosts

LEMMA ListIsTyped ==
  ASSUME NEW id, NEW s \in Hosts, NEW l \in Lists, PublishList(id, s, l[1], l[2])
  PROVE  /\ s \in Servers /\ l[1] \in Kinds
         /\ \E content \in Content : Publish(id, s, l[1], content)
<1>1. l[1] \in Kinds \ {"server"} /\ l[2] \in SUBSET Items
  BY ListAssumption
<1>2. PublishedKey(l[1]) \in Keys
  BY <1>1, KindsAre DEF PublishedKey, Keys
<1>3. [json |-> TRUE, key |-> PublishedKey(l[1]), items |-> l[2]] \in Content
  BY <1>1, <1>2 DEF Content
<1>4. QED
  BY <1>1, <1>3, InfoAssumption DEF PublishList, Hosts

LEMMA OtherIsTyped ==
  ASSUME NEW o \in Others
  PROVE  o[1] \in Servers /\ o[2] \in Kinds /\ o[3] \in Content
BY OtherAssumption

-----------------------------------------------------------------------------
(* What a fetch knows *)

\* Some event of T is e, or replaces it.
Covers(T, e) == \E g \in T : SameAddress(g, e) /\ (g = e \/ Newer(g, e))

\* A fetch has only what it asks for, and of each relay that answered at least
\* what it had when the fetch began; and its outcome is what it makes of that.
FetchSound(fetch) ==
  /\ fetch.got \subseteq {e \in sent : Matches(fetch, e)}
  /\ \A r \in Relays : fetch.floor[r] \subseteq {e \in accepted[r] : Matches(fetch, e)}
  /\ \A r \in fetch.answered : \A e \in fetch.floor[r] : Covers(fetch.got, e)
  /\ fetch.author = None => fetch.kind = "server"
  /\ fetch.pc = "ok" /\ fetch.author = None => fetch.result = Listing(fetch.got)
  /\ fetch.pc = "ok" /\ fetch.author # None =>
       Reads(fetch) /\ fetch.items = ItemsOf(fetch)
  /\ fetch.pc = "err" =>
       fetch.answered = {} \/ (fetch.author # None /\ ~Reads(fetch))

FetchesSound == \A f \in Fetchers : FetchSound(fetches[f])

\* A relay's store covers all it has accepted.
LEMMA KeptCovers ==
  ASSUME Sane, NEW r \in Relays, NEW e \in accepted[r]
  PROVE  Covers(Kept(r), e)
<1> DEFINE T == {f \in accepted[r] : SameAddress(f, e)}
<1>1. accepted[r] \subseteq sent /\ sent \subseteq Event
  BY DEF Sane, TypeOK
<1>2. T \in SUBSET Event /\ T # {} /\ UniqueIds(T)
  BY <1>1 DEF SameAddress, Sane, UniqueIds
<1>3. PICK g \in T : \A f \in T \ {g} : Newer(g, f)
  <2> HIDE DEF T
  <2>1. QED
    BY <1>2, NewestExists
<1>4. \A f \in accepted[r] : ~(SameAddress(g, f) /\ Newer(f, g))
  <2>1. SUFFICES ASSUME NEW f \in accepted[r], SameAddress(g, f), Newer(f, g)
                 PROVE  FALSE
    OBVIOUS
  <2>2. f \in Event /\ g \in Event
    BY <1>1
  <2>3. f \in T
    BY <2>1 DEF SameAddress
  <2>4. CASE f = g
    BY <2>1, <2>2, <2>4, NewerIsAnOrder
  <2>5. CASE f # g
    BY <1>3, <2>1, <2>2, <2>3, <2>5, NewerIsAnOrder
  <2>6. QED
    BY <2>4, <2>5
<1>5. g \in Kept(r)
  BY <1>4 DEF Kept
<1>6. g = e \/ Newer(g, e)
  <2>1. e \in T
    BY DEF SameAddress
  <2>2. QED
    BY <1>3, <2>1
<1>7. QED
  BY <1>5, <1>6 DEF Covers

\* What happens elsewhere only adds events, which takes nothing from a fetch.
LEMMA SoundnessStays ==
  ASSUME NEW fetch \in Fetch, FetchSound(fetch), sent \subseteq sent',
         \A r \in Relays : accepted[r] \subseteq accepted'[r],
         NEW f \in Fetchers, fetches'[f] = fetch
  PROVE  FetchSound(fetches[f])'
BY DEF FetchSound

\* The other fetches, when one becomes another.
LEMMA OneFetch ==
  ASSUME Sane, FetchesSound, NEW f \in Fetchers, NEW new \in Fetch,
         fetches' = [fetches EXCEPT ![f] = new],
         FetchSound(new), UNCHANGED <<now, sent, accepted, deletion, requested>>
  PROVE  Sane' /\ FetchesSound'
<1>1. fetches' \in [Fetchers -> Fetch] /\ fetches'[f] = new
  BY DEF Sane, TypeOK
<1>2. Sane'
  BY <1>1 DEF Sane, TypeOK, UniqueIds
<1>3. ASSUME NEW g \in Fetchers
      PROVE  FetchSound(fetches[g])'
  <2>1. FetchSound(fetches'[g]) /\ fetches'[g] \in Fetch
    BY <1>1 DEF FetchesSound, Sane, TypeOK
  <2>2. QED
    BY <2>1, SoundnessStays
<1>4. QED
  BY <1>2, <1>3 DEF FetchesSound

-----------------------------------------------------------------------------
(* The steps of a fetch *)

LEMMA QueriesAreTyped ==
  ASSUME NEW q \in Queries
  PROVE  /\ q[1] \in Servers \cup {None} /\ q[2] \in Kinds /\ q[3] \in BOOLEAN
         /\ q[1] = None => q[2] = "server"
<1>1. CASE q = <<None, "server", FALSE>>
  BY <1>1, KindsAre
<1>2. CASE q \in Servers \X (Kinds \ {"server"}) \X BOOLEAN
  BY <1>2, ServerAssumption
<1>3. QED
  BY <1>1, <1>2, QueryAssumption

LEMMA BeginFetchKeeps ==
  ASSUME Sane, FetchesSound, NEW f \in Fetchers, NEW q \in Queries,
         BeginFetch(f, q[1], q[2], q[3])
  PROVE  Sane' /\ FetchesSound'
<1> DEFINE fetch == [NoFetch EXCEPT !.pc = "asking", !.author = q[1],
                                    !.kind = q[2], !.typed = q[3]]
           floor == [r \in Relays |-> {e \in Kept(r) : Matches(fetch, e)}]
           new == [fetch EXCEPT !.floor = floor]
<1>1. fetches' = [fetches EXCEPT ![f] = new]
  BY DEF BeginFetch
<1>2. /\ q[1] \in Servers \cup {None} /\ q[2] \in Kinds /\ q[3] \in BOOLEAN
      /\ q[1] = None => q[2] = "server"
  BY QueriesAreTyped, Zenon
<1>3. /\ fetch \in Fetch /\ fetch.pc = "asking" /\ fetch.author = q[1]
      /\ fetch.kind = q[2] /\ fetch.answered = {} /\ fetch.got = {}
  <2>1. NoFetch \in Fetch /\ NoFetch.answered = {} /\ NoFetch.got = {}
    BY NoFetchIsTyped
  <2>2. QED
    BY <1>2, <2>1 DEF Fetch
<1>4. \A r \in Relays : Kept(r) \subseteq accepted[r] /\ accepted[r] \subseteq Event
  BY DEF Kept, Sane, TypeOK
<1>5. floor \in [Relays -> SUBSET Event]
  BY <1>4
<1>6. \A r \in Relays : floor[r] \subseteq {e \in accepted[r] : Matches(fetch, e)}
  BY <1>4
<1> HIDE DEF fetch, floor
<1>7. /\ new \in Fetch /\ new.pc = "asking" /\ new.author = fetch.author
      /\ new.kind = fetch.kind /\ new.answered = {} /\ new.got = {} /\ new.floor = floor
  BY <1>3, <1>5 DEF Fetch
<1> HIDE DEF new
<1>8. FetchSound(new)
  BY <1>2, <1>3, <1>6, <1>7 DEF FetchSound, Matches
<1>9. QED
  BY <1>1, <1>7, <1>8, OneFetch DEF BeginFetch

LEMMA ReplyKeeps ==
  ASSUME Sane, FetchesSound, NEW f \in Fetchers, NEW r \in Relays, Reply(f, r)
  PROVE  Sane' /\ FetchesSound'
<1> DEFINE old == fetches[f]
           more == {e \in Kept(r) : Matches(old, e)}
           new == [old EXCEPT !.answered = @ \cup {r}, !.got = @ \cup more]
<1>1. fetches' = [fetches EXCEPT ![f] = new]
  BY DEF Reply, Sane, TypeOK
<1>2. old \in Fetch /\ old.pc = "asking" /\ FetchSound(old)
  BY DEF Reply, Sane, TypeOK, FetchesSound
<1>3. more \subseteq accepted[r] /\ accepted[r] \subseteq sent /\ sent \subseteq Event
  BY DEF Kept, Sane, TypeOK
<1>4. /\ new \in Fetch /\ new.pc = "asking" /\ new.author = old.author
      /\ new.kind = old.kind /\ new.floor = old.floor
      /\ new.answered = old.answered \cup {r} /\ new.got = old.got \cup more
  BY <1>2, <1>3 DEF Fetch
<1> HIDE DEF new, old
<1>5. ASSUME NEW e \in old.floor[r]
      PROVE  Covers(more, e)
  <2>1. e \in accepted[r] /\ Matches(old, e)
    BY <1>2 DEF FetchSound
  <2>2. PICK g \in Kept(r) : SameAddress(g, e) /\ (g = e \/ Newer(g, e))
    BY <2>1, KeptCovers DEF Covers
  <2>3. Matches(old, g)
    BY <2>1, <2>2 DEF Matches, SameAddress
  <2>4. QED
    BY <2>2, <2>3 DEF Covers
<1>6. FetchSound(new)
  <2>1. new.got \subseteq {e \in sent : Matches(new, e)}
    BY <1>2, <1>3, <1>4 DEF FetchSound, Matches
  <2>2. \A s \in Relays : new.floor[s] \subseteq {e \in accepted[s] : Matches(new, e)}
    BY <1>2, <1>4 DEF FetchSound, Matches
  <2>3. \A s \in new.answered : \A e \in new.floor[s] : Covers(new.got, e)
    BY <1>2, <1>4, <1>5 DEF FetchSound, Covers
  <2>4. QED
    BY <1>2, <1>4, <2>1, <2>2, <2>3 DEF FetchSound
<1>7. QED
  BY <1>1, <1>4, <1>6, OneFetch DEF Reply

\* Events a fetch has are sane enough to have a first.
LEMMA GotIsSane ==
  ASSUME Sane, FetchesSound, NEW f \in Fetchers
  PROVE  /\ fetches[f] \in Fetch /\ FetchSound(fetches[f])
         /\ fetches[f].got \in SUBSET Event /\ UniqueIds(fetches[f].got)
BY DEF Sane, TypeOK, FetchesSound, FetchSound, UniqueIds

LEMMA EndFetchKeeps ==
  ASSUME Sane, FetchesSound, NEW f \in Fetchers, EndFetch(f)
  PROVE  Sane' /\ FetchesSound'
<1> DEFINE old == fetches[f]
<1>1. /\ old \in Fetch /\ FetchSound(old)
      /\ old.got \in SUBSET Event /\ UniqueIds(old.got)
  BY GotIsSane
<1>2. CASE old.author = None
  <2> DEFINE new == [old EXCEPT !.pc = "ok", !.result = Listing(old.got)]
  <2>1. fetches' = [fetches EXCEPT ![f] = new]
    BY <1>2 DEF EndFetch
  <2>2. Listing(old.got) \in SUBSET Entry
    BY <1>1 DEF Listing, Entry, Event, Content
  <2>3. /\ new \in Fetch /\ new.pc = "ok" /\ new.author = old.author
        /\ new.kind = old.kind /\ new.floor = old.floor /\ new.answered = old.answered
        /\ new.got = old.got /\ new.result = Listing(old.got)
    BY <1>1, <2>2 DEF Fetch
  <2> HIDE DEF new, old
  <2>4. FetchSound(new)
    BY <1>1, <1>2, <2>3 DEF FetchSound, Matches
  <2>5. QED
    BY <2>1, <2>3, <2>4, OneFetch DEF EndFetch
<1>3. CASE old.author # None /\ Reads(old)
  <2> DEFINE new == [old EXCEPT !.pc = "ok", !.items = ItemsOf(old)]
  <2>1. fetches' = [fetches EXCEPT ![f] = new]
    BY <1>3 DEF EndFetch
  <2>2. ItemsOf(old) \in SUBSET Items
    BY <1>1, FirstIsNewest DEF ItemsOf, Event, Content
  <2>3. /\ new \in Fetch /\ new.pc = "ok" /\ new.author = old.author
        /\ new.kind = old.kind /\ new.floor = old.floor /\ new.answered = old.answered
        /\ new.got = old.got /\ new.items = ItemsOf(old) /\ new.typed = old.typed
    BY <1>1, <2>2 DEF Fetch
  <2> HIDE DEF new, old
  <2>4. ItemsOf(new) = ItemsOf(old) /\ Reads(new)
    BY <1>3, <2>3 DEF ItemsOf, Reads
  <2>5. FetchSound(new)
    BY <1>1, <1>3, <2>3, <2>4 DEF FetchSound, Matches
  <2>6. QED
    BY <2>1, <2>3, <2>5, OneFetch DEF EndFetch
<1>4. CASE old.author # None /\ ~Reads(old)
  <2> DEFINE new == [old EXCEPT !.pc = "err"]
  <2>1. fetches' = [fetches EXCEPT ![f] = new]
    BY <1>4 DEF EndFetch
  <2>2. /\ new \in Fetch /\ new.pc = "err" /\ new.author = old.author
        /\ new.kind = old.kind /\ new.floor = old.floor /\ new.answered = old.answered
        /\ new.got = old.got /\ new.typed = old.typed
    BY <1>1 DEF Fetch
  <2> HIDE DEF new, old
  <2>3. ~Reads(new)
    BY <1>4, <2>2 DEF ItemsOf, Reads
  <2>4. FetchSound(new)
    BY <1>1, <1>4, <2>2, <2>3 DEF FetchSound, Matches
  <2>5. QED
    BY <2>1, <2>2, <2>4, OneFetch DEF EndFetch
<1>5. QED
  BY <1>2, <1>3, <1>4

LEMMA FailFetchKeeps ==
  ASSUME Sane, FetchesSound, NEW f \in Fetchers, FailFetch(f)
  PROVE  Sane' /\ FetchesSound'
<1> DEFINE old == fetches[f]
           new == [old EXCEPT !.pc = "err"]
<1>1. old \in Fetch /\ FetchSound(old) /\ old.answered = {}
  BY GotIsSane DEF FailFetch
<1>2. fetches' = [fetches EXCEPT ![f] = new]
  BY DEF FailFetch, Sane, TypeOK
<1>3. /\ new \in Fetch /\ new.pc = "err" /\ new.author = old.author
      /\ new.kind = old.kind /\ new.floor = old.floor /\ new.answered = {}
      /\ new.got = old.got
  BY <1>1 DEF Fetch
<1> HIDE DEF new, old
<1>4. FetchSound(new)
  BY <1>1, <1>3 DEF FetchSound, Matches
<1>5. QED
  BY <1>2, <1>3, <1>4, OneFetch DEF FailFetch

-----------------------------------------------------------------------------
(* The steps of a deletion *)

LEMMA DeletionKeeps ==
  ASSUME Sane, DeletionIsWhole, NEW s \in Hosts,
         \/ BeginDeletion(s)
         \/ \E ok, reached \in BOOLEAN : DeleteNext(s, ok, reached)
  PROVE  Sane' /\ DeletionIsWhole'
<1>1. /\ deletion \in [Hosts -> Deletion] /\ requested \subseteq Hosts \X Kinds
      /\ deletion[s].pc = "sending" => deletion[s].step \in 1 .. 5
  BY DEF Sane, TypeOK, Deletion
<1> DEFINE Moves(d) ==
      /\ deletion' = [deletion EXCEPT ![s] = d]
      /\ d.pc = "sending" => d.step <= 5
      /\ \A i \in 1 .. 5 : i < d.step => <<s, UNENCRYPTED_KINDS[i]>> \in requested'
      /\ requested \subseteq requested' /\ requested' \subseteq Hosts \X Kinds
      /\ UNCHANGED <<now, sent, accepted, fetches>>
<1>2. \E d \in Deletion : Moves(d)
  <2>1. CASE BeginDeletion(s)
    <3>1. [pc |-> "sending", step |-> 1] \in Deletion
      BY DEF Deletion
    <3>2. Moves([pc |-> "sending", step |-> 1])
      BY <1>1, <2>1 DEF BeginDeletion
    <3>3. QED
      BY <3>1, <3>2
  <2>2. ASSUME NEW ok \in BOOLEAN, NEW reached \in BOOLEAN, DeleteNext(s, ok, reached)
        PROVE  \E d \in Deletion : Moves(d)
    <3> DEFINE step == deletion[s].step
    <3>1. step \in 1 .. 5 /\ (ok => reached)
      BY <1>1, <2>2 DEF DeleteNext
    <3>2. requested' = IF reached THEN requested \cup {<<s, UNENCRYPTED_KINDS[step]>>}
                                  ELSE requested
      BY <2>2 DEF DeleteNext
    <3>3. /\ requested \subseteq requested' /\ requested' \subseteq Hosts \X Kinds
          /\ ok => <<s, UNENCRYPTED_KINDS[step]>> \in requested'
      BY <1>1, <3>1, <3>2, KindsAre
    <3>4. \A i \in 1 .. 5 : i < step => <<s, UNENCRYPTED_KINDS[i]>> \in requested
      BY <2>2 DEF DeleteNext, DeletionIsWhole
    <3>5. CASE ~ok
      <4>1. deletion' = [deletion EXCEPT ![s] = [pc |-> "err", step |-> step]]
        BY <2>2, <3>5 DEF DeleteNext
      <4>2. [pc |-> "err", step |-> step] \in Deletion
        BY <3>1 DEF Deletion
      <4>3. QED
        BY <2>2, <3>3, <3>4, <4>1, <4>2 DEF DeleteNext
    <3>6. CASE ok /\ step = 5
      <4>1. deletion' = [deletion EXCEPT ![s] = [pc |-> "ok", step |-> 6]]
        BY <2>2, <3>6 DEF DeleteNext
      <4>2. [pc |-> "ok", step |-> 6] \in Deletion
        BY DEF Deletion
      <4>3. \A i \in 1 .. 5 : <<s, UNENCRYPTED_KINDS[i]>> \in requested'
        BY <3>3, <3>4, <3>6
      <4>4. QED
        BY <2>2, <3>3, <4>1, <4>2, <4>3 DEF DeleteNext
    <3>7. CASE ok /\ step # 5
      <4>1. deletion' = [deletion EXCEPT ![s] = [pc |-> "sending", step |-> step + 1]]
        BY <2>2, <3>7 DEF DeleteNext
      <4>2. [pc |-> "sending", step |-> step + 1] \in Deletion /\ step + 1 <= 5
        BY <3>1, <3>7 DEF Deletion
      <4>3. \A i \in 1 .. 5 : i < step + 1 => <<s, UNENCRYPTED_KINDS[i]>> \in requested'
        <5>1. \A i \in 1 .. 5 : i < step + 1 => i < step \/ i = step
          BY <3>1
        <5>2. QED
          BY <3>3, <3>4, <3>7, <5>1
      <4>4. QED
        BY <2>2, <3>3, <4>1, <4>2, <4>3 DEF DeleteNext
    <3>8. QED
      BY <3>5, <3>6, <3>7
  <2>3. QED
    BY <2>1, <2>2
<1>3. PICK d \in Deletion : Moves(d)
  BY <1>2
<1>4. /\ deletion' \in [Hosts -> Deletion] /\ deletion'[s] = d
      /\ \A h \in Hosts \ {s} : deletion'[h] = deletion[h]
  BY <1>1, <1>3
<1>5. Sane'
  BY <1>2, <1>3, <1>4 DEF Sane, TypeOK, UniqueIds
<1>6. DeletionIsWhole'
  BY <1>2, <1>3, <1>4 DEF DeletionIsWhole
<1>7. QED
  BY <1>5, <1>6

-----------------------------------------------------------------------------
(* The inductive invariant *)

AnnouncementsInv == Sane /\ FetchesSound /\ DeletionIsWhole

LEMMA InitInv == Init => AnnouncementsInv
<1> SUFFICES ASSUME Init PROVE AnnouncementsInv
  OBVIOUS
<1>1. FetchesSound
  <2>1. FetchSound(NoFetch)
    BY DEF FetchSound, NoFetch
  <2>2. QED
    BY <2>1 DEF Init, FetchesSound
<1>2. DeletionIsWhole
  BY DEF Init, DeletionIsWhole
<1>3. QED
  BY <1>1, <1>2, InitSane DEF AnnouncementsInv

\* Steps that only add to what is signed and accepted.
LEMMA AddingKeeps ==
  ASSUME AnnouncementsInv, Sane', sent \subseteq sent',
         \A r \in Relays : accepted[r] \subseteq accepted'[r],
         UNCHANGED <<deletion, requested, fetches>>
  PROVE  AnnouncementsInv'
<1>1. ASSUME NEW f \in Fetchers
      PROVE  FetchSound(fetches[f])'
  <2>1. fetches[f] \in Fetch /\ FetchSound(fetches[f])
    BY GotIsSane DEF AnnouncementsInv
  <2>2. fetches'[f] = fetches[f]
    OBVIOUS
  <2>3. QED
    BY <2>1, <2>2, SoundnessStays
<1>2. DeletionIsWhole'
  BY DEF AnnouncementsInv, DeletionIsWhole
<1>3. QED
  BY <1>1, <1>2 DEF AnnouncementsInv, FetchesSound

LEMMA PublishKeeps ==
  ASSUME AnnouncementsInv, NEW id \in 1 .. MaxEvents, NEW author \in Servers,
         NEW kind \in Kinds, NEW content \in Content, Publish(id, author, kind, content)
  PROVE  AnnouncementsInv'
<1>1. Sane' /\ sent \subseteq sent'
  BY PublishSane DEF AnnouncementsInv
<1>2. QED
  BY <1>1, AddingKeeps DEF Publish

LEMMA NextInv == AnnouncementsInv /\ [Next]_vars => AnnouncementsInv'
<1> SUFFICES ASSUME AnnouncementsInv, [Next]_vars
             PROVE  AnnouncementsInv'
  OBVIOUS
<1> USE DEF AnnouncementsInv
<1>1. CASE Tick
  <2>1. Sane'
    BY <1>1, BoundAssumption DEF Tick, Sane, TypeOK, UniqueIds
  <2>2. QED
    BY <1>1, <2>1, AddingKeeps DEF Tick
<1>2. ASSUME NEW r \in Relays, NEW e \in sent, Accept(r, e)
      PROVE  AnnouncementsInv'
  <2>1. /\ accepted' = [accepted EXCEPT ![r] = @ \cup {e}]
        /\ UNCHANGED <<now, sent, deletion, requested, fetches>>
    BY <1>2 DEF Accept
  <2>2. accepted' \in [Relays -> SUBSET sent']
    BY <2>1 DEF Sane, TypeOK
  <2>3. Sane'
    BY <2>1, <2>2 DEF Sane, TypeOK, UniqueIds
  <2>4. \A q \in Relays : accepted[q] \subseteq accepted'[q]
    BY <2>1 DEF Sane, TypeOK
  <2>5. QED
    BY <2>1, <2>3, <2>4, AddingKeeps
<1>3. ASSUME NEW id \in 1 .. MaxEvents, NEW s \in Hosts, Announce(id, s)
      PROVE  AnnouncementsInv'
  <2>1. PICK content \in Content : Publish(id, s, "server", content)
    BY <1>3, AnnounceIsTyped
  <2>2. QED
    BY <1>3, <2>1, AnnounceIsTyped, PublishKeeps, KindsAre
<1>4. ASSUME NEW id \in 1 .. MaxEvents, NEW s \in Hosts, NEW l \in Lists,
             PublishList(id, s, l[1], l[2])
      PROVE  AnnouncementsInv'
  <2>1. /\ s \in Servers /\ l[1] \in Kinds
        /\ \E content \in Content : Publish(id, s, l[1], content)
    BY <1>4, ListIsTyped
  <2>2. QED
    BY <2>1, PublishKeeps
<1>5. ASSUME NEW id \in 1 .. MaxEvents, NEW o \in Others, Publish(id, o[1], o[2], o[3])
      PROVE  AnnouncementsInv'
  <2>1. o[1] \in Servers /\ o[2] \in Kinds /\ o[3] \in Content
    BY OtherIsTyped
  <2>2. QED
    BY <1>5, <2>1, PublishKeeps
<1>6. ASSUME NEW s \in Hosts,
             \/ BeginDeletion(s)
             \/ \E ok, reached \in BOOLEAN : DeleteNext(s, ok, reached)
      PROVE  AnnouncementsInv'
  <2>1. Sane' /\ DeletionIsWhole'
    BY <1>6, DeletionKeeps
  <2>2. UNCHANGED <<now, sent, accepted, fetches>>
    BY <1>6 DEF BeginDeletion, DeleteNext
  <2>3. FetchesSound'
    BY <2>2, GotIsSane, SoundnessStays DEF FetchesSound
  <2>4. QED
    BY <2>1, <2>3
<1>7. ASSUME NEW f \in Fetchers,
             \/ \E q \in Queries : BeginFetch(f, q[1], q[2], q[3])
             \/ \E r \in Relays : Reply(f, r)
             \/ EndFetch(f)
             \/ FailFetch(f)
      PROVE  AnnouncementsInv'
  <2>1. Sane' /\ FetchesSound'
    BY <1>7, BeginFetchKeeps, ReplyKeeps, EndFetchKeeps, FailFetchKeeps
  <2>2. UNCHANGED <<deletion, requested>>
    BY <1>7 DEF BeginFetch, Reply, EndFetch, FailFetch
  <2>3. QED
    BY <2>1, <2>2 DEF DeletionIsWhole
<1>8. CASE UNCHANGED vars
  <2>1. Sane' /\ sent \subseteq sent' /\ \A r \in Relays : accepted[r] \subseteq accepted'[r]
    BY <1>8 DEF vars, Sane, TypeOK, UniqueIds
  <2>2. QED
    BY <1>8, <2>1, AddingKeeps DEF vars
<1>9. QED
  BY <1>1, <1>2, <1>3, <1>4, <1>5, <1>6, <1>7, <1>8 DEF Next

LEMMA AnnouncementsInvHolds == Spec => []AnnouncementsInv
BY InitInv, NextInv, PTL DEF Spec

-----------------------------------------------------------------------------
(* Theorems *)

\* The state of servers, relays and fetches has its type in every reachable state:
\* in particular no turn of delete_announcements comes after the last kind.
THEOREM TypeCorrect == Spec => []TypeOK
<1>1. AnnouncementsInv => TypeOK
  BY DEF AnnouncementsInv, Sane
<1>2. QED
  BY <1>1, AnnouncementsInvHolds, PTL

\* A deletion has asked for every kind it has passed, however often it failed, and
\* for all five when it reports success (server.rs, delete_announcements).
THEOREM DeletionsAreWhole == Spec => []DeletionIsWhole
<1>1. AnnouncementsInv => DeletionIsWhole
  BY DEF AnnouncementsInv
<1>2. QED
  BY <1>1, AnnouncementsInvHolds, PTL

LEMMA InvListsServers == AnnouncementsInv => ServersAreListed
<1> SUFFICES ASSUME AnnouncementsInv, NEW f \in Fetchers,
                    fetches[f].pc = "ok", fetches[f].author = None
             PROVE  /\ \A e \in Known(fetches[f]) :
                         \E x \in fetches[f].result :
                           x.server = e.author /\ x.created_at >= e.created_at
                    /\ \A x \in fetches[f].result :
                         \E p \in sent :
                           /\ p.kind = "server"
                           /\ p.author = x.server
                           /\ p.created_at = x.created_at
                           /\ x.items = IF p.content.json THEN Says(p) ELSE {}
  BY DEF ServersAreListed
<1> DEFINE fetch == fetches[f]
<1>1. /\ fetch \in Fetch /\ FetchSound(fetch) /\ fetch.got \in SUBSET Event
      /\ fetch.result = Listing(fetch.got) /\ fetch.kind = "server"
  BY GotIsSane DEF AnnouncementsInv, FetchSound
<1>2. ASSUME NEW g \in fetch.got
      PROVE  \E x \in fetch.result :
               x.server = g.author /\ x.created_at = g.created_at
  <2> DEFINE x == [server |-> g.author, created_at |-> g.created_at,
                   items |-> IF g.content.json /\ g.content.key = "server"
                               THEN g.content.items ELSE {}]
  <2>1. x \in fetch.result
    BY <1>1 DEF Listing
  <2>2. QED
    BY <2>1
<1>3. ASSUME NEW e \in Known(fetch)
      PROVE  \E x \in fetch.result : x.server = e.author /\ x.created_at >= e.created_at
  <2>1. PICK r \in fetch.answered : e \in fetch.floor[r]
    BY <1>3 DEF Known
  <2>2. PICK g \in fetch.got : SameAddress(g, e) /\ (g = e \/ Newer(g, e))
    BY <1>1, <2>1 DEF FetchSound, Covers
  <2>3. g.created_at \in Int /\ e.created_at \in Int
    BY <1>1, <2>1 DEF Fetch, Event
  <2>4. g.author = e.author /\ g.created_at >= e.created_at
    BY <2>2, <2>3 DEF SameAddress, Newer
  <2>5. QED
    BY <1>2, <2>4
<1>4. ASSUME NEW x \in fetch.result
      PROVE  \E p \in sent :
               /\ p.kind = "server"
               /\ p.author = x.server
               /\ p.created_at = x.created_at
               /\ x.items = IF p.content.json THEN Says(p) ELSE {}
  <2>1. PICK p \in fetch.got :
          x = [server |-> p.author, created_at |-> p.created_at,
               items |-> IF p.content.json /\ p.content.key = "server"
                           THEN p.content.items ELSE {}]
    BY <1>1 DEF Listing
  <2>2. p \in sent /\ p.kind = "server"
    BY <1>1 DEF FetchSound, Matches
  <2>3. QED
    BY <2>1, <2>2 DEF Says, PublishedKey
<1>5. QED
  BY <1>3, <1>4

\* Discovery of servers hides none that an answering relay had announced, and
\* shows of each what it published (discovery/mod.rs, discover_servers).
THEOREM EveryServerIsListed == Spec => []ServersAreListed
BY InvListsServers, AnnouncementsInvHolds, PTL

LEMMA InvIsFresh == AnnouncementsInv => DiscoveryIsFresh
<1> SUFFICES ASSUME AnnouncementsInv, NEW f \in Fetchers
             PROVE  /\ fetches[f].pc = "ok" /\ fetches[f].author # None =>
                         \/ Known(fetches[f]) = {} /\ fetches[f].items = {}
                         \/ \E p \in sent : /\ Latest(fetches[f], p)
                                            /\ p.content.json
                                            /\ fetches[f].items = Says(p)
                    /\ fetches[f].pc = "err" =>
                         \/ fetches[f].answered = {}
                         \/ \E p \in sent :
                              /\ Latest(fetches[f], p)
                              /\ \/ ~p.content.json
                                 \/ /\ fetches[f].typed
                                    /\ ~Says(p) \subseteq TypedItems
  BY DEF DiscoveryIsFresh
<1> DEFINE fetch == fetches[f]
<1>1. /\ fetch \in Fetch /\ FetchSound(fetch)
      /\ fetch.got \in SUBSET Event /\ UniqueIds(fetch.got)
  BY GotIsSane DEF AnnouncementsInv
<1>2. ASSUME fetch.got = {}
      PROVE  Known(fetch) = {} /\ ItemsOf(fetch) = {} /\ Reads(fetch)
  BY <1>1, <1>2 DEF Known, FetchSound, Covers, ItemsOf, Reads
<1>3. ASSUME fetch.got # {}
      PROVE  /\ First(fetch.got) \in sent
             /\ Latest(fetch, First(fetch.got))
             /\ ItemsOf(fetch) = Says(First(fetch.got))
  <2> DEFINE p == First(fetch.got)
  <2>1. p \in fetch.got /\ \A g \in fetch.got \ {p} : Newer(p, g)
    BY <1>1, <1>3, FirstIsNewest
  <2>2. p \in sent /\ p \in Event /\ Matches(fetch, p)
    BY <1>1, <2>1 DEF FetchSound
  <2> HIDE DEF p
  <2>3. ASSUME NEW e \in Known(fetch)
        PROVE  e = p \/ Newer(p, e)
    <3>1. PICK r \in fetch.answered : e \in fetch.floor[r]
      BY <2>3 DEF Known
    <3>2. PICK g \in fetch.got : g = e \/ Newer(g, e)
      BY <1>1, <3>1 DEF FetchSound, Covers
    <3>3. e \in Event /\ g \in Event
      BY <1>1, <3>1 DEF Fetch
    <3>4. QED
      BY <2>1, <2>2, <3>2, <3>3, NewerIsAnOrder
  <2>4. ItemsOf(fetch) = Says(p)
    BY <1>3, <2>2 DEF p, ItemsOf, Says, ListKey, PublishedKey, Matches
  <2>5. QED
    BY <2>2, <2>3, <2>4 DEF p, Latest
<1>4. QED
  BY <1>1, <1>2, <1>3 DEF FetchSound, Reads

\* What discovery returns for a list is of the newest version that any relay which
\* answered had when the fetch began, or of a later one (discovery/mod.rs,
\* fetch_list and the functions that call it).
THEOREM ListsAreFresh == Spec => []DiscoveryIsFresh
BY InvIsFresh, AnnouncementsInvHolds, PTL
==============================================================================
