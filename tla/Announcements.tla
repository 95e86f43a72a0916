---------------------------- MODULE Announcements ----------------------------
(***************************************************************************)
(* How servers advertise themselves (src/transport/server.rs, announce to  *)
(* delete_announcements) and how clients find them                         *)
(* (src/discovery/mod.rs).  An announcement is a replaceable event: of one *)
(* author and kind a relay keeps the newest.  A publication reaches each   *)
(* relay in its own time, or never; a fetch asks all relays and takes what *)
(* those that answer in time have kept.  Relays are the environment, and   *)
(* so are other programs that write with a server's key.                   *)
(***************************************************************************)
EXTENDS Integers, Sequences, FiniteSets

CONSTANTS
  None,
  Servers,     \* public keys of servers
  ServerInfo,  \* server_info, or None, in the config of each server of this SDK
  Relays,
  Items,       \* what a list may hold: tools, resources, ...
  TypedItems,  \* the items that have the rmcp form of their kind
  Lists,       \* <<kind, items>> a server may publish
  Others,      \* <<server, kind, content>> another program may publish
  Queries,     \* <<author or None, kind, typed>> a client may ask for
  Fetchers,    \* invocations of the discover functions
  MaxEvents,   \* bound on the number of events
  MaxTime      \* bound on the clock, in seconds

-----------------------------------------------------------------------------
(* Kinds and contents *)

\* UNENCRYPTED_KINDS, in its order: server announcement, tools, resources,
\* resource templates, prompts.
UNENCRYPTED_KINDS == <<"server", "tools", "resources", "templates", "prompts">>

Kinds == {UNENCRYPTED_KINDS[i] : i \in 1 .. 5}

\* The key of the content's object that each publish function writes ...
PublishedKey(kind) == IF kind = "templates" THEN "resourceTemplates" ELSE kind

\* ... and the one that each discover function reads.
ListKey(kind) == IF kind = "templates" THEN "resourceTemplates" ELSE kind

Keys == {"server", "tools", "resources", "resourceTemplates", "prompts", "other"}

\* An object with a list, or for an announcement a ServerInfo, under a key; or
\* text that is not JSON.
Content == [json : BOOLEAN, key : Keys, items : SUBSET Items]

\* ids are hashes: two events compare in an order nobody chose.
Event == [id : 1 .. MaxEvents, author : Servers, kind : Kinds,
          created_at : 0 .. MaxTime, content : Content]

\* The outcome of a discover function.
Entry == [server : Servers, created_at : 0 .. MaxTime, items : SUBSET Items]

Fetch == [pc : {"idle", "asking", "ok", "err"},
          author : Servers \cup {None},       \* None: discover_servers
          kind : Kinds,
          typed : BOOLEAN,
          answered : SUBSET Relays,
          got : SUBSET Event,
          result : SUBSET Entry,              \* of discover_servers
          items : SUBSET Items,               \* of the others
          floor : [Relays -> SUBSET Event]]   \* history: what each had when it began

Deletion == [pc : {"idle", "sending", "ok", "err"}, step : 1 .. 6]

ASSUME ServerAssumption == None \notin Servers
ASSUME InfoAssumption ==
  /\ DOMAIN ServerInfo \subseteq Servers
  /\ \A s \in DOMAIN ServerInfo : ServerInfo[s] \in (SUBSET Items) \cup {None}
ASSUME ListAssumption == Lists \subseteq (Kinds \ {"server"}) \X SUBSET Items
ASSUME OtherAssumption == Others \subseteq Servers \X Kinds \X Content
\* discover_servers asks for announcements, of all authors, and has no typed form.
ASSUME QueryAssumption ==
  \A q \in Queries :
    \/ q = <<None, "server", FALSE>>
    \/ q \in Servers \X (Kinds \ {"server"}) \X BOOLEAN
ASSUME ItemAssumption == TypedItems \subseteq Items
ASSUME BoundAssumption == MaxEvents \in Nat /\ MaxTime \in Nat

\* The servers that run this SDK.
Hosts == DOMAIN ServerInfo

VARIABLES
  now,        \* the clock, in seconds
  sent,       \* the announcements signed so far
  accepted,   \* those each relay has accepted
  deletion,   \* where each server's delete_announcements stands
  requested,  \* the <<server, kind>> some relay was asked to delete
  fetches     \* the progress of each discovery

vars == <<now, sent, accepted, deletion, requested, fetches>>

NoFetch == [pc |-> "idle", author |-> None, kind |-> "server", typed |-> FALSE,
            answered |-> {}, got |-> {}, result |-> {}, items |-> {},
            floor |-> [r \in Relays |-> {}]]

TypeOK ==
  /\ now \in 0 .. MaxTime
  /\ sent \subseteq Event
  /\ accepted \in [Relays -> SUBSET sent]
  /\ deletion \in [Hosts -> Deletion]
  /\ \A s \in Hosts : deletion[s].pc = "sending" => deletion[s].step <= 5
  /\ requested \subseteq Hosts \X Kinds
  /\ fetches \in [Fetchers -> Fetch]

Init ==
  /\ now = 0
  /\ sent = {}
  /\ accepted = [r \in Relays |-> {}]
  /\ deletion = [s \in Hosts |-> [pc |-> "idle", step |-> 1]]
  /\ requested = {}
  /\ fetches = [f \in Fetchers |-> NoFetch]

-----------------------------------------------------------------------------
(* The relays *)

\* NIP-01: the later of two events is newer, in one second the one of lower id.
Newer(e, f) == \/ e.created_at > f.created_at
               \/ e.created_at = f.created_at /\ e.id < f.id

SameAddress(e, f) == e.author = f.author /\ e.kind = f.kind

\* Of each author and kind a relay keeps the newest it has accepted.  A request
\* to delete takes away the events it names (NIP-09), and those of this code
\* name none.
Kept(r) == {e \in accepted[r] :
              ~\E f \in accepted[r] : SameAddress(e, f) /\ Newer(f, e)}

Tick ==
  /\ now < MaxTime
  /\ now' = now + 1
  /\ UNCHANGED <<sent, accepted, deletion, requested, fetches>>

\* An event comes to a relay, before or after its publication has returned.
Accept(r, e) ==
  /\ e \in sent \ accepted[r]
  /\ accepted' = [accepted EXCEPT ![r] = @ \cup {e}]
  /\ UNCHANGED <<now, sent, deletion, requested, fetches>>

-----------------------------------------------------------------------------
(* The servers *)

\* RelayPool::publish signs an event of this second and sends it out.
Publish(id, author, kind, content) ==
  /\ \A e \in sent : e.id # id
  /\ sent' = sent \cup {[id |-> id, author |-> author, kind |-> kind,
                         created_at |-> now, content |-> content]}
  /\ UNCHANGED <<now, accepted, deletion, requested, fetches>>

\* announce: an error, and no event, for a server without server_info.
Announce(id, s) ==
  /\ ServerInfo[s] # None
  /\ Publish(id, s, "server",
             [json |-> TRUE, key |-> "server", items |-> ServerInfo[s]])

\* publish_tools, publish_resources, publish_prompts, publish_resource_templates
\* and their typed forms, which turn descriptors into values first.
PublishList(id, s, kind, items) ==
  Publish(id, s, kind,
          [json |-> TRUE, key |-> PublishedKey(kind), items |-> items])

BeginDeletion(s) ==
  /\ deletion[s].pc \in {"idle", "err"}
  /\ deletion' = [deletion EXCEPT ![s] = [pc |-> "sending", step |-> 1]]
  /\ UNCHANGED <<now, sent, accepted, requested, fetches>>

\* Mutants of DeleteNext: the loop does not end; it goes on after a failure.
DeleteOneMore(s, ok, reached) ==
  LET step == deletion[s].step IN
  /\ deletion[s].pc = "sending"
  /\ ok => reached
  /\ requested' = IF reached
                    THEN requested \cup {<<s, UNENCRYPTED_KINDS[step]>>}
                    ELSE requested
  /\ deletion' = [deletion EXCEPT ![s] =
       CASE ~ok           -> [pc |-> "err", step |-> step]
         [] ok /\ step = 6 -> [pc |-> "ok", step |-> 6]
         [] OTHER          -> [pc |-> "sending", step |-> step + 1]]
  /\ UNCHANGED <<now, sent, accepted, fetches>>
DeleteRegardless(s, ok, reached) ==
  LET step == deletion[s].step IN
  /\ deletion[s].pc = "sending"
  /\ ok => reached
  /\ requested' = IF reached
                    THEN requested \cup {<<s, UNENCRYPTED_KINDS[step]>>}
                    ELSE requested
  /\ deletion' = [deletion EXCEPT ![s] =
       [pc |-> IF step = 5 THEN "ok" ELSE "sending", step |-> step + 1]]
  /\ UNCHANGED <<now, sent, accepted, fetches>>

\* One turn of the loop of delete_announcements: it asks for the deletion of
\* one kind, by its number alone.  At the first error it returns, though a
\* relay may have kept the request all the same.
DeleteNext(s, ok, reached) ==
  LET step == deletion[s].step IN
  /\ deletion[s].pc = "sending"
  /\ ok => reached
  /\ requested' = IF reached
                    THEN requested \cup {<<s, UNENCRYPTED_KINDS[step]>>}
                    ELSE requested
  /\ deletion' = [deletion EXCEPT ![s] =
       CASE ~ok           -> [pc |-> "err", step |-> step]
         [] ok /\ step = 5 -> [pc |-> "ok", step |-> 6]
         [] OTHER          -> [pc |-> "sending", step |-> step + 1]]
  /\ UNCHANGED <<now, sent, accepted, fetches>>

-----------------------------------------------------------------------------
(* Discovery *)

\* The filter of a fetch: its kind and, but for discover_servers, its author.
Matches(fetch, e) == /\ e.kind = fetch.kind
                     /\ fetch.author \in {None, e.author}

\* discover_servers, or discover_ with the kind of a list; the relays asked are
\* those the client is connected to, whatever _relay_urls says.
BeginFetch(f, author, kind, typed) ==
  /\ fetches[f].pc = "idle"
  /\ LET fetch == [NoFetch EXCEPT !.pc = "asking", !.author = author,
                                  !.kind = kind, !.typed = typed]
     IN fetches' = [fetches EXCEPT ![f] =
          [fetch EXCEPT !.floor =
             [r \in Relays |-> {e \in Kept(r) : Matches(fetch, e)}]]]
  /\ UNCHANGED <<now, sent, accepted, deletion, requested>>

\* A relay answers within the ten seconds.
Reply(f, r) ==
  /\ fetches[f].pc = "asking"
  /\ r \notin fetches[f].answered
  /\ fetches' = [fetches EXCEPT
       ![f].answered = @ \cup {r},
       ![f].got = @ \cup {e \in Kept(r) : Matches(fetches[f], e)}]
  /\ UNCHANGED <<now, sent, accepted, deletion, requested>>

\* Mutant of Listing: an announcement that cannot be read is left out.
ListingOfReadable(got) ==
  {[server |-> e.author, created_at |-> e.created_at, items |-> e.content.items] :
     e \in {e \in got : e.content.json /\ e.content.key = "server"}}

\* discover_servers: an entry for every event; content that is no ServerInfo
\* stands for the default one.
Listing(got) ==
  {[server |-> e.author, created_at |-> e.created_at,
    items |-> IF e.content.json /\ e.content.key = "server"
                THEN e.content.items ELSE {}] : e \in got}

\* Mutant of First: the last of the fetched events.
Last(got) == CHOOSE e \in got : \A f \in got \ {e} : Newer(f, e)

\* The first of the fetched events is the newest, whichever relay had it.
First(got) == CHOOSE e \in got : \A f \in got \ {e} : Newer(e, f)

\* The items fetch_list finds: of the newest event, under the key of its kind.
ItemsOf(fetch) ==
  IF fetch.got # {} /\ First(fetch.got).content.key = ListKey(fetch.kind)
    THEN First(fetch.got).content.items
    ELSE {}

\* It fails when the newest event is not JSON, and parse_typed_list when one
\* item has no typed form.
Reads(fetch) == /\ fetch.got # {} => First(fetch.got).content.json
                /\ fetch.typed => ItemsOf(fetch) \subseteq TypedItems

\* All have answered, or the time is up.
EndFetch(f) ==
  LET fetch == fetches[f] IN
  /\ fetch.pc = "asking"
  /\ fetches' = [fetches EXCEPT ![f] =
       CASE fetch.author = None -> [fetch EXCEPT !.pc = "ok",
                                                 !.result = Listing(fetch.got)]
         [] fetch.author # None /\ Reads(fetch) ->
              [fetch EXCEPT !.pc = "ok", !.items = ItemsOf(fetch)]
         [] OTHER -> [fetch EXCEPT !.pc = "err"]]
  /\ UNCHANGED <<now, sent, accepted, deletion, requested>>

\* The client has no relay to ask: Error::Transport.
FailFetch(f) ==
  /\ fetches[f].pc = "asking"
  /\ fetches[f].answered = {}
  /\ fetches' = [fetches EXCEPT ![f].pc = "err"]
  /\ UNCHANGED <<now, sent, accepted, deletion, requested>>

-----------------------------------------------------------------------------

Next ==
  \/ Tick
  \/ \E r \in Relays, e \in sent : Accept(r, e)
  \/ \E id \in 1 .. MaxEvents, s \in Hosts : Announce(id, s)
  \/ \E id \in 1 .. MaxEvents, s \in Hosts, l \in Lists :
       PublishList(id, s, l[1], l[2])
  \/ \E id \in 1 .. MaxEvents, o \in Others : Publish(id, o[1], o[2], o[3])
  \/ \E s \in Hosts : BeginDeletion(s)
  \/ \E s \in Hosts, ok, reached \in BOOLEAN : DeleteNext(s, ok, reached)
  \/ \E f \in Fetchers, q \in Queries : BeginFetch(f, q[1], q[2], q[3])
  \/ \E f \in Fetchers, r \in Relays : Reply(f, r)
  \/ \E f \in Fetchers : EndFetch(f) \/ FailFetch(f)

Spec == Init /\ [][Next]_vars

-----------------------------------------------------------------------------
(* Safety *)

\* What the relays that answered fetch f had, when it began, of what it asks for.
Known(fetch) == UNION {fetch.floor[r] : r \in fetch.answered}

\* The list a publication was made to show, whoever reads it.
Says(e) == IF e.content.key = PublishedKey(e.kind) THEN e.content.items ELSE {}

\* Publication p is what fetch should show: as new as all it could have known.
Latest(fetch, p) == /\ Matches(fetch, p)
                    /\ \A e \in Known(fetch) : e = p \/ Newer(p, e)

\* What discovery returns for a list is what that server published as that list,
\* and as new as the newest any of the answering relays had when it began,
\* although relays have different versions, take others while they are asked,
\* and two versions may be of one second.  It fails only when that newest version
\* cannot be read, or nobody was asked: never back to an older one.
DiscoveryIsFresh ==
  \A f \in Fetchers :
    LET fetch == fetches[f] IN
    /\ fetch.pc = "ok" /\ fetch.author # None =>
         \/ Known(fetch) = {} /\ fetch.items = {}
         \/ \E p \in sent : /\ Latest(fetch, p)
                            /\ p.content.json
                            /\ fetch.items = Says(p)
    /\ fetch.pc = "err" =>
         \/ fetch.answered = {}
         \/ \E p \in sent :
              /\ Latest(fetch, p)
              /\ ~p.content.json \/ (fetch.typed /\ ~Says(p) \subseteq TypedItems)

\* Discovery of servers shows every server that an answering relay had announced,
\* with an entry at least that recent that says what the server published: one
\* announcement that cannot be read hides no server, not even its own.
ServersAreListed ==
  \A f \in Fetchers :
    LET fetch == fetches[f] IN
    fetch.pc = "ok" /\ fetch.author = None =>
      /\ \A e \in Known(fetch) :
           \E x \in fetch.result : /\ x.server = e.author
                                  /\ x.created_at >= e.created_at
      /\ \A x \in fetch.result :
           \E p \in sent : /\ p.kind = "server"
                           /\ p.author = x.server
                           /\ p.created_at = x.created_at
                           /\ x.items = IF p.content.json THEN Says(p) ELSE {}

\* A deletion that reports success has asked for every kind, also when it is the
\* repetition of one that stopped half way; one that failed has asked for those
\* before its failure.
DeletionIsWhole ==
  \A s \in Hosts, i \in 1 .. 5 :
    deletion[s].pc # "idle" /\ i < deletion[s].step =>
      <<s, UNENCRYPTED_KINDS[i]>> \in requested
==============================================================================
