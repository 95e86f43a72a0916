-------------------------- MODULE MCServerTransport --------------------------
(***************************************************************************)
(* Small instances of ServerTransport for TLC.                             *)
(***************************************************************************)
EXTENDS ServerLedger, TLC

CONSTANTS c1, c2, e1, e2, i1, i2, k1

Msg(kind, method, name, id, token) ==
  [kind |-> kind, method |-> method, name |-> name, id |-> id, token |-> token]

WithProgress == Msg("request", "tools/call", "add", i1, k1)
EventAsToken == Msg("request", "tools/call", "add", i1, e1)
Plain        == Msg("request", "tools/list", None, i2, None)
AddCall      == Msg("request", "tools/call", "add", i1, None)
SubCall      == Msg("request", "tools/call", "sub", i1, None)
HandShake    == Msg("notification", "notifications/initialized", None, None, None)
Malformed    == Msg("malformed", "", None, None, None)

AllMessages == {WithProgress, EventAsToken, Plain, AddCall, SubCall, HandShake,
                Malformed}

Event(id, from, wrapped, msg) ==
  [id |-> id, from |-> from, wrapped |-> wrapped, msg |-> msg]

\* Two requests of c1 that share a token; an id used with two contents, and by
\* both clients; and an event's id that is a token, of its own client and of the
\* other.
SharedIds == [r \in Readings |->
  {Event(e1, c1, TRUE, WithProgress), Event(e2, c1, TRUE, WithProgress),
   Event(e1, c1, TRUE, Plain), Event(e1, c2, TRUE, Plain),
   Event(e2, c1, TRUE, EventAsToken), Event(e2, c2, TRUE, EventAsToken)}]

LiveTraffic == [r \in Readings |->
  {Event(e1, c1, TRUE, WithProgress), Event(e1, c2, TRUE, HandShake),
   Event(e2, c1, TRUE, HandShake), Event(e2, c2, TRUE, WithProgress)}]

\* Client c1 is listed and c2 is not; each of their events may come in either form,
\* and c2 uses an id of c1's.
PolicyTraffic == [r \in Readings |->
  {Event(x[1], x[2], wrapped, x[3]) :
     wrapped \in BOOLEAN,
     x \in {<<e1, c1, SubCall>>, <<e2, c1, HandShake>>, <<e1, c2, AddCall>>,
            <<e2, c2, SubCall>>, <<e2, c2, HandShake>>, <<e2, c2, Malformed>>}}]

Capability(method, name) == [method |-> method, name |-> name]
NothingExcluded == {}
AddExcluded == {Capability("tools/call", "add")}

ReadingSymmetry == Permutations(Readings)
Symmetry == Permutations(Readings) \cup Permutations(Calls)
==============================================================================
