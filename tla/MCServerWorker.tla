--------------------------- MODULE MCServerWorker ---------------------------
(***************************************************************************)
(* Small instances of ServerWorker for TLC.                                *)
(***************************************************************************)
EXTENDS ServerWorker, TLC

CONSTANTS c1, c2, e1, e2, i1, r1, r2, r3

Msg(method, id) ==
  [kind |-> "request", method |-> method, name |-> None, id |-> id, token |-> None]

List  == Msg("tools/list", i1)
Odd   == Msg("unknown/odd", e1)
Named == Msg("tools/list", e1)

AllMessages == {List, Odd, Named}
OddMessages == {Odd}

Wrap(id, from, msg) == [id |-> id, from |-> from, wrapped |-> TRUE, msg |-> msg]

\* Client c1 uses one id for two requests, or for one that is odd and one that is
\* not, and it is the id of an event that c2 asks under; c2 may ask twice with one
\* number for its id.
SomeTraffic ==
  r1 :> {Wrap(e1, c2, List)} @@
  r2 :> {Wrap(e2, c1, Named)} @@
  r3 :> {Wrap(e2, c1, Named), Wrap(e1, c1, Odd), Wrap(e2, c2, List)}

SomeRequestIds == {i1, e1}
NothingExcluded == {}
==============================================================================
