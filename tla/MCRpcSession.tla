----------------------------- MODULE MCRpcSession -----------------------------
(***************************************************************************)
(* A small instance of RpcSession for TLC, in every pair of modes.  The    *)
(* server reads one event more: a request of another client, with an id of *)
(* its own and this client's for a token; the client's request wrapped     *)
(* again; or another request, in the client's name or under its id.  The   *)
(* client reads two events, the server's or a stranger's in its name.      *)
(***************************************************************************)
EXTENDS RpcSession, TLC

CONSTANTS i1, i3, e1, e3, other

Request(id, token) ==
  [kind |-> "request", method |-> "tools/call", name |-> None,
   id |-> id, token |-> token]

OneRequest == {Request(i1, None)}

Other(e, c, wrapped, msg) ==
  [id |-> e, from |-> c, wrapped |-> wrapped, msg |-> msg]

OtherEvents ==
  {Other(e3, other, FALSE, Request(i3, e1)),
   Other(e1, other, TRUE, Request(i3, None)),
   Other(e1, ClientKey, TRUE, Request(i1, None)),
   Other(e1, ClientKey, TRUE, Request(i3, None)),
   Other(e3, ClientKey, TRUE, Request(i3, None))}

OneOfAStranger ==
  {[from |-> ServerKey, e_tag |-> e1, wrapped |-> TRUE, body |-> "response"]}

Symmetry == Permutations(Events)
===============================================================================
