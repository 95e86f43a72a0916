-------------------------- MODULE MCClientTransport --------------------------
(***************************************************************************)
(* Small instances of ClientTransport for TLC.                             *)
(***************************************************************************)
EXTENDS ClientTransport, TLC

Msg(kind, method) == [kind |-> kind, method |-> method]

Initialize == Msg("request", "initialize")
Request    == Msg("request", "tools/call")
HandShake  == Msg("notification", "notifications/initialized")

AllMessages == {Initialize, Request, HandShake}
OneRequest  == {Request}

Symmetry == Permutations(Sends) \cup Permutations(Events)
==============================================================================
