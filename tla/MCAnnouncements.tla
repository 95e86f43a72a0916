--------------------------- MODULE MCAnnouncements ---------------------------
(***************************************************************************)
(* A small instance of Announcements for TLC: one server of this SDK, and  *)
(* one that has no server_info and is written for by another program.      *)
(***************************************************************************)
EXTENDS Announcements, TLC

CONSTANTS s1, s2, name, add, odd

InfoOfServers == s1 :> {name}

\* A kind whose key is not its own name.
ListsOfServers == {<<"templates", {add}>>}

Untyped == [json |-> TRUE, key |-> "resourceTemplates", items |-> {odd}]
Garbage == [json |-> FALSE, key |-> "other", items |-> {}]
ContentsOfOthers == {<<s2, "server", Garbage>>, <<s1, "templates", Untyped>>,
                     <<s1, "templates", Garbage>>}

QueriesOfClients == {<<None, "server", FALSE>>, <<s1, "templates", TRUE>>}

RelaySymmetry == Permutations(Relays)
==============================================================================
