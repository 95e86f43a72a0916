------------------------------- MODULE MapOps -------------------------------
(***************************************************************************)
(* The HashMap of the transports: a total function over all possible keys, *)
(* None where the map has no entry.                                        *)
(***************************************************************************)
CONSTANT None

\* Every map with keys from S and values from T.
Map(S, T) == [S -> T \cup {None}]

EmptyMap(S) == [k \in S |-> None]

Keys(f) == {k \in DOMAIN f : f[k] # None}

\* HashMap::insert.
Put(f, k, v) == [f EXCEPT ![k] = v]

\* HashMap::remove, of every key of S at once.
Without(f, S) == [k \in DOMAIN f |-> IF k \in S THEN None ELSE f[k]]
=============================================================================
