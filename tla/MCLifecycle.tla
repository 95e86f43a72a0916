----------------------------- MODULE MCLifecycle -----------------------------
(***************************************************************************)
(* Small instances of Lifecycle for TLC.                                   *)
(***************************************************************************)
EXTENDS Lifecycle

CONSTANTS plain, wrap, ephemeral

Three == {plain, wrap, ephemeral}
FilterOfThree ==
  [e \in Three |-> CASE e = plain -> 1 [] e = wrap -> 2 [] e = ephemeral -> 3]
==============================================================================
