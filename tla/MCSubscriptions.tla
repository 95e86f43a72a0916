--------------------------- MODULE MCSubscriptions ---------------------------
(***************************************************************************)
(* A small instance of Subscriptions for TLC.                              *)
(***************************************************************************)
EXTENDS Subscriptions

AnyClock == -1 .. 1
==============================================================================
