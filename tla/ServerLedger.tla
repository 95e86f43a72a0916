---------------------------- MODULE ServerLedger ----------------------------
(***************************************************************************)
(* ServerTransport as an implementation of RequestLedger.  A request is    *)
(* open for the client event_to_client leads to; that is all the ledger    *)
(* sees of the two maps.  An id is borrowed when it is a progress token.   *)
(***************************************************************************)
EXTENDS ServerTransport

ledgerAsked == {<<origin[r].id, origin[r].from>> : r \in Requests}

ledgerBorrowed ==
  {x \in EventIds \X Clients :
     \E r \in Requests : x = <<origin[r].msg.token, origin[r].from>>}

ledgerAnswers == {<<p.event, p.to>> : p \in Answers}

Ledger == INSTANCE RequestLedger WITH
  Requests <- EventIds,
  asked <- ledgerAsked,
  borrowed <- ledgerBorrowed,
  open <- event_to_client,
  answers <- ledgerAnswers,
  shut <- phase # "open"

\* The transport keeps the ledger's promises: it answers a request to clients who
\* asked under its id and to nobody else; and it gives one up only after an
\* answer, or along with a client that has used its id, and never keeps one whose
\* client's session has expired, however its four locks, the cleanup task and
\* close interleave.
ImplementsLedger == Ledger!Spec
=============================================================================
