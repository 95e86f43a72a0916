---------------------------- MODULE RequestLedger ----------------------------
(***************************************************************************)
(* What a server transport promises of requests, without its maps, calls   *)
(* and locks.  A request is named by an id.  It is opened for the client   *)
(* that asks under the id; who asks later under the same id takes it over. *)
(* Answers go to clients who have asked, and a request is closed once it   *)
(* has been answered.  An unanswered one is given up only along with a     *)
(* client that has used its id, to ask or to borrow it for another end;    *)
(* with the client it is open for, it is, unless that client has lent the  *)
(* id another use.  Only a transport that is being shut down may close     *)
(* less or more than that.                                                 *)
(***************************************************************************)
CONSTANTS Requests, Clients, None

VARIABLES
  asked,    \* the <<request, client>> pairs that were opened
  borrowed, \* the <<request, client>> pairs of ids used for another end
  open,     \* the client that each request is open for, or None
  answers,  \* the <<request, client>> pairs answered
  shut      \* whether the transport is being, or has been, shut down

vars == <<asked, borrowed, open, answers, shut>>

Init ==
  /\ asked = {}
  /\ borrowed = {}
  /\ open = [r \in Requests |-> None]
  /\ answers = {}
  /\ shut = FALSE

\* Client c asks under id r, and borrows the ids of B.
Open(r, c, B) ==
  /\ asked' = asked \cup {<<r, c>>}
  /\ borrowed' = borrowed \cup {<<b, c>> : b \in B}
  /\ open' = [open EXCEPT ![r] = c]
  /\ UNCHANGED <<answers, shut>>

\* An answer may still come out after its request was closed.
Answer(r, c) ==
  /\ <<r, c>> \in asked
  /\ answers' = answers \cup {<<r, c>>}
  /\ UNCHANGED <<asked, borrowed, open, shut>>

Close(r) ==
  /\ \E c \in Clients : <<r, c>> \in answers
  /\ open' = [open EXCEPT ![r] = None]
  /\ UNCHANGED <<asked, borrowed, answers, shut>>

\* Client c is owed an answer for r, and has used the id for nothing else.
IsOwed(r, c) ==
  open[r] = c /\ <<r, c>> \notin answers /\ <<r, c>> \notin borrowed

\* The clients of C are given up, with all that is still owed to them.
GiveUp(C) ==
  \E R \in SUBSET Requests :
    /\ ~shut => /\ \A r \in R : \E c \in C : <<r, c>> \in asked \cup borrowed
                /\ \A r \in Requests, c \in C : IsOwed(r, c) => r \in R
    /\ open' = [r \in Requests |-> IF r \in R THEN None ELSE open[r]]
    /\ UNCHANGED <<asked, borrowed, answers, shut>>

ShutDown ==
  /\ ~shut
  /\ shut' = TRUE
  /\ UNCHANGED <<asked, borrowed, open, answers>>

Next ==
  \/ \E r \in Requests, c \in Clients, B \in SUBSET Requests : Open(r, c, B)
  \/ \E r \in Requests : Close(r) \/ \E c \in Clients : Answer(r, c)
  \/ \E C \in SUBSET Clients : GiveUp(C)
  \/ ShutDown

Spec == Init /\ [][Next]_vars
=============================================================================
