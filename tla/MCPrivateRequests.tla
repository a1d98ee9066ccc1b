--------------------------- MODULE MCPrivateRequests ---------------------------
(***************************************************************************)
(* The requests of clients of one key (PrivateRequests) and the hook that  *)
(* paces them (RequestPacer), whose sleep is all that a request sees of    *)
(* it. The budget, the lock and the nonces do not depend on how long that  *)
(* is, so each is explored with the other at rest.                         *)
(***************************************************************************)
EXTENDS PrivateRequests, RequestPacer

VARIABLE part

MCInit ==
  /\ Init /\ PacerInit
  /\ \/ part = "requests" /\ leftover = 0
     \/ part = "pacing"

MCNext ==
  \/ part = "requests" /\ Next /\ UNCHANGED <<pacer, part>>
  \/ part = "pacing" /\ PacerNext /\ UNCHANGED <<vars, part>>

\* Fairness is that of PrivateRequests.
MCSpec ==
  /\ MCInit /\ [][MCNext]_<<vars, pacer, part>>
  /\ \A c \in Clients : WF_vars(Step(c))

=============================================================================
