--------------------------- MODULE MCReconciliation ---------------------------
(***************************************************************************)
(* The two halves of one reconciliation, collection (ReconcileCollect) and *)
(* judgement (AccountEvidence). The report is a pure function of what was  *)
(* collected and they share no state, so each is explored with the other   *)
(* at rest.                                                                *)
(***************************************************************************)
EXTENDS ReconcileCollect, AccountEvidence, TLC

VARIABLE part

Kind(side, lots, client, owner, known, asset) ==
  [side |-> side, lots |-> lots, client |-> client, owner |-> owner, known |-> known,
   pair |-> <<asset, "CAD">>]

\* One order of a kind for each thing that the report tells apart: two legacy
\* buys and a sale, a person's orders with the client id of a legacy order and of
\* a submission that came to nothing, orders whose owner the ledger knows, and an
\* asset that is not traded here.
MCKinds ==
  {Kind("buy", 1, "c1", "legacy", FALSE, "BTC"),
   Kind("buy", 2, "c2", "legacy", FALSE, "BTC"),
   Kind("sell", 1, "c3", "legacy", TRUE, "BTC"),
   Kind("buy", 1, "c1", "manual", FALSE, "BTC"),
   Kind("buy", 1, "void", "manual", FALSE, "BTC"),
   Kind("sell", 1, None, "manual", TRUE, "BTC"),
   Kind("buy", 1, None, "bot", TRUE, "BTC"),
   Kind("buy", 1, None, "manual", FALSE, "ETH")}

\* Bounds: two hints, of which one has a slip at most, and if the observation is
\* harmed one hint without a slip.
JudgeFew ==
  LET shown == Seen
      right == ClaimsWith({None})
  IN \/ \E C \in {{c, d} : c \in right, d \in Claims} : Judge(shown, <<None>>, C)
     \/ \E h \in Harms, C \in {{}} \cup {{c} : c \in right} : Judge(shown, h, C)

MCInit ==
  /\ Init /\ AccountInit
  /\ \/ part = "collection" /\ outside = 0
     \/ /\ part = "judgement" /\ manifest = {}
        /\ \A f \in Flows : flowAt[f] = Never
        /\ \A o \in Orders : openedAt[o] = Never

MCNext ==
  \/ part = "collection" /\ Next /\ UNCHANGED <<evidence, part>>
  \/ part = "judgement" /\ (AccountSteps \/ JudgeFew) /\ UNCHANGED <<vars, part>>

MCSpec == MCInit /\ [][MCNext]_<<vars, evidence, part>>

Symmetry == Permutations(OrderIds)

=============================================================================
