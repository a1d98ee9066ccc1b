------------------------------- MODULE MCRiskGate -------------------------------
(***************************************************************************)
(* The research programs (Research) and the risk state of the replay that  *)
(* they run (RiskGate). A replay is a function of the clean bars and       *)
(* touches no file, so each is explored with the other at rest.            *)
(***************************************************************************)
EXTENDS RiskGate, Research, TLC

VARIABLE part

\* Nothing tells one study from another.
StudySymmetry == Permutations(Studies)

\* Six days, the shortest history with a split; the version that is not pinned
\* differs from it in one price.
MCTrades ==
  [t \in Tapes |-> [d \in 1..LastDay |-> IF d = LastDay THEN Quiet
                                         ELSE IF t # Pinned /\ d = 3 THEN 2 ELSE 1]]

\* Bound of the model: imports and checkouts rest where they commute with the
\* next step of whatever reads their files, or where nothing can come of them
\* before the studies that write are over, when the output directory is not empty;
\* and an import under way when a counterfactual has hashed its bars is taken up
\* from its start.
ImportMatters ==
  IF Published THEN cf.pc \in {"idle", "hash", "data"}
  ELSE out = Empty \/ \E s \in Studies : study[s].pc = "bind"

CheckoutMatters == cf.pc \notin {"idle", "hash", "data", "accepted"}

\* Bounds of the model: of studies that write at once, each writes its last two
\* tables in one go, and a crash cuts off only the checksums, whose readers are
\* the longest chain.
MCStudyNext(s) ==
  /\ StudyNext(s)
  /\ overlapped => /\ \A t \in Studies \ {s} : study[t].pc # "fills"
                   /\ \A f \in Bundle : out'[f] = Truncated => f = "checksums"

MCCounterfactualNext ==
  /\ CounterfactualNext
  /\ parent' # parent => CheckoutMatters
  /\ cf.pc = "hash" => importer = Idle

MCResearchNext ==
  \/ ImportMatters /\ ImportNext
  \/ \E s \in Studies : MCStudyNext(s)
  \/ Discard \/ Publish
  \/ MCCounterfactualNext

\* The clean history is the earliest of the longest, checked against its
\* definition by lengths, and no tuning replay reads a day of the holdout.
ASSUME HistoryIsChosen ==
  \A D \in SUBSET (1..8) \ {{}} :
    LET chosen == Longest(D)
        lengths == {n \in 1..8 : \E i \in D : i..(i + n - 1) \subseteq D}
        best == CHOOSE n \in lengths : \A m \in lengths : m <= n
    IN /\ Length(chosen) = best
       /\ chosen[1] = CHOOSE i \in D : /\ i..(i + best - 1) \subseteq D
                                       /\ \A j \in D : j..(j + best - 1) \subseteq D => i <= j

ASSUME TuningSparesTheHoldout ==
  \A n \in (Warmup + 5)..120 :
    LET r == <<1, n>> IN
    /\ \A d \in TuningReads(r) : d < FirstHoldoutDay(r)
    /\ \A k \in {Development(Evaluated(r)), Validation(Evaluated(r)), Holdout(Evaluated(r))} : k > 0

MCInit ==
  /\ Init /\ ResearchInit
  /\ \/ part = "replay" /\ archive = Pinned
     \/ part = "files" /\ close = CHOOSE price \in Prices : TRUE

MCNext ==
  \/ part = "replay" /\ Next /\ UNCHANGED <<research, part>>
  \/ part = "files" /\ MCResearchNext /\ UNCHANGED <<vars, part>>

MCSpec == MCInit /\ [][MCNext]_<<vars, research, part>>

=============================================================================
