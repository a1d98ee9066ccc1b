------------------------------- MODULE Telemetry -------------------------------
(***************************************************************************)
(* dashboard_snapshot.py: the export of the ledger for the dashboard,      *)
(* while the jobs of DailyDecision append to it. An export makes several   *)
(* queries in one read transaction, checks what it read as the dashboard   *)
(* will, and replaces the file that the dashboard loads.                   *)
(*                                                                         *)
(* A file is what it says of the ledger: its counts, its signals and the   *)
(* latest reconciliation of the account that the signals are of.           *)
(***************************************************************************)
EXTENDS DailyDecision, FiniteSets

CONSTANT SignalLimit  \* signal_limit

ASSUME TelemetryAssumption == SignalLimit \in Nat \ {0}

VARIABLES
  stage,      \* where the export is
  view,       \* how many rows its transaction sees
  draft,      \* what it has read
  published   \* telemetry.json, as a set of at most one file

vars == <<dailyVars, stage, view, draft, published>>

-----------------------------------------------------------------------------
(* What the queries answer on some rows                                    *)

\* The intents are counted by the same query; the jobs here append none.
Counts(rows) ==
  [decisions |-> Cardinality(Decisions(rows)), snapshots |-> Cardinality(Snapshots(rows))]

\* ORDER BY strategy_date DESC LIMIT signal_limit, reversed.
Signals(rows) ==
  LET newest == {row \in Decisions(rows) :
                   Cardinality({s \in Decisions(rows) : s.date > row.date}) < SignalLimit}
  IN  [n \in 1..Cardinality(newest) |->
        CHOOSE row \in newest : Cardinality({s \in newest : s.date < row.date}) = n - 1]

\* The newest observation, if there is a decision whose account can be asked for.
Latest(rows) ==
  IF Decisions(rows) = {} THEN {}
  ELSE {s \in Snapshots(rows) : \A t \in Snapshots(rows) : t.observed <= s.observed}

NoDraft == [counts |-> Counts(<<>>), signals |-> <<>>, latest |-> {}]

-----------------------------------------------------------------------------

Init ==
  /\ DailyInit
  /\ stage = "idle" /\ view = 0 /\ draft = NoDraft
  /\ published = {}

To(from, to) == stage = from /\ stage' = to

\* BEGIN is deferred and the file is in WAL mode: the first query fixes what the
\* transaction sees, and keeps nobody from appending.
View_Committed == ledger

View == SubSeq(ledger, 1, view)

ReadCounts ==
  /\ To("idle", "signals")
  /\ view' = Len(ledger)
  /\ draft' = [NoDraft EXCEPT !.counts = Counts(ledger)]
  /\ UNCHANGED <<dailyVars, published>>

ReadSignals ==
  /\ To("signals", "reconciliation")
  /\ draft' = [draft EXCEPT !.signals = Signals(View)]
  /\ UNCHANGED <<dailyVars, view, published>>

ReadReconciliation ==
  /\ To("reconciliation", "publish")
  /\ draft' = [draft EXCEPT !.latest = Latest(View)]
  /\ UNCHANGED <<dailyVars, view, published>>

\* write_dashboard_snapshot: a temporary file, and os.replace. What the export
\* reports is not modelled: a directory that cannot be synchronized after the
\* replacement makes it report a failure though the file is published.
Publish ==
  /\ To("publish", "idle")
  /\ published' = {draft}
  /\ view' = 0 /\ draft' = NoDraft
  /\ UNCHANGED dailyVars

\* The export fails or is killed; its temporary file is nobody's.
Abandon ==
  /\ stage # "idle" /\ stage' = "idle"
  /\ view' = 0 /\ draft' = NoDraft
  /\ UNCHANGED <<dailyVars, published>>

Export == ReadCounts \/ ReadSignals \/ ReadReconciliation \/ Publish \/ Abandon

Next ==
  \/ DailyNext /\ UNCHANGED <<stage, view, draft, published>>
  \/ Export

Spec == Init /\ [][Next]_vars

-----------------------------------------------------------------------------
(* Properties                                                              *)

\* Typing of both parts; a transaction never sees more than what is committed.
TypeOK ==
  /\ DailyTypeOK
  /\ stage \in {"idle", "signals", "reconciliation", "publish"}
  /\ view \in 0..Len(ledger)
  /\ draft.signals \in Seq(Decisions(ledger)) /\ draft.latest \subseteq Snapshots(ledger)
  /\ Cardinality(published) <= 1

\* The dashboard shows one moment of the ledger: its counts, its signals and its
\* latest reconciliation belong together, also when jobs append between the
\* queries of the export, and a failed export changes nothing.
PublishedIsOneMoment ==
  \A f \in published :
    \E n \in 0..Len(ledger) :
      LET rows == SubSeq(ledger, 1, n)
      IN  f = [counts |-> Counts(rows), signals |-> Signals(rows), latest |-> Latest(rows)]

=============================================================================
