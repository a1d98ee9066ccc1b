--------------------------- MODULE ReconcileCollect ---------------------------
(***************************************************************************)
(* The read sequence of one reconciliation (reconcile_job.py,              *)
(* _execute_read_only_reconciliation_unleased after its identity gates)    *)
(* against an account that goes on moving: cash flows, orders, fills and   *)
(* cancels fall between any two reads. Kraken offers no snapshot, so the   *)
(* run brackets the history with two reads of the account and with fences  *)
(* of server time, and reports CLEAN only if nothing seems to have moved.  *)
(*                                                                         *)
(* Time runs in ticks, several to a second. Every event takes one and in   *)
(* between the clock may jump to the next second, which is all that idle   *)
(* time can change: the fences that bound the history reads are whole      *)
(* seconds. The model ends with the run.                                   *)
(***************************************************************************)
EXTENDS Integers, FiniteSets

CONSTANTS
  Deposits,        \* cash flows of one unit into the account
  Withdrawals,     \* and out of it
  Orders,          \* buy orders of one unit, filled as a whole or not at all
  TicksPerSecond,
  MaxNow           \* bound of the model: the last tick

ASSUME CollectAssumption ==
  /\ Deposits \cap Withdrawals = {} /\ Deposits \cap Orders = {}
  /\ Withdrawals \cap Orders = {}
  /\ IsFiniteSet(Deposits) /\ IsFiniteSet(Withdrawals) /\ IsFiniteSet(Orders)
  /\ TicksPerSecond \in Nat \ {0}
  /\ MaxNow \in Nat

Flows == Deposits \cup Withdrawals

Never == MaxNow + 1

VARIABLES
  now,        \* Kraken's clock
  flowAt,     \* external: when a cash flow reached the account
  openedAt,   \* external: when an order was placed,
  tradedAt,   \*   filled,
  closedAt,   \*   and left the book
  manifest,   \* expected_funding_manifest_hash: the flows the operator reviewed
  pc,         \* the run's next read
  seen,       \* the answers it holds
  readAt,     \* history: when three of them were given
  outcome     \* how the run ends

account == <<flowAt, openedAt, tradedAt, closedAt>>
vars == <<now, flowAt, openedAt, tradedAt, closedAt, manifest, pc, seen, readAt, outcome>>

\* int(server_time.timestamp()), as a tick.
Whole_Up(t) == ((t + TicksPerSecond - 1) \div TicksPerSecond) * TicksPerSecond

Whole(t) == (t \div TicksPerSecond) * TicksPerSecond

-----------------------------------------------------------------------------
(* The account, as Kraken answers for it                                   *)

In(t, from, to) == from < t /\ t <= to

Balances(t) ==
  LET traded == Cardinality({o \in Orders : tradedAt[o] <= t})
  IN [cad |-> Cardinality({d \in Deposits : flowAt[d] <= t})
              - Cardinality({w \in Withdrawals : flowAt[w] <= t}) - traded,
      btc |-> traded]

OpenOrders == {o \in Orders : openedAt[o] <= now /\ now < closedAt[o]}

\* Kraken excludes a window's start and includes its end.
Trades(from, to) == {o \in Orders : In(tradedAt[o], from, to)}

\* Ledger entries carry the identity of the flow, or of the trade.
Ledgers(from, to) == {f \in Flows : In(flowAt[f], from, to)} \cup Trades(from, to)

\* closetime "both": the order is closed, and opened or closed in the window.
ClosedOrders(from, to) ==
  {o \in Orders : closedAt[o] <= now /\ (In(openedAt[o], from, to) \/ In(closedAt[o], from, to))}

-----------------------------------------------------------------------------

NoBalances == [cad |-> 0, btc |-> 0]

NotSeen ==
  [end |-> 0, opening_balances |-> NoBalances, opening_orders |-> {}, closed |-> {},
   trades |-> {}, ledgers |-> {}, closing_balances |-> NoBalances, closing_orders |-> {},
   tail_end |-> 0, tail_trades |-> {}, tail_ledgers |-> {}, final_orders |-> {},
   order_fence |-> 0, tail_closed |-> {}]

\* Flows of long ago may be in the history already, and orders on the book.
Init ==
  /\ now = 0
  /\ flowAt \in [Flows -> {0, Never}]
  /\ openedAt \in [Orders -> {0, Never}]
  /\ tradedAt = [o \in Orders |-> Never]
  /\ closedAt = [o \in Orders |-> Never]
  /\ Balances(0).cad >= 0
  /\ manifest \in SUBSET Deposits
  /\ pc = "server"
  /\ seen = NotSeen
  /\ readAt = [opening_orders |-> Never, closing_balances |-> Never, tail_end |-> Never]
  /\ outcome = "running"

\* Every event happens at a tick of its own.
Advance == pc # "done" /\ now < MaxNow /\ now' = now + 1

Idle ==
  /\ pc # "done"
  /\ now' = Whole(now) + TicksPerSecond
  /\ now' <= MaxNow
  /\ UNCHANGED <<account, manifest, pc, seen, readAt, outcome>>

-----------------------------------------------------------------------------
(* The account moves (external)                                            *)

CashFlow(f) ==
  /\ Advance
  /\ flowAt[f] = Never
  /\ f \in Withdrawals => Balances(now).cad > 0
  /\ flowAt' = [flowAt EXCEPT ![f] = now']
  /\ UNCHANGED <<openedAt, tradedAt, closedAt, manifest, pc, seen, readAt, outcome>>

Place(o) ==
  /\ Advance
  /\ openedAt[o] = Never
  /\ openedAt' = [openedAt EXCEPT ![o] = now']
  /\ UNCHANGED <<flowAt, tradedAt, closedAt, manifest, pc, seen, readAt, outcome>>

Fill(o) ==
  /\ Advance
  /\ o \in OpenOrders
  /\ Balances(now).cad > 0
  /\ tradedAt' = [tradedAt EXCEPT ![o] = now']
  /\ closedAt' = [closedAt EXCEPT ![o] = now']
  /\ UNCHANGED <<flowAt, openedAt, manifest, pc, seen, readAt, outcome>>

Cancel(o) ==
  /\ Advance
  /\ o \in OpenOrders
  /\ closedAt' = [closedAt EXCEPT ![o] = now']
  /\ UNCHANGED <<flowAt, openedAt, tradedAt, manifest, pc, seen, readAt, outcome>>

-----------------------------------------------------------------------------
(* The run reads                                                           *)

\* One request, private or, for the server time, public: its answer is the
\* account's state when Kraken handles it.
Read(from, field, answer, to) ==
  /\ Advance
  /\ pc = from /\ pc' = to
  /\ seen' = [seen EXCEPT ![field] = answer]
  /\ readAt' = IF field \in DOMAIN readAt THEN [readAt EXCEPT ![field] = now'] ELSE readAt
  /\ UNCHANGED <<account, manifest, outcome>>

\* get_server_time and _history_bounds.
ServerTime == Read("server", "end", Whole(now'), "opening_balances")

OpeningBalances ==
  Read("opening_balances", "opening_balances", Balances(now), "opening_orders")

OpeningOrders == Read("opening_orders", "opening_orders", OpenOrders, "closed")

ReadClosed == Read("closed", "closed", ClosedOrders(-1, seen.end), "trades")

ReadTrades == Read("trades", "trades", Trades(-1, seen.end), "ledgers")

ReadLedgers ==
  Read("ledgers", "ledgers", Ledgers(-1, seen.end), "closing_balances")

ClosingBalances ==
  Read("closing_balances", "closing_balances", Balances(now), "closing_orders")

ClosingOrders ==
  Read("closing_orders", "closing_orders", OpenOrders, "closing_server")

ClosingServer == Read("closing_server", "tail_end", Whole(now'), "tail_trades")

TailTrades ==
  Read("tail_trades", "tail_trades", Trades(seen.end, seen.tail_end), "tail_ledgers")

TailLedgers_SameBounds ==
  Read("tail_ledgers", "tail_ledgers", Ledgers(seen.end, seen.end), "final_orders")

TailLedgers ==
  Read("tail_ledgers", "tail_ledgers", Ledgers(seen.end, seen.tail_end), "final_orders")

FinalOrders == Read("final_orders", "final_orders", OpenOrders, "order_fence")

OrderFence == Read("order_fence", "order_fence", Whole(now'), "tail_closed")

TailClosed_AccountFence ==
  Read("tail_closed", "tail_closed", ClosedOrders(seen.end, seen.tail_end), "report")

TailClosed ==
  Read("tail_closed", "tail_closed", ClosedOrders(seen.end, seen.order_fence), "report")

-----------------------------------------------------------------------------
(* The gates that decide whether the account stood still                   *)

MergedClosed  == seen.closed \cup seen.tail_closed
MergedTrades  == seen.trades \cup seen.tail_trades
MergedLedgers == seen.ledgers \cup seen.tail_ledgers

\* _tail_is_quiet.
CollectionQuiet ==
  /\ seen.tail_closed \subseteq seen.closed
  /\ seen.tail_trades \subseteq seen.trades
  /\ seen.tail_ledgers \subseteq seen.ledgers

SnapshotStable ==
  /\ seen.opening_balances = seen.closing_balances
  /\ seen.opening_orders = seen.closing_orders
  /\ seen.closing_orders = seen.final_orders

\* _ledger_balances_match: the merged entries lead from zero to the balances. The
\* code follows each entry's running balance; of whole distinct flows in their
\* order, as Kraken's are here, that is their sum.
LedgerBalancesMatch ==
  LET trades == Cardinality(MergedLedgers \cap Orders)
  IN seen.closing_balances =
       [cad |-> Cardinality(MergedLedgers \cap Deposits)
                - Cardinality(MergedLedgers \cap Withdrawals) - trades,
        btc |-> trades]

\* _order_trade_totals_match: a closed order's trades are the trades read.
OrderTradeTotalsMatch ==
  /\ MergedTrades \subseteq MergedClosed
  /\ \A o \in MergedClosed : tradedAt[o] # Never => o \in MergedTrades

\* _linked_trade_fees: trades and trade entries name each other.
TradeLedgerLinks == MergedTrades = MergedLedgers \cap Orders

\* _external_entries_are_classified: deposits only, all of them reviewed.
FlowsClassified == MergedLedgers \cap Flows = manifest

Gates ==
  /\ CollectionQuiet
  /\ SnapshotStable
  /\ seen.final_orders = {}
  /\ LedgerBalancesMatch
  /\ OrderTradeTotalsMatch
  /\ TradeLedgerLinks
  /\ FlowsClassified

\* The report; gates about other things may keep it from being CLEAN.
Report ==
  /\ pc = "report" /\ pc' = "done"
  /\ outcome' \in IF Gates THEN {"clean", "not clean"} ELSE {"not clean"}
  /\ UNCHANGED <<now, account, manifest, seen, readAt>>

Next ==
  \/ Idle
  \/ \E f \in Flows : CashFlow(f)
  \/ \E o \in Orders : Place(o) \/ Fill(o) \/ Cancel(o)
  \/ ServerTime \/ OpeningBalances \/ OpeningOrders
  \/ ReadClosed \/ ReadTrades \/ ReadLedgers
  \/ ClosingBalances \/ ClosingOrders \/ ClosingServer
  \/ TailTrades \/ TailLedgers \/ FinalOrders \/ OrderFence \/ TailClosed
  \/ Report

Spec == Init /\ [][Next]_vars

-----------------------------------------------------------------------------

Stages == DOMAIN NotSeen \cup {"server", "closing_server", "report", "done"}

Ticks == 0..Never

\* Typing; no fence lies in the future.
TypeOK ==
  /\ now \in 0..MaxNow
  /\ flowAt \in [Flows -> Ticks]
  /\ openedAt \in [Orders -> Ticks] /\ tradedAt \in [Orders -> Ticks]
  /\ closedAt \in [Orders -> Ticks]
  /\ manifest \subseteq Deposits
  /\ pc \in Stages
  /\ {seen.end, seen.tail_end, seen.order_fence} \subseteq 0..now
  /\ {seen.opening_balances.cad, seen.closing_balances.cad} \subseteq Nat
  /\ MergedClosed \cup MergedTrades \cup seen.opening_orders \cup seen.closing_orders
       \cup seen.final_orders \subseteq Orders
  /\ MergedLedgers \subseteq Flows \cup Orders
  /\ readAt \in [{"opening_orders", "closing_balances", "tail_end"} -> Ticks]
  /\ outcome \in {"running", "clean", "not clean"}

\* A CLEAN report is the account at its observed_at, the whole second of the
\* closing fence: its balances are the balances of that instant and its history
\* holds every cash flow and every trade up to it.
CleanIsTheAccount ==
  outcome = "clean" =>
    /\ seen.closing_balances = Balances(seen.tail_end)
    /\ MergedLedgers = Ledgers(-1, seen.tail_end)
    /\ MergedTrades = Trades(-1, seen.tail_end)

\* If the two fences are in different seconds (the pacer keeps the requests for
\* them more than a second apart), CLEAN rules out an order that was live at any
\* time between the first look at the book and the closing fence, also one that
\* was placed and canceled without a fill between two looks: every order placed
\* by then had been closed before the first look, and the report has it.
CleanRulesOutOrders ==
  outcome = "clean" /\ seen.tail_end < seen.order_fence =>
    \A o \in Orders : openedAt[o] <= readAt["tail_end"] =>
      closedAt[o] < readAt["opening_orders"] /\ o \in seen.closed

\* "Tail history is queried only after that fence, so any activity between the
\* state snapshots and the fence prevents a CLEAN result" (the comment before
\* the closing reads).
ActivityBeforeTheFencePreventsClean ==
  outcome = "clean" =>
    ~\E f \in Flows : In(flowAt[f], readAt["closing_balances"], readAt["tail_end"])

=============================================================================
