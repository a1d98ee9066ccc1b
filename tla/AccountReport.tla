---------------------------- MODULE AccountReport ----------------------------
(***************************************************************************)
(* reconciliation.py: reconcile_account, a pure function from one          *)
(* observation of an account to a report. Orders, trades, fees, balances   *)
(* and liabilities are the exchange's facts; legacy hints are claims that  *)
(* an order was the legacy program's, to be matched with those facts.      *)
(*                                                                         *)
(* An observation is a record of sets. The code's tuples may hold a record *)
(* twice, so every record has a copy number and two copies are two         *)
(* elements; ids of balances and liabilities are their assets. Amounts are *)
(* whole units. Of times only the comparisons that the code makes are      *)
(* kept: "timely" is opened_at <= closed_at <= observed_at of an order and *)
(* executed_at <= observed_at of a trade, "within" that a trade lies in    *)
(* the life of its order, and a hint's window is the set of the orders     *)
(* opened in it.                                                           *)
(***************************************************************************)
EXTENDS Integers, FiniteSets, FiniteSetsExt

None == "none"

Assets == {"BTC", "CAD"}
Pair   == "BTC/CAD"

When(condition, code) == IF condition THEN {code} ELSE {}

Ids(S) == {x.id : x \in S}

\* _duplicate_values.
Repeated(S) == {x.id : x \in {y \in S : \E z \in S : z # y /\ z.id = y.id}}

-----------------------------------------------------------------------------
(* Balances and liabilities                                                *)

BalanceCodes(ob) ==
  When(Repeated(ob.balances) # {}, "duplicate_balance_asset")
    \cup When(\E b \in ob.balances : b.id \notin Assets, "unknown_asset")
    \cup When(\E b \in ob.balances : b.available < 0 \/ b.held < 0, "negative_balance")
    \cup When(~(Assets \subseteq Ids(ob.balances)), "missing_required_balance")

LiabilityCodes(ob) ==
  When(Repeated(ob.liabilities) # {}, "duplicate_liability_asset")
    \cup When(\E l \in ob.liabilities : l.id \notin Assets, "unknown_asset")
    \cup When(\E l \in ob.liabilities : l.amount < 0, "invalid_liability")
    \cup When(\E l \in ob.liabilities : l.amount > 0, "nonzero_liability")

-----------------------------------------------------------------------------
(* Orders                                                                  *)

IsOpen(o) == o.state \in {"open", "partially_filled"}

StateFits(o) ==
  CASE o.state = "open"             -> o.filled = 0 /\ ~o.closed
    [] o.state = "partially_filled" -> o.filled \in 1..(o.qty - 1) /\ ~o.closed
    [] o.state = "filled"           -> o.filled = o.qty /\ o.closed
    [] o.state \in {"canceled", "expired"} -> o.filled < o.qty /\ o.closed
    [] o.state = "rejected"         -> o.filled = 0 /\ o.closed

\* _validate_order, apart from the pair.
SoundOrder(o) == o.qty > 0 /\ o.filled \in 0..o.qty /\ o.timely /\ StateFits(o)

RepeatedClients(S) ==
  {o.client : o \in {p \in S : p.client # None /\ \E q \in S : q # p /\ q.client = p.client}}

OrderCodes(ob) ==
  When(Repeated(ob.orders) # {}, "duplicate_order_id")
    \cup When(RepeatedClients(ob.orders) # {}, "duplicate_client_order_id")
    \cup When(\E o \in ob.orders : o.pair # Pair, "unknown_pair")
    \cup When(\E o \in ob.orders : ~SoundOrder(o), "invalid_order")

ValidOrders_SharedClients(ob) ==
  {o \in ob.orders : SoundOrder(o) /\ o.pair = Pair /\ o.id \notin Repeated(ob.orders)}

ValidOrders(ob) ==
  {o \in ob.orders :
    /\ SoundOrder(o) /\ o.pair = Pair
    /\ o.id \notin Repeated(ob.orders)
    /\ o.client \notin RepeatedClients(ob.orders)}

-----------------------------------------------------------------------------
(* Trades and fees                                                         *)

SoundTrade(t) == t.qty > 0 /\ t.timely

\* Of orders with one id the code takes the first in an order of hashes.
OrderOf(ob, t) == CHOOSE o \in ob.orders : o.id = t.order

Disagrees(ob, t) ==
  LET o == OrderOf(ob, t) IN t.pair # o.pair \/ t.side # o.side \/ ~t.within

TradeCodes(ob) ==
  LET sound == {t \in ob.trades : SoundTrade(t)}
      linked == {t \in sound : t.order \in Ids(ob.orders)}
  IN When(Repeated(ob.trades) # {}, "duplicate_trade_id")
       \cup When(\E t \in ob.trades : t.pair # Pair, "unknown_pair")
       \cup When(sound # ob.trades, "invalid_trade")
       \cup When(linked # sound, "unknown_trade_order")
       \cup When(\E t \in linked : Disagrees(ob, t), "inconsistent_trade")

\* Given the valid orders.
ValidTrades(ob, orders) ==
  LET ids == Ids(orders)
      repeated == Repeated(ob.trades)
  IN {t \in ob.trades :
       /\ SoundTrade(t) /\ t.order \in ids
       /\ ~Disagrees(ob, t)
       /\ t.id \notin repeated /\ t.pair = Pair}

Of(trades, o) == {t \in trades : t.order = o.id}

Volume(trades) == MapThenSumSet(LAMBDA t : t.qty, trades)

FillCodes_None(v) == {}

FillCodes(v) ==
  When(\E o \in v.orders : Volume(Of(v.trades, o)) # o.filled, "inconsistent_fill_total")

FeeCodes(ob, v) ==
  LET valid == Ids(v.trades)
  IN When(Repeated(ob.fees) # {}, "duplicate_fee_id")
       \cup When(\E f \in ob.fees : f.asset \notin Assets, "unknown_asset")
       \cup When(\E f \in ob.fees : f.trade \notin Ids(ob.trades), "unknown_fee_trade")
       \cup When(\E f \in ob.fees : f.amount < 0 \/ (f.trade \in Ids(ob.trades) \ valid),
                 "invalid_fee")

\* Given the valid trades.
ValidFees(ob, trades) ==
  {f \in ob.fees :
    /\ f.id \notin Repeated(ob.fees)
    /\ f.asset \in Assets /\ f.amount >= 0
    /\ f.trade \in Ids(trades)}

-----------------------------------------------------------------------------
(* Legacy hints                                                            *)

HasIdentity(h) == h.order # None \/ h.client # None

\* The valid orders that a hint's identity, if it has one, can mean.
IdentityPool(orders, h) ==
  IF h.order # None THEN {o \in orders : o.id = h.order}
  ELSE IF h.client # None THEN {o \in orders : o.client = h.client}
  ELSE orders

\* Those that agree with everything else it says.
Candidates(orders, h) ==
  {o \in IdentityPool(orders, h) :
    /\ h.client = None \/ o.client = h.client
    /\ o.pair = h.pair /\ o.side = h.side /\ o.qty = h.qty
    /\ o.id \in h.window}

Verdict_TrustsAttributes(orders, h) ==
  IF Cardinality(Candidates(orders, h)) = 1 THEN "matched" ELSE "unmatched_legacy_hint"

\* _hint_candidates and the branches on its answer.
Verdict(orders, h) ==
  LET found == Candidates(orders, h)
      contradicted == HasIdentity(h) /\ IdentityPool(orders, h) # {}
      owned == \E o \in found : o.ownership \in {"bot", "manual"}
  IN CASE h.pair # Pair -> "unknown_pair"
       [] h.pair = Pair /\ ~(h.qty > 0 /\ h.timely) -> "invalid_legacy_hint"
       [] OTHER ->
            CASE found = {} -> IF contradicted THEN "legacy_hint_conflict"
                                               ELSE "unmatched_legacy_hint"
              [] found # {} /\ Cardinality(found) > 1 -> "ambiguous_legacy_hint"
              [] OTHER -> IF ~HasIdentity(h) THEN "unverified_attribute_match"
                          ELSE IF owned THEN "legacy_hint_conflict" ELSE "matched"

\* A LegacySubmissionMatch: a hint with the order it matched.
Matches(ob, orders) ==
  UNION {{<<h, o>> : o \in Candidates(orders, h)} :
           h \in {g \in ob.hints : Verdict(orders, g) = "matched"}}

\* What the observation holds that can be relied on.
Validated(ob) ==
  LET orders == ValidOrders(ob)
      trades == ValidTrades(ob, orders)
  IN [orders |-> orders,
      trades |-> trades,
      fees |-> ValidFees(ob, trades),
      matches |-> Matches(ob, orders)]

MatchedIds(v) == {m[2].id : m \in v.matches}

HintCodes(ob, v) ==
  When(Repeated(ob.hints) # {}, "duplicate_legacy_hint_id")
    \cup ({Verdict(v.orders, h) : h \in ob.hints} \ {"matched"})
    \cup When(\E m, n \in v.matches : m # n /\ m[2].id = n[2].id,
              "order_matched_by_multiple_hints")

-----------------------------------------------------------------------------
(* Ownership of the orders and of what is held                             *)

OwnershipCodes(ob, v) ==
  LET unknown == {o \in ob.orders : o.ownership = "unknown" /\ o.id \notin MatchedIds(v)}
  IN When(\E o \in ob.orders : IsOpen(o) /\ o.ownership = "manual", "open_manual_order")
       \cup When(\E o \in unknown : IsOpen(o), "open_unknown_order")
       \cup When(\E o \in unknown : ~IsOpen(o), "unknown_closed_order")

\* Of several balances of one asset the code takes the first in an order of
\* hashes; a missing one counts as zero.
BalanceOf(ob, asset) ==
  IF asset \in Ids(ob.balances)
  THEN CHOOSE b \in ob.balances : b.id = asset
  ELSE [id |-> asset, copy |-> 1, available |-> 0, held |-> 0]

HeldBy(asset) == IF asset = "CAD" THEN "buy" ELSE "sell"

HeldCodes(ob) ==
  When(\E a \in Assets : /\ BalanceOf(ob, a).held > 0
                         /\ ~\E o \in ob.orders : IsOpen(o) /\ o.side = HeldBy(a),
       "unexplained_held_balance")

-----------------------------------------------------------------------------
(* The opening inventory                                                   *)

LegacyTrades(ob, v) ==
  LET ids == MatchedIds(v) \cup {o.id : o \in {p \in ob.orders : p.ownership = "legacy"}}
  IN {t \in v.trades : t.order \in ids}

LegacyNet(ob, v) ==
  LET trades == LegacyTrades(ob, v)
      fees == {f \in v.fees : f.asset = "BTC" /\ f.trade \in Ids(trades)}
  IN MapThenSumSet(LAMBDA t : IF t.side = "buy" THEN t.qty ELSE -t.qty, trades)
       - MapThenSumSet(LAMBDA f : f.amount, fees)

BTC(ob) == BalanceOf(ob, "BTC").available + BalanceOf(ob, "BTC").held

FactCodes(ob, v) ==
  BalanceCodes(ob) \cup LiabilityCodes(ob) \cup OrderCodes(ob) \cup TradeCodes(ob)
    \cup FillCodes(v) \cup FeeCodes(ob, v) \cup HintCodes(ob, v) \cup OwnershipCodes(ob, v)
    \cup HeldCodes(ob)

\* _INVENTORY_UNRELIABLE_CODES.
Reliable ==
  {"unverified_attribute_match", "open_manual_order", "unexplained_held_balance"}

\* Without variance there is nothing to explain; the code that goes with each
\* classification comes with it.
Inventory_AnyHistory(complete, btc, net, codes) ==
  IF btc = net THEN <<"confirmed_legacy_btc", {}>> ELSE <<"indeterminate", {}>>

Inventory(complete, btc, net, codes) ==
  CASE ~complete /\ btc # 0 -> <<"indeterminate", {"incomplete_inventory_provenance"}>>
    [] (complete \/ btc = 0) /\ ~(codes \subseteq Reliable) -> <<"indeterminate", {}>>
    [] OTHER ->
         CASE net < 0 -> <<"preexisting_btc_required", {"preexisting_btc_required"}>>
           [] net = 0 /\ btc = 0 -> <<"cash_only", {}>>
           [] net = 0 /\ btc # 0 -> <<"external_or_unattributed_btc", {"unattributed_btc_inventory"}>>
           [] net > 0 /\ btc = net -> <<"confirmed_legacy_btc", {}>>
           [] net > 0 /\ btc > net ->
                <<"mixed_legacy_and_unattributed_btc", {"unattributed_btc_inventory"}>>
           [] net > 0 /\ btc < net ->
                <<"legacy_btc_balance_shortfall", {"legacy_btc_balance_mismatch"}>>

\* The codes outside _DISARMING_CODES.
Unresolving ==
  {"unmatched_legacy_hint", "unverified_attribute_match", "unknown_closed_order",
   "unattributed_btc_inventory", "legacy_btc_balance_mismatch",
   "preexisting_btc_required", "incomplete_inventory_provenance"}

Status(codes) ==
  IF ~(codes \subseteq Unresolving) THEN "DISARMED"
  ELSE IF codes # {} THEN "UNRESOLVED" ELSE "CLEAN"

\* reconcile_account.
Reconciled(ob) ==
  LET v == Validated(ob)
      net == LegacyNet(ob, v)
      facts == FactCodes(ob, v)
      inventory == Inventory(ob.complete, BTC(ob), net, facts)
      codes == facts \cup inventory[2]
  IN [status |-> Status(codes),
      codes |-> codes,
      class |-> inventory[1],
      net |-> net,
      matched |-> {<<m[1].id, m[2].id>> : m \in v.matches},
      counted |-> Ids(LegacyTrades(ob, v)),
      open |-> Ids({o \in ob.orders : IsOpen(o)})]

=============================================================================
