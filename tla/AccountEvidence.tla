--------------------------- MODULE AccountEvidence ---------------------------
(***************************************************************************)
(* An account that a legacy program, the bot and people have traded on,    *)
(* and the report (AccountReport) on one observation of it. The            *)
(* observation is built as reconcile_job.py builds it from Kraken's        *)
(* answers, and at most one thing is wrong with it: an answer is           *)
(* incomplete, out of date, repeated or contradicts another one. The hints *)
(* are the legacy program's records of what it submitted; they may lack    *)
(* the order's ids, be wrong in an amount, or speak of a submission that   *)
(* came to nothing, but an order id in one is of an order it placed.       *)
(***************************************************************************)
EXTENDS AccountReport, Sequences

CONSTANTS
  OrderIds,
  Kinds,      \* what may be ordered: side, lots, client id, owner, whether the
              \*   local ledger knows the owner, pair
  FeeAssets,  \* what a fill may cost: None, "BTC" or "CAD"
  External    \* units of BTC that came without an order

ASSUME EvidenceAssumption ==
  /\ \A k \in Kinds :
       /\ DOMAIN k = {"side", "lots", "client", "owner", "known", "pair"}
       /\ k.side \in {"buy", "sell"} /\ k.lots \in Nat \ {0}
       /\ k.owner \in {"bot", "legacy", "manual"} /\ k.known \in BOOLEAN
  /\ IsFiniteSet(OrderIds) /\ None \notin OrderIds
  /\ FeeAssets \subseteq {None} \cup Assets
  /\ External \subseteq Nat

Absent == [side |-> None, lots |-> 0, client |-> None, owner |-> None, known |-> FALSE,
           pair |-> None]

VARIABLES
  order,     \* external: what was ordered
  life,      \* external: "absent", "open", "closed" (filled) or "canceled"
  fills,     \* external: the fee assets of an order's fills, in order
  outside,   \* external: BTC that came without an order
  harm,      \* history: what is wrong with the observation
  hints,     \* the hints given to the report
  report     \* the report

market == <<order, life, fills, outside>>
evidence == <<market, harm, hints, report>>

NoReport == [status |-> None]

AccountInit ==
  /\ order = [o \in OrderIds |-> Absent]
  /\ life = [o \in OrderIds |-> "absent"]
  /\ fills = [o \in OrderIds |-> <<>>]
  /\ outside \in External
  /\ harm = <<None>>
  /\ hints = {}
  /\ report = NoReport

-----------------------------------------------------------------------------
(* The account (external). A fill is one lot of two units, its fee one.    *)

Lot == 2

Placed == {o \in OrderIds : life[o] # "absent"}

TradeIds == UNION {{o} \X (1..Len(fills[o])) : o \in OrderIds}

FeeOf(t) == fills[t[1]][t[2]]

\* What the orders in S added to the holding of an asset.
Gained(S, asset) ==
  LET of == {t \in TradeIds : t[1] \in S /\ order[t[1]].pair = <<asset, "CAD">>}
      buys == {t \in of : order[t[1]].side = "buy"}
  IN Lot * Cardinality(buys) - Lot * Cardinality(of \ buys)
       - Cardinality({t \in of : FeeOf(t) = asset})

Held(side) ==
  MapThenSumSet(LAMBDA o : Lot * (order[o].lots - Len(fills[o])),
                {o \in OrderIds : life[o] = "open" /\ order[o].side = side
                                    /\ order[o].pair = <<"BTC", "CAD">>})

Holding(asset) == Gained(OrderIds, asset) + IF asset = "BTC" THEN outside ELSE 0

Submit(o, k) ==
  /\ report = NoReport
  /\ life[o] = "absent"
  /\ order' = [order EXCEPT ![o] = k]
  /\ life' = [life EXCEPT ![o] = "open"]
  /\ UNCHANGED <<fills, outside, harm, hints, report>>
  /\ Held("sell")' <= Holding("BTC")

Match(o, fee) ==
  /\ report = NoReport
  /\ life[o] = "open"
  /\ fills' = [fills EXCEPT ![o] = Append(@, fee)]
  /\ life' = IF Len(fills'[o]) = order[o].lots THEN [life EXCEPT ![o] = "closed"] ELSE life
  /\ UNCHANGED <<order, outside, harm, hints, report>>
  /\ Holding("BTC")' >= Held("sell")' /\ Holding("ETH")' >= 0

Withdraw(o) ==
  /\ report = NoReport
  /\ life[o] = "open"
  /\ life' = [life EXCEPT ![o] = "canceled"]
  /\ UNCHANGED <<order, fills, outside, harm, hints, report>>

-----------------------------------------------------------------------------
(* The observation                                                         *)

PairName(k) == IF k.pair = <<"BTC", "CAD">> THEN Pair ELSE "other"

\* _order_state.
OrderState(o, filled) ==
  IF life[o] = "open" THEN IF filled > 0 THEN "partially_filled" ELSE "open"
  ELSE IF life[o] = "closed" THEN "filled" ELSE "canceled"

\* _authoritative_order. The job passes "unknown" for every order; the report
\* also takes what a ledger of its own would know.
ObservedOrder(o, filled) ==
  [id |-> o, copy |-> 1, pair |-> PairName(order[o]), side |-> order[o].side,
   state |-> OrderState(o, filled), qty |-> Lot * order[o].lots, filled |-> Lot * filled,
   closed |-> life[o] # "open", timely |-> TRUE, client |-> order[o].client,
   ownership |-> IF order[o].known THEN order[o].owner ELSE "unknown"]

\* _authoritative_trade.
ObservedTrade(t) ==
  [id |-> t, copy |-> 1, order |-> t[1], pair |-> PairName(order[t[1]]),
   side |-> order[t[1]].side, qty |-> Lot, timely |-> TRUE, within |-> TRUE]

\* The fees that _linked_trade_fees finds.
ObservedFee(t) == [id |-> t, copy |-> 1, trade |-> t, asset |-> FeeOf(t), amount |-> 1]

\* _balances: other assets only if there is something of them.
ObservedBalances ==
  LET eth == Holding("ETH") IN
  {[id |-> "BTC", copy |-> 1, available |-> Holding("BTC") - Held("sell"), held |-> Held("sell")],
   [id |-> "CAD", copy |-> 1, available |-> 0, held |-> Held("buy")]}
    \cup IF eth = 0 THEN {} ELSE {[id |-> "ETH", copy |-> 1, available |-> eth, held |-> 0]}

Seen ==
  [balances |-> ObservedBalances,
   orders |-> {ObservedOrder(o, Len(fills[o])) : o \in Placed},
   trades |-> {ObservedTrade(t) : t \in TradeIds},
   fees |-> {ObservedFee(t) : t \in {u \in TradeIds : FeeOf(u) # None}}]

\* What can be wrong with an observation, and with which record.
Harms ==
  {<<None>>, <<"incomplete">>, <<"liability">>, <<"hint twice">>}
    \cup {"twice"} \X {"BTC", "CAD"}
    \cup {"overdrawn"} \X {"BTC", "CAD"}
    \cup {"lost", "lost with trades", "order twice", "of later"} \X Placed
    \cup {"out of date"} \X {o \in Placed : fills[o] # <<>>}
    \cup {"lost trade", "trade twice", "turned", "outside", "of later trade"} \X TradeIds
    \cup {"lost fee", "fee twice"} \X {t \in TradeIds : FeeOf(t) # None}

Copies(S, id) == S \cup {[x EXCEPT !.copy = 2] : x \in {y \in S : y.id = id}}

Without(S, id) == {x \in S : x.id # id}

HarmedBalances(S, h) ==
  CASE h[1] = "twice" -> Copies(S, h[2])
    [] h[1] = "overdrawn" -> {IF b.id = h[2] THEN [b EXCEPT !.available = -1] ELSE b : b \in S}
    [] OTHER -> S

HarmedOrders(S, h) ==
  CASE h[1] \in {"lost", "lost with trades"} -> Without(S, h[2])
    [] h[1] = "order twice" -> Copies(S, h[2])
    [] h[1] = "out of date" ->
         Without(S, h[2]) \cup {ObservedOrder(h[2], Len(fills[h[2]]) - 1)}
    [] h[1] = "of later" -> {IF o.id = h[2] THEN [o EXCEPT !.timely = FALSE] ELSE o : o \in S}
    [] OTHER -> S

Turned(side) == IF side = "buy" THEN "sell" ELSE "buy"

HarmedTrades(S, h) ==
  CASE h[1] = "lost with trades" -> {t \in S : t.order # h[2]}
    [] h[1] = "lost trade" -> Without(S, h[2])
    [] h[1] = "trade twice" -> Copies(S, h[2])
    [] h[1] = "turned" -> {IF t.id = h[2] THEN [t EXCEPT !.side = Turned(@)] ELSE t : t \in S}
    [] h[1] = "outside" -> {IF t.id = h[2] THEN [t EXCEPT !.within = FALSE] ELSE t : t \in S}
    [] h[1] = "of later trade" ->
         {IF t.id = h[2] THEN [t EXCEPT !.timely = FALSE] ELSE t : t \in S}
    [] OTHER -> S

HarmedFees(S, h) ==
  CASE h[1] = "lost with trades" -> {f \in S : f.trade[1] # h[2]}
    [] h[1] \in {"lost trade", "lost fee"} -> Without(S, h[2])
    [] h[1] = "fee twice" -> Copies(S, h[2])
    [] OTHER -> S

\* What harm h leaves of an observation, with the hints given for it.
Harmed(ob, h, given) ==
  [balances |-> HarmedBalances(ob.balances, h),
   orders |-> HarmedOrders(ob.orders, h),
   trades |-> HarmedTrades(ob.trades, h),
   fees |-> HarmedFees(ob.fees, h),
   liabilities |-> IF h[1] = "liability" THEN {[id |-> "CAD", copy |-> 1, amount |-> 1]} ELSE {},
   hints |-> given,
   complete |-> h[1] # "incomplete"]

-----------------------------------------------------------------------------
(* The hints and the report                                                *)

LegacyOrders == {o \in Placed : order[o].owner = "legacy"}

\* byId, byClient: whether it holds the ids; slip: what is wrong in it.
ClaimOn(o, byId, byClient, slip) ==
  [order |-> IF byId THEN o ELSE None,
   client |-> IF byClient THEN order[o].client ELSE None,
   side |-> order[o].side,
   qty |-> Lot * (IF slip = "amount" THEN 3 - order[o].lots ELSE order[o].lots),
   pair |-> Pair, timely |-> TRUE,
   window |-> IF slip = "window" THEN OrderIds \ {o} ELSE OrderIds]

VoidClaim(client, pair, timely) ==
  [order |-> None, client |-> client, side |-> "buy", qty |-> Lot, pair |-> pair,
   timely |-> timely, window |-> OrderIds]

\* Submissions that no order came of, and claims that are none. The client id of
\* such a submission may be on anybody's order.
VoidClaims ==
  {VoidClaim(None, Pair, TRUE), VoidClaim("void", Pair, TRUE),
   VoidClaim(None, "other", TRUE), VoidClaim(None, Pair, FALSE)}

ClaimsWith(slips) ==
  {ClaimOn(o, i, c, slip) : o \in LegacyOrders, i \in BOOLEAN, c \in BOOLEAN, slip \in slips}
    \cup VoidClaims

Claims == ClaimsWith({None, "amount", "window"})

\* A hint's id tells it from every other hint.
Hint(c) ==
  [id |-> c, copy |-> 1, order |-> c.order, client |-> c.client, side |-> c.side,
   qty |-> c.qty, pair |-> c.pair, window |-> c.window, timely |-> c.timely]

\* A report on what was seen of the account, if harm h was done to it.
Judge(seen, h, C) ==
  /\ report = NoReport
  /\ harm' = h
  /\ hints' = C
  /\ LET given == {Hint(c) : c \in C}
         again == IF h[1] = "hint twice" THEN {[g EXCEPT !.copy = 2] : g \in given} ELSE {}
     IN report' = Reconciled(Harmed(seen, h, given \cup again))
  /\ UNCHANGED market

JudgeAny == \E h \in Harms, C \in SUBSET Claims : Judge(Seen, h, C)

AccountSteps ==
  \E o \in OrderIds :
    \/ \E k \in Kinds : Submit(o, k)
    \/ \E f \in FeeAssets : Match(o, f)
    \/ Withdraw(o)

AccountNext == AccountSteps \/ JudgeAny

AccountSpec == AccountInit /\ [][AccountNext]_evidence

-----------------------------------------------------------------------------

Judged == report # NoReport

\* Typing; a hint is matched only by an id that it holds.
AccountTypeOK ==
  /\ order \in [OrderIds -> Kinds \cup {Absent}]
  /\ life \in [OrderIds -> {"absent", "open", "closed", "canceled"}]
  /\ \A o \in OrderIds : fills[o] \in Seq(FeeAssets) /\ Len(fills[o]) <= order[o].lots
  /\ outside \in External
  /\ Judged => /\ report.status \in {"CLEAN", "UNRESOLVED", "DISARMED"}
               /\ report.counted \subseteq TradeIds
               /\ report.matched \subseteq {c \in hints : HasIdentity(c)} \X Placed

\* An observation that lacks an order.
OrderMissing == harm[1] \in {"lost", "lost with trades"}

\* A hint by a client id alone, which nothing keeps unique, means another's order
\* if no order of the legacy program that was seen bears the id: the submission
\* came to nothing, or its order is missing.
Misleads(c, o) ==
  /\ c.order = None /\ c.client # None /\ c.client = order[o].client
  /\ \A p \in LegacyOrders : order[p].client = c.client => OrderMissing /\ p = harm[2]

\* Nothing but the legacy program's own fills is counted as legacy inventory,
\* whatever a hint resembles and whatever else is wrong, but for an order that such
\* a client id means; an order id never means another's.
OnlyLegacyOrdersCount ==
  Judged =>
    \A t \in report.counted :
      order[t[1]].owner = "legacy" \/ \E c \in hints : Misleads(c, t[1])

\* A claim that names an order, with every detail right.
NamedBy(c, o) ==
  /\ c.order = o \/ (c.order = None /\ c.client # None)
  /\ c.client \in {None, order[o].client}
  /\ c.side = order[o].side /\ c.qty = Lot * order[o].lots
  /\ c.pair = PairName(order[o]) /\ c.timely /\ o \in c.window

\* The orders that the ledger does not know to be another's.
Claimable == {o \in Placed : order[o].known => order[o].owner = "legacy"}

\* The legacy orders, and those that pass for such under the client id of a
\* submission that came to nothing.
Credited == LegacyOrders \cup {o \in Claimable : \E c \in hints : NamedBy(c, o)}

\* What CLEAN promises, said of the account itself.
SoundAccount ==
  /\ \A o \in Placed : PairName(order[o]) = Pair
  /\ \A o \in Placed : order[o].known \/ \E c \in hints : NamedBy(c, o)
  /\ \A o, p \in Placed : order[o].client = order[p].client /\ o # p => order[o].client = None
  /\ \A o \in Placed \ Credited : life[o] = "open" => order[o].owner # "manual"
  /\ \A c \in hints : \E o \in Claimable : NamedBy(c, o)
  /\ \A c, d \in hints : (\E o \in Claimable : NamedBy(c, o) /\ NamedBy(d, o)) => c = d
  /\ Holding("BTC") = Gained(Credited, "BTC")

\* A report on a faithful observation is CLEAN exactly if every order has an owner
\* that the ledger knows or a hint names, no other order of a person rests on the
\* book, every hint speaks of an order of its own, and the BTC are those that the
\* orders credited to the legacy program left.
CleanIsASoundAccount == Judged /\ harm = <<None>> => (report.status = "CLEAN" <=> SoundAccount)

\* The only order of its side on the book.
HoldsAlone(o) ==
  life[o] = "open" /\ \A p \in Placed : life[p] = "open" /\ order[p].side = order[o].side => p = o

\* A repeated, altered, late or missing record disarms, also where it would leave
\* the BTC balance explained; a missing fee cannot be seen, nor a whole order
\* unless it alone explains what is held, and an incomplete history is not CLEAN
\* over any BTC.
HarmIsNoticed ==
  Judged =>
    /\ harm[1] \notin {None, "lost", "lost with trades", "lost fee", "incomplete", "hint twice"}
         => report.status = "DISARMED"
    /\ harm[1] = "hint twice" /\ hints # {} => report.status = "DISARMED"
    /\ harm[1] = "lost" /\ fills[harm[2]] # <<>> => report.status = "DISARMED"
    /\ harm[1] \in {"lost", "lost with trades"} /\ HoldsAlone(harm[2])
         /\ PairName(order[harm[2]]) = Pair => report.status = "DISARMED"
    /\ harm[1] = "incomplete" /\ Holding("BTC") # 0 => report.status # "CLEAN"

=============================================================================
