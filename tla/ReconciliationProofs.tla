-------------------------- MODULE ReconciliationProofs --------------------------
(***************************************************************************)
(* Proofs about the two halves of one reconciliation: what its reads       *)
(* (ReconcileCollect) see of an account that moves, for any number of cash *)
(* flows and orders, and what its report (AccountReport) promises, of any  *)
(* observation and of the observations of AccountEvidence for every set of *)
(* orders and kinds of orders.                                             *)
(***************************************************************************)
EXTENDS ReconcileCollect, AccountEvidence, Numbers, TLAPS

-----------------------------------------------------------------------------
(* Whole seconds                                                           *)

\* A whole second is not later than its instant, and less than one earlier.
LEMMA WholeIsNear ==
  ASSUME NEW t \in Nat
  PROVE  Whole(t) \in Nat /\ Whole(t) <= t /\ t < Whole(t) + TicksPerSecond
PROOF
<1>1. TicksPerSecond \in Nat \ {0}
  BY CollectAssumption
<1>2. t \div TicksPerSecond \in Nat
  BY <1>1
<1>3. /\ (t \div TicksPerSecond) * TicksPerSecond <= t
      /\ t < (t \div TicksPerSecond) * TicksPerSecond + TicksPerSecond
  BY <1>1
<1> QED
  BY <1>1, <1>2, <1>3 DEF Whole

\* They are in the order of their instants, and a later one is later than the
\* instant of an earlier one.
LEMMA WholeIsOrdered ==
  ASSUME NEW t \in Nat, NEW u \in Nat
  PROVE  /\ t <= u => Whole(t) <= Whole(u)
         /\ Whole(t) < Whole(u) => t < Whole(u)
PROOF
<1> DEFINE p == TicksPerSecond
           j == t \div p
           k == u \div p
<1>1. p \in Nat \ {0}
  BY CollectAssumption
<1>2. j \in Nat /\ k \in Nat
  BY <1>1
<1>3. /\ Whole(t) = j * p /\ Whole(u) = k * p
      /\ j * p <= t /\ t < j * p + p /\ k * p <= u /\ u < k * p + p
  BY WholeIsNear DEF Whole
<1> HIDE DEF p, j, k
<1>4. ASSUME NEW a \in Nat, NEW b \in Nat, a < b PROVE a * p + p <= b * p
  BY <1>1, <1>4
<1>5. k < j => ~(t <= u)
  BY <1>1, <1>2, <1>3, <1>4
<1>6. ASSUME NEW a \in Nat, NEW b \in Nat, a <= b PROVE a * p <= b * p
  BY <1>1, <1>6
<1>7. t <= u => j * p <= k * p
  BY <1>2, <1>5, <1>6
<1>8. j * p < k * p => j < k
  BY <1>2, <1>6, <1>1
<1>9. j * p < k * p => t < k * p
  <2> SUFFICES ASSUME j * p < k * p PROVE t < k * p
    OBVIOUS
  <2>1. j * p + p <= k * p
    BY <1>2, <1>4, <1>8
  <2> QED
    BY <1>1, <1>2, <1>3, <2>1
<1> QED
  BY <1>3, <1>7, <1>9

-----------------------------------------------------------------------------
(* What the run knows at each of its stages                                *)

AfterOrderFence     == {"tail_closed", "report", "done"}
AfterFinalOrders    == {"order_fence"} \cup AfterOrderFence
AfterTailLedgers    == {"final_orders"} \cup AfterFinalOrders
AfterTailTrades     == {"tail_ledgers"} \cup AfterTailLedgers
AfterClosingServer  == {"tail_trades"} \cup AfterTailTrades
AfterLedgers        == {"closing_balances", "closing_orders", "closing_server"} \cup AfterClosingServer
AfterTrades         == {"ledgers"} \cup AfterLedgers
AfterClosed         == {"trades"} \cup AfterTrades
AfterOpeningOrders  == {"closed"} \cup AfterClosed
AfterServer         == {"opening_balances", "opening_orders"} \cup AfterOpeningOrders

Fields == DOMAIN NotSeen

\* Nothing happens twice, or later than now.
Moments ==
  /\ now \in Nat /\ now <= MaxNow
  /\ DOMAIN flowAt = Flows /\ DOMAIN openedAt = Orders
  /\ DOMAIN tradedAt = Orders /\ DOMAIN closedAt = Orders
  /\ \A f \in Flows : flowAt[f] \in 0..now \cup {Never}
  /\ \A o \in Orders :
       /\ openedAt[o] \in 0..now \cup {Never}
       /\ tradedAt[o] \in 0..now \cup {Never}
       /\ closedAt[o] \in 0..now \cup {Never}
       /\ closedAt[o] # Never => openedAt[o] <= closedAt[o]
       /\ tradedAt[o] # Never => tradedAt[o] = closedAt[o]

\* The fences: whole seconds, in order, and not in the future.
Fences ==
  /\ pc \in {"server"} \cup AfterServer
  /\ DOMAIN seen = Fields
  /\ DOMAIN readAt = {"opening_orders", "closing_balances", "tail_end"}
  /\ pc \in AfterServer =>
       seen.end \in 0..now /\ \A t \in Nat : now <= t => seen.end <= Whole(t)
  /\ pc \in AfterOpeningOrders => readAt["opening_orders"] \in 0..now
  /\ pc \in AfterClosingServer =>
       /\ seen.tail_end \in 0..now /\ seen.end <= seen.tail_end
       /\ readAt["tail_end"] \in 0..now /\ seen.tail_end = Whole(readAt["tail_end"])
  /\ pc \in AfterOrderFence =>
       seen.order_fence \in 0..now
         /\ (seen.tail_end < seen.order_fence => readAt["tail_end"] < seen.order_fence)

\* Everything of a window is in the answers about it, read after the window.
History ==
  /\ pc \in AfterTrades => seen.trades = Trades(-1, seen.end)
  /\ pc \in AfterLedgers => seen.ledgers = Ledgers(-1, seen.end)
  /\ pc \in AfterTailTrades => seen.tail_trades = Trades(seen.end, seen.tail_end)
  /\ pc \in AfterTailLedgers => seen.tail_ledgers = Ledgers(seen.end, seen.tail_end)

\* What the looks at the book and the closed orders leave possible.
Book ==
  \A o \in Orders :
    /\ pc \in AfterOpeningOrders /\ openedAt[o] <= seen.end /\ o \notin seen.opening_orders =>
         closedAt[o] < readAt["opening_orders"]
    /\ pc \in AfterClosed =>
         /\ o \in seen.closed => openedAt[o] <= seen.end
         /\ openedAt[o] <= seen.end /\ closedAt[o] < readAt["opening_orders"] => o \in seen.closed
    /\ pc \in AfterFinalOrders /\ openedAt[o] <= readAt["tail_end"] /\ o \notin seen.final_orders =>
         closedAt[o] <= now
    /\ /\ pc \in {"report", "done"} /\ openedAt[o] <= readAt["tail_end"] /\ o \notin seen.final_orders
       /\ seen.end < openedAt[o] /\ openedAt[o] <= seen.order_fence
       => o \in seen.tail_closed

\* How a run ends.
Ended == outcome = "clean" => pc = "done" /\ Gates

CollectInv == Moments /\ Fences /\ History /\ Book /\ Ended

-----------------------------------------------------------------------------
(* The account moves                                                       *)

\* What is past stays as it was.
Moved ==
  /\ now' \in Nat /\ now <= now'
  /\ \A f \in Flows : flowAt'[f] = flowAt[f] \/ (flowAt[f] = Never /\ flowAt'[f] > now)
  /\ \A o \in Orders :
       /\ openedAt'[o] = openedAt[o] \/ (openedAt[o] = Never /\ openedAt'[o] > now)
       /\ tradedAt'[o] = tradedAt[o] \/ (tradedAt[o] = Never /\ tradedAt'[o] > now)
       /\ closedAt'[o] = closedAt[o] \/ (closedAt[o] = Never /\ closedAt'[o] > now)

AccountMoves ==
  \/ Idle
  \/ \E f \in Flows : CashFlow(f)
  \/ \E o \in Orders : Place(o) \/ Fill(o) \/ Cancel(o)

LEMMA NeverIsLater ==
  ASSUME Moments PROVE Never \in Nat /\ now < Never
PROOF
  BY CollectAssumption DEF Moments, Never

LEMMA TimePasses ==
  ASSUME Moments, now' = now + 1 \/ now' = Whole(now) + TicksPerSecond, now' <= MaxNow
  PROVE  now' \in Nat /\ now < now'
PROOF
  BY WholeIsNear, CollectAssumption DEF Moments

LEMMA AccountMoved ==
  ASSUME Moments, AccountMoves
  PROVE  Moments' /\ Moved
PROOF
<1>1. now' \in Nat /\ now < now' /\ now' <= MaxNow
  <2>1. now' <= MaxNow /\ (now' = now + 1 \/ now' = Whole(now) + TicksPerSecond)
    BY CollectAssumption
    DEF AccountMoves, Idle, CashFlow, Place, Fill, Cancel, Advance, Moments
  <2> QED
    BY <2>1, TimePasses
<1>2. Never \in Nat /\ now < Never /\ now' < Never
  BY <1>1, NeverIsLater, CollectAssumption DEF Never
<1>3. CASE Idle
  BY <1>1, <1>2, <1>3 DEF Idle, account, Moments, Moved
<1>4. ASSUME NEW f \in Flows, CashFlow(f) PROVE Moments' /\ Moved
  BY <1>1, <1>2, <1>4 DEF CashFlow, Moments, Moved
<1>5. ASSUME NEW o \in Orders, Place(o) PROVE Moments' /\ Moved
  <2>1. closedAt[o] = Never /\ tradedAt[o] = Never
    BY <1>2, <1>5 DEF Place, Moments
  <2> QED
    BY <1>1, <1>2, <1>5, <2>1 DEF Place, Moments, Moved
<1>6. ASSUME NEW o \in Orders, Fill(o) PROVE Moments' /\ Moved
  <2>1. closedAt[o] = Never /\ tradedAt[o] = Never /\ openedAt[o] <= now
    BY <1>2, <1>6 DEF Fill, OpenOrders, Moments
  <2> QED
    BY <1>1, <1>2, <1>6, <2>1 DEF Fill, Moments, Moved
<1>7. ASSUME NEW o \in Orders, Cancel(o) PROVE Moments' /\ Moved
  <2>1. closedAt[o] = Never /\ tradedAt[o] = Never /\ openedAt[o] <= now
    BY <1>2, <1>7 DEF Cancel, OpenOrders, Moments
  <2> QED
    BY <1>1, <1>2, <1>7, <2>1 DEF Cancel, Moments, Moved
<1> QED
  BY <1>3, <1>4, <1>5, <1>6, <1>7 DEF AccountMoves

\* What was known stays known.
LEMMA AccountStep ==
  CollectInv /\ AccountMoves => CollectInv'
PROOF
<1> SUFFICES ASSUME CollectInv, AccountMoves PROVE CollectInv'
  OBVIOUS
<1>1. Moments' /\ Moved
  BY AccountMoved DEF CollectInv
<1>2. UNCHANGED <<manifest, pc, seen, readAt, outcome>> /\ pc # "done"
  BY DEF AccountMoves, Idle, CashFlow, Place, Fill, Cancel, Advance
<1>3. Never \in Nat /\ now < Never
  BY NeverIsLater DEF CollectInv
<1>4. Fences'
  BY <1>1, <1>2 DEF CollectInv, Moments, Moved, Fences
<1>5. ASSUME NEW from \in Int, NEW to \in 0..now
      PROVE  Trades(from, to)' = Trades(from, to) /\ Ledgers(from, to)' = Ledgers(from, to)
  <2>1. \A o \in Orders : In(tradedAt'[o], from, to) <=> In(tradedAt[o], from, to)
    BY <1>1, <1>3 DEF Moved, In, CollectInv, Moments
  <2>2. \A f \in Flows : In(flowAt'[f], from, to) <=> In(flowAt[f], from, to)
    BY <1>1, <1>3 DEF Moved, In, CollectInv, Moments
  <2> QED
    BY <2>1, <2>2 DEF Trades, Ledgers
<1>6. History'
  <2>1. PICK end : end = seen.end
    OBVIOUS
  <2>2. PICK tail_end : tail_end = seen.tail_end
    OBVIOUS
  <2>3. seen' = seen /\ seen'.end = end /\ seen'.tail_end = tail_end /\ pc' = pc
    BY <1>2, <2>1, <2>2
  <2>4. ASSUME pc \in AfterTrades PROVE Trades(-1, end)' = Trades(-1, end) /\ Ledgers(-1, end)' = Ledgers(-1, end)
    BY <1>5, <2>1, <2>4
    DEF CollectInv, Fences, AfterTrades, AfterServer, AfterOpeningOrders, AfterClosed
  <2>5. ASSUME pc \in AfterTailTrades
        PROVE  Trades(end, tail_end)' = Trades(end, tail_end) /\ Ledgers(end, tail_end)' = Ledgers(end, tail_end)
    BY <1>5, <2>1, <2>2, <2>5
    DEF CollectInv, Fences, AfterServer, AfterOpeningOrders, AfterClosed, AfterTrades,
        AfterLedgers, AfterClosingServer, AfterTailTrades
  <2> QED
    BY <2>1, <2>2, <2>3, <2>4, <2>5
    DEF CollectInv, History, AfterTrades, AfterLedgers, AfterTailTrades, AfterTailLedgers, AfterClosingServer
<1>7. Book'
  BY <1>1, <1>2, <1>3
  DEF CollectInv, Book, Moments, Moved, Fences, AfterServer, AfterOpeningOrders, AfterClosed,
      AfterTrades, AfterLedgers, AfterClosingServer, AfterTailTrades, AfterTailLedgers,
      AfterFinalOrders, AfterOrderFence
<1>8. Ended'
  BY <1>2 DEF CollectInv, Ended
<1> QED
  BY <1>1, <1>4, <1>6, <1>7, <1>8 DEF CollectInv

-----------------------------------------------------------------------------
(* The run reads                                                           *)

\* What every read does.
Asked(from, field, to) ==
  /\ pc = from /\ pc' = to
  /\ now' = now + 1 /\ now' <= MaxNow
  /\ UNCHANGED <<flowAt, openedAt, tradedAt, closedAt, outcome>>
  /\ DOMAIN seen' = Fields
  /\ \A g \in Fields \ {field} : seen'[g] = seen[g]
  /\ DOMAIN readAt' = DOMAIN readAt
  /\ \A g \in DOMAIN readAt \ {field} : readAt'[g] = readAt[g]
  /\ field \in DOMAIN readAt => readAt'[field] = now'

LEMMA FieldsAreNamed ==
  Fields = {"end", "opening_balances", "opening_orders", "closed", "trades", "ledgers",
            "closing_balances", "closing_orders", "tail_end", "tail_trades", "tail_ledgers",
            "final_orders", "order_fence", "tail_closed"}
PROOF
  BY DEF Fields, NotSeen

LEMMA ReadsAsk ==
  ASSUME DOMAIN seen = Fields, now \in Nat, NEW from, NEW field \in Fields, NEW to
  PROVE  /\ Read(from, field, Whole(now'), to) => Asked(from, field, to) /\ seen'[field] = Whole(now')
         /\ Read(from, field, OpenOrders, to) => Asked(from, field, to) /\ seen'[field] = OpenOrders
         /\ Read(from, field, Balances(now), to) => Asked(from, field, to)
         /\ \A a, b :
              /\ Read(from, field, ClosedOrders(a, b), to) =>
                   Asked(from, field, to) /\ seen'[field] = ClosedOrders(a, b)
              /\ Read(from, field, Trades(a, b), to) =>
                   Asked(from, field, to) /\ seen'[field] = Trades(a, b)
              /\ Read(from, field, Ledgers(a, b), to) =>
                   Asked(from, field, to) /\ seen'[field] = Ledgers(a, b)
PROOF
<1>1. \A answer : Read(from, field, answer, to) => Asked(from, field, to) /\ seen'[field] = answer
  BY CollectAssumption DEF Read, Asked, Advance, account
<1> QED
  BY <1>1

Reads ==
  \/ ServerTime \/ OpeningBalances \/ OpeningOrders
  \/ ReadClosed \/ ReadTrades \/ ReadLedgers
  \/ ClosingBalances \/ ClosingOrders \/ ClosingServer
  \/ TailTrades \/ TailLedgers \/ FinalOrders \/ OrderFence \/ TailClosed

\* A read answers for what is over, and disturbs nothing that was known.
LEMMA ReadStep ==
  CollectInv /\ Reads => CollectInv'
PROOF
<1> SUFFICES ASSUME CollectInv, Reads PROVE CollectInv'
  OBVIOUS
<1> USE FieldsAreNamed
<1>1. DOMAIN seen = Fields /\ now \in Nat /\ Never \in Nat /\ now < Never
  BY NeverIsLater DEF CollectInv, Fences, Moments
<1>2. ASSUME NEW from, NEW field, NEW to, Asked(from, field, to), from # "done"
      PROVE  Moments' /\ Ended'
  BY <1>2 DEF Asked, CollectInv, Moments, Ended
<1> USE DEF AfterOrderFence, AfterFinalOrders, AfterTailLedgers, AfterTailTrades,
            AfterClosingServer, AfterLedgers, AfterTrades, AfterClosed, AfterOpeningOrders,
            AfterServer
<1>3. CASE ServerTime
  <2>1. Asked("server", "end", "opening_balances") /\ seen'["end"] = Whole(now')
    BY <1>1, <1>3, ReadsAsk DEF ServerTime
  <2>2. Fences'
    BY <1>1, <2>1, WholeIsNear, WholeIsOrdered DEF Asked, CollectInv, Fences
  <2>3. History'
    BY <2>1 DEF Asked, CollectInv, History, Trades, Ledgers, In
  <2>4. Book'
    BY <1>1, <2>1 DEF Asked, CollectInv, Fences, Moments, Book
  <2> QED
    BY <1>2, <2>1, <2>2, <2>3, <2>4 DEF CollectInv
<1>4. CASE OpeningBalances
  <2>1. Asked("opening_balances", "opening_balances", "opening_orders")
    BY <1>1, <1>4, ReadsAsk DEF OpeningBalances
  <2>2. Fences'
    BY <1>1, <2>1 DEF Asked, CollectInv, Fences
  <2>3. History'
    BY <2>1 DEF Asked, CollectInv, History, Trades, Ledgers, In
  <2>4. Book'
    BY <1>1, <2>1 DEF Asked, CollectInv, Fences, Moments, Book
  <2> QED
    BY <1>2, <2>1, <2>2, <2>3, <2>4 DEF CollectInv
<1>5. CASE OpeningOrders
  <2>1. Asked("opening_orders", "opening_orders", "closed") /\ seen'["opening_orders"] = OpenOrders
    BY <1>1, <1>5, ReadsAsk DEF OpeningOrders
  <2>2. Fences'
    BY <1>1, <2>1 DEF Asked, CollectInv, Fences
  <2>3. History'
    BY <2>1 DEF Asked, CollectInv, History, Trades, Ledgers, In
  <2>4. Book'
    BY <1>1, <2>1 DEF Asked, CollectInv, Fences, Moments, Book, OpenOrders
  <2> QED
    BY <1>2, <2>1, <2>2, <2>3, <2>4 DEF CollectInv
<1>6. CASE ReadClosed
  <2>1. Asked("closed", "closed", "trades") /\ seen'["closed"] = ClosedOrders(-1, seen.end)
    BY <1>1, <1>6, ReadsAsk DEF ReadClosed
  <2>2. Fences'
    BY <1>1, <2>1 DEF Asked, CollectInv, Fences
  <2>3. History'
    BY <2>1 DEF Asked, CollectInv, History, Trades, Ledgers, In
  <2>4. Book'
    BY <1>1, <2>1 DEF Asked, CollectInv, Fences, Moments, Book, ClosedOrders, In
  <2> QED
    BY <1>2, <2>1, <2>2, <2>3, <2>4 DEF CollectInv
<1>7. CASE ReadTrades
  <2>1. Asked("trades", "trades", "ledgers") /\ seen'["trades"] = Trades(-1, seen.end)
    BY <1>1, <1>7, ReadsAsk DEF ReadTrades
  <2>2. Fences'
    BY <1>1, <2>1 DEF Asked, CollectInv, Fences
  <2>3. History'
    BY <2>1 DEF Asked, CollectInv, History, Trades, Ledgers, In
  <2>4. Book'
    BY <1>1, <2>1 DEF Asked, CollectInv, Fences, Moments, Book
  <2> QED
    BY <1>2, <2>1, <2>2, <2>3, <2>4 DEF CollectInv
<1>8. CASE ReadLedgers
  <2>1. Asked("ledgers", "ledgers", "closing_balances") /\ seen'["ledgers"] = Ledgers(-1, seen.end)
    BY <1>1, <1>8, ReadsAsk DEF ReadLedgers
  <2>2. Fences'
    BY <1>1, <2>1 DEF Asked, CollectInv, Fences
  <2>3. History'
    BY <2>1 DEF Asked, CollectInv, History, Trades, Ledgers, In
  <2>4. Book'
    BY <1>1, <2>1 DEF Asked, CollectInv, Fences, Moments, Book
  <2> QED
    BY <1>2, <2>1, <2>2, <2>3, <2>4 DEF CollectInv
<1>9. CASE ClosingBalances
  <2>1. Asked("closing_balances", "closing_balances", "closing_orders")
    BY <1>1, <1>9, ReadsAsk DEF ClosingBalances
  <2>2. Fences'
    BY <1>1, <2>1 DEF Asked, CollectInv, Fences
  <2>3. History'
    BY <2>1 DEF Asked, CollectInv, History, Trades, Ledgers, In
  <2>4. Book'
    BY <1>1, <2>1 DEF Asked, CollectInv, Fences, Moments, Book
  <2> QED
    BY <1>2, <2>1, <2>2, <2>3, <2>4 DEF CollectInv
<1>10. CASE ClosingOrders
  <2>1. Asked("closing_orders", "closing_orders", "closing_server") /\ seen'["closing_orders"] = OpenOrders
    BY <1>1, <1>10, ReadsAsk DEF ClosingOrders
  <2>2. Fences'
    BY <1>1, <2>1 DEF Asked, CollectInv, Fences
  <2>3. History'
    BY <2>1 DEF Asked, CollectInv, History, Trades, Ledgers, In
  <2>4. Book'
    BY <1>1, <2>1 DEF Asked, CollectInv, Fences, Moments, Book, OpenOrders
  <2> QED
    BY <1>2, <2>1, <2>2, <2>3, <2>4 DEF CollectInv
<1>11. CASE ClosingServer
  <2>1. Asked("closing_server", "tail_end", "tail_trades") /\ seen'["tail_end"] = Whole(now')
    BY <1>1, <1>11, ReadsAsk DEF ClosingServer
  <2>2. Fences'
    BY <1>1, <2>1, WholeIsNear, WholeIsOrdered DEF Asked, CollectInv, Fences
  <2>3. History'
    BY <2>1 DEF Asked, CollectInv, History, Trades, Ledgers, In
  <2>4. Book'
    BY <1>1, <2>1 DEF Asked, CollectInv, Fences, Moments, Book
  <2> QED
    BY <1>2, <2>1, <2>2, <2>3, <2>4 DEF CollectInv
<1>12. CASE TailTrades
  <2>1. Asked("tail_trades", "tail_trades", "tail_ledgers") /\ seen'["tail_trades"] = Trades(seen.end, seen.tail_end)
    BY <1>1, <1>12, ReadsAsk DEF TailTrades
  <2>2. Fences'
    BY <1>1, <2>1 DEF Asked, CollectInv, Fences
  <2>3. History'
    BY <2>1 DEF Asked, CollectInv, History, Trades, Ledgers, In
  <2>4. Book'
    BY <1>1, <2>1 DEF Asked, CollectInv, Fences, Moments, Book
  <2> QED
    BY <1>2, <2>1, <2>2, <2>3, <2>4 DEF CollectInv
<1>13. CASE TailLedgers
  <2>1. Asked("tail_ledgers", "tail_ledgers", "final_orders") /\ seen'["tail_ledgers"] = Ledgers(seen.end, seen.tail_end)
    BY <1>1, <1>13, ReadsAsk DEF TailLedgers
  <2>2. Fences'
    BY <1>1, <2>1 DEF Asked, CollectInv, Fences
  <2>3. History'
    BY <2>1 DEF Asked, CollectInv, History, Trades, Ledgers, In
  <2>4. Book'
    BY <1>1, <2>1 DEF Asked, CollectInv, Fences, Moments, Book
  <2> QED
    BY <1>2, <2>1, <2>2, <2>3, <2>4 DEF CollectInv
<1>14. CASE FinalOrders
  <2>1. Asked("final_orders", "final_orders", "order_fence") /\ seen'["final_orders"] = OpenOrders
    BY <1>1, <1>14, ReadsAsk DEF FinalOrders
  <2>2. Fences'
    BY <1>1, <2>1 DEF Asked, CollectInv, Fences
  <2>3. History'
    BY <2>1 DEF Asked, CollectInv, History, Trades, Ledgers, In
  <2>4. Book'
    BY <1>1, <2>1 DEF Asked, CollectInv, Fences, Moments, Book, OpenOrders
  <2> QED
    BY <1>2, <2>1, <2>2, <2>3, <2>4 DEF CollectInv
<1>15. CASE OrderFence
  <2>1. Asked("order_fence", "order_fence", "tail_closed") /\ seen'["order_fence"] = Whole(now')
    BY <1>1, <1>15, ReadsAsk DEF OrderFence
  <2>2. Fences'
    BY <1>1, <2>1, WholeIsNear, WholeIsOrdered DEF Asked, CollectInv, Fences
  <2>3. History'
    BY <2>1 DEF Asked, CollectInv, History, Trades, Ledgers, In
  <2>4. Book'
    BY <1>1, <2>1 DEF Asked, CollectInv, Fences, Moments, Book
  <2> QED
    BY <1>2, <2>1, <2>2, <2>3, <2>4 DEF CollectInv
<1>16. CASE TailClosed
  <2>1. Asked("tail_closed", "tail_closed", "report") /\ seen'["tail_closed"] = ClosedOrders(seen.end, seen.order_fence)
    BY <1>1, <1>16, ReadsAsk DEF TailClosed
  <2>2. Fences'
    BY <1>1, <2>1 DEF Asked, CollectInv, Fences
  <2>3. History'
    BY <2>1 DEF Asked, CollectInv, History, Trades, Ledgers, In
  <2>4. Book'
    BY <1>1, <2>1 DEF Asked, CollectInv, Fences, Moments, Book, ClosedOrders, In
  <2> QED
    BY <1>2, <2>1, <2>2, <2>3, <2>4 DEF CollectInv
<1> QED
  BY <1>3, <1>4, <1>5, <1>6, <1>7, <1>8, <1>9, <1>10, <1>11, <1>12, <1>13, <1>14, <1>15, <1>16 DEF Reads

-----------------------------------------------------------------------------
(* The theorems                                                            *)

LEMMA CollectInit ==
  Init => CollectInv
PROOF
<1> SUFFICES ASSUME Init PROVE CollectInv
  OBVIOUS
<1>1. Never \in Nat /\ 0 < Never /\ 0 <= MaxNow
  BY CollectAssumption DEF Never
<1>2. /\ now = 0 /\ pc = "server" /\ outcome = "running" /\ DOMAIN seen = Fields
      /\ DOMAIN readAt = {"opening_orders", "closing_balances", "tail_end"}
  BY DEF Init, Fields
<1>3. Moments
  BY <1>1, <1>2 DEF Init, Moments
<1> USE DEF AfterOrderFence, AfterFinalOrders, AfterTailLedgers, AfterTailTrades,
            AfterClosingServer, AfterLedgers, AfterTrades, AfterClosed, AfterOpeningOrders,
            AfterServer
<1>4. Fences /\ History /\ Book /\ Ended
  BY <1>2 DEF Fences, History, Book, Ended
<1> QED
  BY <1>3, <1>4 DEF CollectInv

\* All gates are about what the run holds and the trades it could have read.
LEMMA SameGates ==
  ASSUME Gates, UNCHANGED <<tradedAt, manifest, seen>> PROVE Gates'
PROOF
  BY DEF Gates, CollectionQuiet, SnapshotStable, LedgerBalancesMatch, OrderTradeTotalsMatch,
         TradeLedgerLinks, FlowsClassified, MergedClosed, MergedTrades, MergedLedgers, Flows

LEMMA ReportStep ==
  CollectInv /\ Report => CollectInv'
PROOF
<1> SUFFICES ASSUME CollectInv, Report PROVE CollectInv'
  OBVIOUS
<1>1. /\ pc = "report" /\ pc' = "done"
      /\ UNCHANGED <<now, flowAt, openedAt, tradedAt, closedAt, manifest, seen, readAt>>
      /\ outcome' = "clean" => Gates
  BY DEF Report, account
<1>2. Moments'
  BY <1>1 DEF CollectInv, Moments
<1> USE DEF AfterOrderFence, AfterFinalOrders, AfterTailLedgers, AfterTailTrades,
            AfterClosingServer, AfterLedgers, AfterTrades, AfterClosed, AfterOpeningOrders,
            AfterServer
<1>3. Fences'
  BY <1>1 DEF CollectInv, Fences
<1>4. History'
  BY <1>1 DEF CollectInv, History, Trades, Ledgers
<1>5. Book'
  BY <1>1 DEF CollectInv, Book
<1>6. Ended'
  BY <1>1, SameGates DEF Ended
<1> QED
  BY <1>2, <1>3, <1>4, <1>5, <1>6 DEF CollectInv

LEMMA CollectStep ==
  CollectInv /\ [Next]_vars => CollectInv'
PROOF
<1> SUFFICES ASSUME CollectInv, [Next]_vars PROVE CollectInv'
  OBVIOUS
<1>1. CASE UNCHANGED vars
  <2>1. Gates => Gates'
    BY <1>1, SameGates DEF vars
  <2>2. Moments' /\ Fences' /\ Book'
    BY <1>1 DEF vars, CollectInv, Moments, Fences, Book
  <2>3. History'
    BY <1>1 DEF vars, CollectInv, History, Trades, Ledgers
  <2> QED
    BY <1>1, <2>1, <2>2, <2>3 DEF vars, CollectInv, Ended
<1>2. CASE Next
  BY <1>2, AccountStep, ReadStep, ReportStep DEF Next, AccountMoves, Reads
<1> QED
  BY <1>1, <1>2

THEOREM CollectInvHolds ==
  Spec => []CollectInv
PROOF
  BY CollectInit, CollectStep, PTL DEF Spec

\* A CLEAN report is the account at the whole second of its closing fence
\* (_execute_read_only_reconciliation_unleased), however cash flows, orders and
\* fills fall between its reads.
THEOREM CleanReportsAreTheAccount ==
  Spec => []CleanIsTheAccount
PROOF
<1>1. CollectInv => CleanIsTheAccount
  <2> SUFFICES ASSUME CollectInv, outcome = "clean"
               PROVE  /\ seen.closing_balances = Balances(seen.tail_end)
                      /\ MergedLedgers = Ledgers(-1, seen.tail_end)
                      /\ MergedTrades = Trades(-1, seen.tail_end)
    BY DEF CleanIsTheAccount
  <2>1. pc = "done" /\ Gates
    BY DEF CollectInv, Ended
  <2>2. /\ seen.end \in Nat /\ seen.tail_end \in Nat /\ seen.end <= seen.tail_end
        /\ seen.tail_end <= now
        /\ seen.trades = Trades(-1, seen.end) /\ seen.ledgers = Ledgers(-1, seen.end)
        /\ seen.tail_trades = Trades(seen.end, seen.tail_end)
        /\ seen.tail_ledgers = Ledgers(seen.end, seen.tail_end)
    BY <2>1
    DEF CollectInv, Moments, Fences, History, AfterOrderFence, AfterFinalOrders, AfterTailLedgers,
        AfterTailTrades, AfterClosingServer, AfterLedgers, AfterTrades, AfterClosed,
        AfterOpeningOrders, AfterServer
  <2>3. /\ \A f \in Flows : flowAt[f] \in Nat
        /\ \A o \in Orders : tradedAt[o] \in Nat
    BY NeverIsLater DEF CollectInv, Moments
  <2>4. MergedTrades = Trades(-1, seen.tail_end)
    BY <2>2, <2>3 DEF MergedTrades, Trades, In
  <2>5. MergedLedgers = Ledgers(-1, seen.tail_end)
    BY <2>2, <2>3 DEF MergedLedgers, Ledgers, Trades, In
  <2>6. /\ MergedLedgers \cap Orders = {o \in Orders : tradedAt[o] <= seen.tail_end}
        /\ MergedLedgers \cap Deposits = {d \in Deposits : flowAt[d] <= seen.tail_end}
        /\ MergedLedgers \cap Withdrawals = {w \in Withdrawals : flowAt[w] <= seen.tail_end}
    BY <2>2, <2>3, <2>5, CollectAssumption DEF Ledgers, Trades, In, Flows
  <2>7. seen.closing_balances = Balances(seen.tail_end)
    BY <2>1, <2>6 DEF Gates, LedgerBalancesMatch, Balances
  <2> QED
    BY <2>4, <2>5, <2>7
<1> QED
  BY <1>1, CollectInvHolds, PTL

\* CLEAN rules out every order that was live between the first look at the book
\* and the closing fence, if the two fences are in different seconds
\* (_tail_is_quiet, and the open orders read three times).
THEOREM CleanReportsRuleOutOrders ==
  Spec => []CleanRulesOutOrders
PROOF
<1>1. CollectInv => CleanRulesOutOrders
  <2> SUFFICES ASSUME CollectInv, outcome = "clean", seen.tail_end < seen.order_fence,
                      NEW o \in Orders, openedAt[o] <= readAt["tail_end"]
               PROVE  closedAt[o] < readAt["opening_orders"] /\ o \in seen.closed
    BY DEF CleanRulesOutOrders
  <2>1. pc = "done" /\ Gates
    BY DEF CollectInv, Ended
  <2>2. o \notin seen.opening_orders /\ o \notin seen.final_orders
    BY <2>1 DEF Gates, SnapshotStable
  <2> USE DEF AfterOrderFence, AfterFinalOrders, AfterTailLedgers, AfterTailTrades,
              AfterClosingServer, AfterLedgers, AfterTrades, AfterClosed, AfterOpeningOrders,
              AfterServer
  <2>3. /\ seen.end \in Nat /\ readAt["tail_end"] \in Nat /\ seen.order_fence \in Nat
        /\ readAt["tail_end"] < seen.order_fence
    BY <2>1 DEF CollectInv, Fences, Moments
  <2>4. openedAt[o] \in Nat
    BY NeverIsLater DEF CollectInv, Moments
  <2>5. openedAt[o] <= seen.end
    <3> SUFFICES ASSUME ~(openedAt[o] <= seen.end) PROVE FALSE
      OBVIOUS
    <3>1. seen.end < openedAt[o] /\ openedAt[o] <= seen.order_fence
      BY <2>3, <2>4
    <3>2. o \in seen.tail_closed
      BY <2>1, <2>2, <3>1 DEF CollectInv, Book
    <3>3. o \in seen.closed
      BY <2>1, <3>2 DEF Gates, CollectionQuiet
    <3> QED
      BY <2>1, <3>3 DEF CollectInv, Book
  <2> QED
    BY <2>1, <2>2, <2>5 DEF CollectInv, Book
<1> QED
  BY <1>1, CollectInvHolds, PTL

-----------------------------------------------------------------------------
(* Types, and an account that is never overdrawn                           *)

Came   == {d \in Deposits : flowAt[d] <= now}
Went   == {w \in Withdrawals : flowAt[w] <= now}
Traded == {o \in Orders : tradedAt[o] <= now}

Cash == Cardinality(Came) - Cardinality(Went) - Cardinality(Traded)

SeenTyped ==
  /\ manifest \subseteq Deposits
  /\ outcome \in {"running", "clean", "not clean"}
  /\ {seen.end, seen.tail_end, seen.order_fence} \subseteq 0..now
  /\ {seen.opening_balances.cad, seen.closing_balances.cad} \subseteq Nat
  /\ seen.closed \cup seen.tail_closed \cup seen.trades \cup seen.tail_trades
       \cup seen.opening_orders \cup seen.closing_orders \cup seen.final_orders \subseteq Orders
  /\ seen.ledgers \cup seen.tail_ledgers \subseteq Flows \cup Orders
  /\ readAt \in [{"opening_orders", "closing_balances", "tail_end"} -> Ticks]

AccountTyped ==
  /\ flowAt \in [Flows -> Ticks]
  /\ openedAt \in [Orders -> Ticks]
  /\ tradedAt \in [Orders -> Ticks]
  /\ closedAt \in [Orders -> Ticks]

TypeInv == AccountTyped /\ SeenTyped /\ Cash \in Nat

LEMMA CashIsTheBalance ==
  Balances(now).cad = Cash
PROOF
  BY DEF Balances, Cash, Came, Went, Traded

LEMMA CountsAreNumbers ==
  /\ IsFiniteSet(Came) /\ IsFiniteSet(Went) /\ IsFiniteSet(Traded)
  /\ Cardinality(Came) \in Nat /\ Cardinality(Went) \in Nat /\ Cardinality(Traded) \in Nat
PROOF
<1>1. Came \subseteq Deposits /\ Went \subseteq Withdrawals /\ Traded \subseteq Orders
  BY DEF Came, Went, Traded
<1>2. IsFiniteSet(Came) /\ IsFiniteSet(Went) /\ IsFiniteSet(Traded)
  BY <1>1, FS_Subset, CollectAssumption
<1> QED
  BY <1>2, FS_CardinalityType

\* Whatever time does, only a cash flow or a fill changes what is held.
LEMMA CashStays ==
  ASSUME Moments, now' \in Nat, now <= now', now' <= MaxNow, UNCHANGED <<flowAt, tradedAt>>
  PROVE  Cash' = Cash
PROOF
<1>1. Never \in Nat /\ now < Never /\ now' < Never
  BY CollectAssumption DEF Moments, Never
<1>2. \A f \in Flows : flowAt'[f] <= now' <=> flowAt[f] <= now
  BY <1>1 DEF Moments
<1>3. \A o \in Orders : tradedAt'[o] <= now' <=> tradedAt[o] <= now
  BY <1>1 DEF Moments
<1>4. Came' = Came /\ Went' = Went /\ Traded' = Traded
  BY <1>2, <1>3 DEF Came, Went, Traded, Flows
<1> QED
  BY <1>4 DEF Cash

LEMMA CashFlows ==
  ASSUME Moments, Cash \in Nat, NEW f \in Flows, CashFlow(f)
  PROVE  Cash' \in Nat
PROOF
<1>1. /\ now' = now + 1 /\ now' <= MaxNow /\ flowAt[f] = Never /\ UNCHANGED tradedAt
      /\ flowAt' = [flowAt EXCEPT ![f] = now'] /\ (f \in Withdrawals => Cash > 0)
  BY CashIsTheBalance, CollectAssumption DEF CashFlow, Advance, Moments
<1>2. Never \in Nat /\ now \in Nat /\ now < Never /\ now' \in Nat /\ now' < Never
  BY <1>1, CollectAssumption DEF Moments, Never
<1>3. \A g \in Flows \ {f} : flowAt'[g] <= now' <=> flowAt[g] <= now
  BY <1>1, <1>2 DEF Moments
<1>4. flowAt'[f] <= now' /\ ~(flowAt[f] <= now)
  BY <1>1, <1>2 DEF Moments
<1>5. Traded' = Traded
  BY <1>1, <1>2 DEF Moments, Traded
<1>6. CASE f \in Deposits
  <2>1. Came' = Came \cup {f} /\ Went' = Went /\ f \notin Came
    BY <1>3, <1>4, <1>6, CollectAssumption DEF Came, Went, Flows
  <2>2. Cardinality(Came') = Cardinality(Came) + 1
    BY <2>1, CountsAreNumbers, FS_AddElement
  <2> QED
    BY <1>5, <2>1, <2>2, CountsAreNumbers DEF Cash
<1>7. CASE f \in Withdrawals
  <2>1. Went' = Went \cup {f} /\ Came' = Came /\ f \notin Went
    BY <1>3, <1>4, <1>7, CollectAssumption DEF Came, Went, Flows
  <2>2. Cardinality(Went') = Cardinality(Went) + 1
    BY <2>1, CountsAreNumbers, FS_AddElement
  <2> QED
    BY <1>1, <1>5, <1>7, <2>1, <2>2, CountsAreNumbers DEF Cash
<1> QED
  BY <1>6, <1>7 DEF Flows

LEMMA CashTrades ==
  ASSUME Moments, Cash \in Nat, NEW o \in Orders, Fill(o)
  PROVE  Cash' \in Nat
PROOF
<1>1. /\ now' = now + 1 /\ now' <= MaxNow /\ UNCHANGED flowAt /\ Cash > 0
      /\ tradedAt' = [tradedAt EXCEPT ![o] = now'] /\ o \in OpenOrders
  BY CashIsTheBalance, CollectAssumption DEF Fill, Advance, Moments
<1>2. Never \in Nat /\ now \in Nat /\ now < Never /\ now' \in Nat /\ now' < Never
  BY <1>1, CollectAssumption DEF Moments, Never
<1>3. Came' = Came /\ Went' = Went
  BY <1>1, <1>2 DEF Moments, Came, Went, Flows
<1>4. tradedAt[o] = Never
  BY <1>1, <1>2 DEF OpenOrders, Moments
<1>5. Traded' = Traded \cup {o} /\ o \notin Traded
  BY <1>1, <1>2, <1>4 DEF Moments, Traded
<1>6. Cardinality(Traded') = Cardinality(Traded) + 1
  BY <1>5, CountsAreNumbers, FS_AddElement
<1> QED
  BY <1>1, <1>3, <1>6, CountsAreNumbers DEF Cash

\* What a read may add to the answers.
LEMMA ReadTyped ==
  ASSUME CollectInv, TypeInv, NEW from, NEW field \in Fields, NEW answer, NEW to,
         Read(from, field, answer, to),
         \/ field \in {"end", "tail_end", "order_fence"} /\ answer \in 0..now'
         \/ field \in {"opening_balances", "closing_balances"} /\ answer.cad \in Nat
         \/ /\ field \in {"closed", "tail_closed", "trades", "tail_trades", "opening_orders",
                          "closing_orders", "final_orders"}
            /\ answer \subseteq Orders
         \/ field \in {"ledgers", "tail_ledgers"} /\ answer \subseteq Flows \cup Orders
  PROVE  TypeInv'
PROOF
<1>1. /\ now \in Nat /\ now' = now + 1 /\ now' <= MaxNow /\ DOMAIN seen = Fields
      /\ seen' = [seen EXCEPT ![field] = answer]
      /\ UNCHANGED <<flowAt, openedAt, tradedAt, closedAt, manifest, outcome>>
      /\ readAt' = IF field \in DOMAIN readAt THEN [readAt EXCEPT ![field] = now'] ELSE readAt
  BY CollectAssumption DEF Read, Advance, account, CollectInv, Moments, Fences
<1>2. Cash' \in Nat
  BY <1>1, CashStays DEF CollectInv, TypeInv
<1>3. now' \in Ticks
  BY <1>1, CollectAssumption DEF Ticks, Never
<1>4. readAt' \in [{"opening_orders", "closing_balances", "tail_end"} -> Ticks]
  BY <1>1, <1>3 DEF TypeInv, SeenTyped
<1>5. /\ seen'[field] = answer /\ \A g \in Fields \ {field} : seen'[g] = seen[g]
  BY <1>1
<1>6. 0..now \subseteq 0..now'
  BY <1>1
<1>7. {seen'.end, seen'.tail_end, seen'.order_fence} \subseteq 0..now'
  BY <1>5, <1>6, FieldsAreNamed DEF TypeInv, SeenTyped
<1>8. {seen'.opening_balances.cad, seen'.closing_balances.cad} \subseteq Nat
  BY <1>5, FieldsAreNamed DEF TypeInv, SeenTyped
<1>9. seen'.closed \cup seen'.tail_closed \cup seen'.trades \cup seen'.tail_trades
        \cup seen'.opening_orders \cup seen'.closing_orders \cup seen'.final_orders \subseteq Orders
  <2> DEFINE Lists == {"closed", "tail_closed", "trades", "tail_trades", "opening_orders",
                        "closing_orders", "final_orders"}
  <2>1. \A g \in Lists : seen[g] \subseteq Orders
    BY DEF TypeInv, SeenTyped
  <2>2. field \in Lists => answer \subseteq Orders
    OBVIOUS
  <2>3. \A g \in Lists : g \in Fields
    BY FieldsAreNamed
  <2> HIDE DEF Lists
  <2>4. \A g \in Lists : seen'[g] \subseteq Orders
    BY <1>5, <2>1, <2>2, <2>3
  <2> QED
    BY <2>4 DEF Lists
<1>10. seen'.ledgers \cup seen'.tail_ledgers \subseteq Flows \cup Orders
  BY <1>5, FieldsAreNamed DEF TypeInv, SeenTyped
<1>11. AccountTyped'
  BY <1>1 DEF TypeInv, AccountTyped, Flows, Ticks, Never
<1> QED
  BY <1>1, <1>2, <1>4, <1>7, <1>8, <1>9, <1>10, <1>11 DEF TypeInv, SeenTyped, Flows

LEMMA ReadTypes ==
  ASSUME CollectInv, TypeInv, Reads PROVE TypeInv'
PROOF
<1>1. now \in Nat /\ \A t \in Nat : Whole(t) \in 0..t
  BY WholeIsNear DEF CollectInv, Moments
<1>2. now' = now + 1
  BY CollectAssumption
  DEF Reads, ServerTime, OpeningBalances, OpeningOrders, ReadClosed, ReadTrades, ReadLedgers,
      ClosingBalances, ClosingOrders, ClosingServer, TailTrades, TailLedgers, FinalOrders,
      OrderFence, TailClosed, Read, Advance
<1>3. Whole(now') \in 0..now'
  BY <1>1, <1>2
<1>4. Balances(now).cad \in Nat
  BY CashIsTheBalance DEF TypeInv
<1>5. /\ OpenOrders \subseteq Orders
      /\ \A a, b : /\ ClosedOrders(a, b) \subseteq Orders /\ Trades(a, b) \subseteq Orders
                   /\ Ledgers(a, b) \subseteq Flows \cup Orders
  BY DEF OpenOrders, ClosedOrders, Trades, Ledgers
<1>6. CASE ServerTime
  BY <1>6, <1>3, ReadTyped, FieldsAreNamed DEF ServerTime
<1>7. CASE OpeningBalances
  BY <1>7, <1>4, ReadTyped, FieldsAreNamed DEF OpeningBalances
<1>8. CASE OpeningOrders
  BY <1>8, <1>5, ReadTyped, FieldsAreNamed DEF OpeningOrders
<1>9. CASE ReadClosed
  BY <1>9, <1>5, ReadTyped, FieldsAreNamed DEF ReadClosed
<1>10. CASE ReadTrades
  BY <1>10, <1>5, ReadTyped, FieldsAreNamed DEF ReadTrades
<1>11. CASE ReadLedgers
  BY <1>11, <1>5, ReadTyped, FieldsAreNamed DEF ReadLedgers
<1>12. CASE ClosingBalances
  BY <1>12, <1>4, ReadTyped, FieldsAreNamed DEF ClosingBalances
<1>13. CASE ClosingOrders
  BY <1>13, <1>5, ReadTyped, FieldsAreNamed DEF ClosingOrders
<1>14. CASE ClosingServer
  BY <1>14, <1>3, ReadTyped, FieldsAreNamed DEF ClosingServer
<1>15. CASE TailTrades
  BY <1>15, <1>5, ReadTyped, FieldsAreNamed DEF TailTrades
<1>16. CASE TailLedgers
  BY <1>16, <1>5, ReadTyped, FieldsAreNamed DEF TailLedgers
<1>17. CASE FinalOrders
  BY <1>17, <1>5, ReadTyped, FieldsAreNamed DEF FinalOrders
<1>18. CASE OrderFence
  BY <1>18, <1>3, ReadTyped, FieldsAreNamed DEF OrderFence
<1>19. CASE TailClosed
  BY <1>19, <1>5, ReadTyped, FieldsAreNamed DEF TailClosed
<1> QED
  BY <1>6, <1>7, <1>8, <1>9, <1>10, <1>11, <1>12, <1>13, <1>14, <1>15, <1>16, <1>17, <1>18, <1>19 DEF Reads

LEMMA TypeStep ==
  CollectInv /\ CollectInv' /\ TypeInv /\ [Next]_vars => TypeInv'
PROOF
<1> SUFFICES ASSUME CollectInv, CollectInv', TypeInv, [Next]_vars PROVE TypeInv'
  OBVIOUS
<1>1. ASSUME UNCHANGED <<manifest, seen, readAt>>, Cash' \in Nat, now' \in Nat, now <= now',
             outcome' \in {"running", "clean", "not clean"}, AccountTyped'
      PROVE  TypeInv'
  <2>1. now \in Nat
    BY DEF CollectInv, Moments
  <2>2. now' \in Nat /\ now <= now'
    BY <1>1
  <2>3. \A i \in 0..now : i \in 0..now'
    BY <2>1, <2>2
  <2> QED
    BY <1>1, <2>3 DEF TypeInv, SeenTyped, Flows
<1>2. CASE UNCHANGED vars \/ Report
  <2>1. UNCHANGED <<now, account, manifest, seen, readAt>>
    BY <1>2 DEF vars, Report, account
  <2>2. now \in Nat /\ now <= MaxNow
    BY DEF CollectInv, Moments
  <2>3. now' \in Nat /\ now <= now' /\ now' <= MaxNow
    BY <2>1, <2>2
  <2>4. Cash' \in Nat
    BY <2>1, <2>3, CashStays DEF CollectInv, TypeInv, account
  <2>5. AccountTyped'
    BY <2>1 DEF TypeInv, AccountTyped, account
  <2>6. outcome' \in {"running", "clean", "not clean"}
    BY <1>2 DEF vars, Report, TypeInv, SeenTyped
  <2> QED
    BY <1>1, <2>1, <2>3, <2>4, <2>5, <2>6
<1>3. CASE AccountMoves
  <2>1. /\ now' \in Nat /\ now <= now' /\ now' <= MaxNow
        /\ UNCHANGED <<manifest, seen, readAt, outcome>>
    BY <1>3, AccountMoved DEF CollectInv, Moments, Moved, AccountMoves, Idle, CashFlow, Place, Fill, Cancel
  <2>2. Cash' \in Nat
    <3>1. CASE UNCHANGED <<flowAt, tradedAt>>
      BY <2>1, <3>1, CashStays DEF CollectInv, TypeInv
    <3>2. CASE Idle \/ \E o \in Orders : Place(o) \/ Cancel(o)
      BY <3>1, <3>2 DEF Idle, Place, Cancel, account
    <3>3. CASE (\E f \in Flows : CashFlow(f)) \/ \E o \in Orders : Fill(o)
      BY <3>3, CashFlows, CashTrades DEF CollectInv, TypeInv
    <3> QED
      BY <1>3, <3>2, <3>3 DEF AccountMoves
  <2>3. now' \in Ticks
    BY <2>1, CollectAssumption DEF Ticks, Never
  <2>4. AccountTyped'
    BY <1>3, <2>3
    DEF TypeInv, AccountTyped, AccountMoves, Idle, CashFlow, Place, Fill, Cancel, account
  <2> QED
    BY <1>1, <2>1, <2>2, <2>4 DEF TypeInv, SeenTyped
<1>4. CASE Reads
  BY <1>4, ReadTypes
<1> QED
  BY <1>2, <1>3, <1>4 DEF Next, AccountMoves, Reads

LEMMA TypeInit ==
  Init => TypeInv
PROOF
<1> SUFFICES ASSUME Init PROVE TypeInv
  OBVIOUS
<1>1. now = 0 /\ Balances(now).cad >= 0
  BY DEF Init
<1>2. Cash \in Nat
  BY <1>1, CashIsTheBalance, CountsAreNumbers DEF Cash
<1>3. Never \in Ticks
  BY CollectAssumption DEF Ticks, Never
<1>4. SeenTyped
  BY <1>1, <1>3 DEF Init, SeenTyped, NotSeen, NoBalances
<1>5. 0 \in Ticks
  BY CollectAssumption DEF Ticks, Never
<1>6. AccountTyped
  BY <1>3, <1>5 DEF Init, AccountTyped
<1> QED
  BY <1>2, <1>4, <1>6 DEF TypeInv

\* The types: every fence, balance and answer that a run holds is one that the
\* account could give, and no withdrawal or fill overdraws it.
THEOREM CollectTypes ==
  Spec => []TypeOK
PROOF
<1>1. CollectInv /\ TypeInv => TypeOK
  <2> SUFFICES ASSUME CollectInv, TypeInv PROVE TypeOK
    OBVIOUS
  <2>1. now \in 0..MaxNow /\ 0..now \subseteq Ticks /\ Never \in Ticks
    BY CollectAssumption DEF CollectInv, Moments, Ticks, Never
  <2>2. AccountTyped
    BY DEF TypeInv
  <2>3. pc \in Stages
    BY DEF CollectInv, Fences, Stages, NotSeen, AfterOrderFence, AfterFinalOrders, AfterTailLedgers,
           AfterTailTrades, AfterClosingServer, AfterLedgers, AfterTrades, AfterClosed,
           AfterOpeningOrders, AfterServer
  <2>4. /\ MergedClosed \cup MergedTrades \cup seen.opening_orders \cup seen.closing_orders
             \cup seen.final_orders \subseteq Orders
        /\ MergedLedgers \subseteq Flows \cup Orders
    BY DEF TypeInv, SeenTyped, MergedClosed, MergedTrades, MergedLedgers
  <2> QED
    BY <2>1, <2>2, <2>3, <2>4 DEF TypeOK, TypeInv, SeenTyped, AccountTyped
<1> QED
  BY <1>1, CollectInit, CollectStep, TypeInit, TypeStep, PTL DEF Spec

-----------------------------------------------------------------------------
(* Any observation                                                         *)

\* A hint is matched only by an id that it holds.
LEMMA MatchedByIdentity ==
  ASSUME NEW orders, NEW h, Verdict(orders, h) = "matched"
  PROVE  HasIdentity(h)
PROOF
  BY DEF Verdict

\* A report is CLEAN only if it holds no code at all.
LEMMA CleanHasNoCode ==
  ASSUME NEW codes, Status(codes) = "CLEAN"
  PROVE  codes = {}
PROOF
  BY DEF Status

\* A CLEAN report (reconcile_account) on any observation: no order of a person
\* rests on the book; every order has a known owner or is the one a hint matched
\* by an id it holds; every hint is matched, no two with one order; and the BTC
\* held are those that the legacy orders' fills and fees leave.
THEOREM CleanMeansExplained ==
  ASSUME NEW ob, Reconciled(ob).status = "CLEAN",
         BTC(ob) \in Int, LegacyNet(ob, Validated(ob)) \in Int
  PROVE  LET v == Validated(ob) IN
         /\ \A o \in ob.orders : IsOpen(o) => o.ownership # "manual"
         /\ \A o \in ob.orders : o.ownership = "unknown" =>
              \E m \in v.matches : m[2].id = o.id /\ HasIdentity(m[1])
         /\ \A h \in ob.hints : Verdict(v.orders, h) = "matched"
         /\ \A m, n \in v.matches : m[2].id = n[2].id => m = n
         /\ BTC(ob) = LegacyNet(ob, v)
PROOF
<1> DEFINE v == Validated(ob)
           net == LegacyNet(ob, v)
           facts == FactCodes(ob, v)
           inventory == Inventory(ob.complete, BTC(ob), net, facts)
<1>1. facts \cup inventory[2] = {}
  BY CleanHasNoCode DEF Reconciled
<1>2. OwnershipCodes(ob, v) = {} /\ HintCodes(ob, v) = {}
  BY <1>1 DEF FactCodes
<1>3. \A o \in ob.orders : IsOpen(o) => o.ownership # "manual"
  BY <1>2 DEF OwnershipCodes, When
<1>4. \A h \in ob.hints : Verdict(v.orders, h) = "matched"
  BY <1>2 DEF HintCodes
<1>5. \A m, n \in v.matches : m[2].id = n[2].id => m = n
  BY <1>2 DEF HintCodes, When
<1>6. ASSUME NEW o \in ob.orders, o.ownership = "unknown"
      PROVE  \E m \in v.matches : m[2].id = o.id /\ HasIdentity(m[1])
  <2>1. o.id \in MatchedIds(v)
    BY <1>2, <1>6 DEF OwnershipCodes, When
  <2>2. PICK m \in v.matches : m[2].id = o.id
    BY <2>1 DEF MatchedIds
  <2>3. v.matches = Matches(ob, v.orders)
    BY DEF Validated
  <2>4. PICK h \in ob.hints : Verdict(v.orders, h) = "matched" /\ m[1] = h
    BY <2>2, <2>3 DEF Matches
  <2> QED
    BY <2>2, <2>4, MatchedByIdentity
<1>7. BTC(ob) = net
  <2> HIDE DEF v, net, facts
  <2>1. facts = {} /\ inventory[2] = {}
    BY <1>1
  <2>2. net \in Int /\ BTC(ob) \in Int
    BY DEF net, v
  <2> QED
    BY <2>1, <2>2 DEF Inventory, Reliable
<1> QED
  BY <1>3, <1>4, <1>5, <1>6, <1>7

-----------------------------------------------------------------------------
(* The observations of the account                                         *)

Observed(h, given) == Harmed(Seen, h, given)

\* Whatever harm is done, a record of an order has its client id, and its owner
\* only if the ledger knows it.
LEMMA OrdersSeen ==
  ASSUME NEW h \in Harms, NEW given, NEW o \in Observed(h, given).orders
  PROVE  /\ o.id \in Placed /\ o.client = order[o.id].client
         /\ o.ownership = IF order[o.id].known THEN order[o.id].owner ELSE "unknown"
PROOF
<1> DEFINE S == {ObservedOrder(p, Len(fills[p])) : p \in Placed}
           Right(x) == /\ x.id \in Placed /\ x.client = order[x.id].client
                       /\ x.ownership = IF order[x.id].known THEN order[x.id].owner ELSE "unknown"
<1>1. ASSUME NEW p \in Placed, NEW n PROVE Right(ObservedOrder(p, n))
  BY DEF ObservedOrder
<1>2. \A x \in S : Right(x)
  BY <1>1
<1>3. o \in HarmedOrders(S, h)
  BY DEF Observed, Harmed, Seen
<1>4. ASSUME h[1] = "out of date" PROVE h[2] \in Placed
  <2>1. \A A, B : \A x \in A \X B : x[1] \in A /\ x[2] \in B
    OBVIOUS
  <2>2. h[1] \notin {None, "incomplete", "liability", "hint twice"}
    BY <1>4 DEF None
  <2>3. h \notin {<<None>>, <<"incomplete">>, <<"liability">>, <<"hint twice">>}
    BY <2>2, \A x : <<x>>[1] = x, Zenon
  <2> QED
    BY <1>4, <2>1, <2>3 DEF Harms
<1>5. ASSUME NEW x \in S
      PROVE  Right([x EXCEPT !.copy = 2]) /\ Right([x EXCEPT !.timely = FALSE])
  <2>1. PICK p \in Placed : x = ObservedOrder(p, Len(fills[p]))
    OBVIOUS
  <2> QED
    BY <1>1, <2>1 DEF ObservedOrder
<1> HIDE DEF S, Right
<1>6. CASE h[1] \in {"lost", "lost with trades"}
  BY <1>2, <1>3, <1>6 DEF HarmedOrders, Without, Right
<1>7. CASE h[1] = "order twice"
  <2>1. o \in Copies(S, h[2])
    BY <1>3, <1>7 DEF HarmedOrders
  <2>2. o \in S \/ \E x \in S : o = [x EXCEPT !.copy = 2]
    BY <2>1 DEF Copies
  <2>3. Right(o)
    BY <1>2, <1>5, <2>2
  <2> QED
    BY <2>3 DEF Right
<1>8. CASE h[1] = "out of date"
  <2>1. o \in Without(S, h[2]) \/ o = ObservedOrder(h[2], Len(fills[h[2]]) - 1)
    BY <1>3, <1>8 DEF HarmedOrders
  <2>2. Right(ObservedOrder(h[2], Len(fills[h[2]]) - 1))
    BY <1>1, <1>4, <1>8
  <2> QED
    BY <1>2, <2>1, <2>2 DEF Without, Right
<1>9. CASE h[1] = "of later"
  <2>1. PICK x \in S : o = IF x.id = h[2] THEN [x EXCEPT !.timely = FALSE] ELSE x
    BY <1>3, <1>9 DEF HarmedOrders
  <2> QED
    BY <1>2, <1>5, <2>1 DEF Right
<1>10. CASE h[1] \notin {"lost", "lost with trades", "order twice", "out of date", "of later"}
  BY <1>2, <1>3, <1>10 DEF HarmedOrders, Right
<1> QED
  BY <1>6, <1>7, <1>8, <1>9, <1>10

\* Every order that is not missing has a record.
LEMMA OrdersKept ==
  ASSUME NEW h \in Harms, NEW given, NEW p \in Placed,
         h[1] \in {"lost", "lost with trades"} => p # h[2]
  PROVE  \E o \in Observed(h, given).orders : o.id = p
PROOF
<1> DEFINE S == {ObservedOrder(q, Len(fills[q])) : q \in Placed}
<1>1. PICK x \in S : x = ObservedOrder(p, Len(fills[p]))
  OBVIOUS
<1>2. x.id = p /\ [x EXCEPT !.timely = FALSE].id = p
  BY <1>1 DEF ObservedOrder
<1>3. \A n : ObservedOrder(h[2], n).id = h[2]
  BY DEF ObservedOrder
<1>4. Observed(h, given).orders = HarmedOrders(S, h)
  BY DEF Observed, Harmed, Seen
<1> HIDE DEF S
<1> SUFFICES \E o \in HarmedOrders(S, h) : o.id = p
  BY <1>4
<1>5. CASE h[1] = "order twice"
  BY <1>2, <1>5 DEF HarmedOrders, Copies
<1>6. CASE h[1] = "out of date" /\ h[2] # p
  BY <1>2, <1>6 DEF HarmedOrders, Without
<1>7. CASE h[1] = "out of date" /\ h[2] = p
  <2>1. ObservedOrder(h[2], Len(fills[h[2]]) - 1) \in HarmedOrders(S, h)
    BY <1>7 DEF HarmedOrders
  <2> QED
    BY <1>3, <1>7, <2>1
<1>8. CASE h[1] = "of later"
  <2>1. (IF x.id = h[2] THEN [x EXCEPT !.timely = FALSE] ELSE x) \in HarmedOrders(S, h)
    BY <1>8 DEF HarmedOrders
  <2> QED
    BY <1>2, <2>1
<1>9. CASE h[1] \in {"lost", "lost with trades"}
  BY <1>2, <1>9 DEF HarmedOrders, Without
<1>10. CASE h[1] \notin {"lost", "lost with trades", "order twice", "out of date", "of later"}
  BY <1>2, <1>10 DEF HarmedOrders
<1> QED
  BY <1>5, <1>6, <1>7, <1>8, <1>9, <1>10

\* A record of a trade is of a trade, and names its order.
LEMMA TradesSeen ==
  ASSUME NEW h \in Harms, NEW given, NEW t \in Observed(h, given).trades
  PROVE  t.order = t.id[1] /\ t.id \in TradeIds
PROOF
<1> DEFINE S == {ObservedTrade(u) : u \in TradeIds}
<1>1. \A x \in S : x.order = x.id[1] /\ x.id \in TradeIds
  BY DEF ObservedTrade
<1>2. t \in HarmedTrades(S, h)
  BY DEF Observed, Harmed, Seen
<1>3. ASSUME NEW x \in S,
             \/ t = x \/ t = [x EXCEPT !.copy = 2] \/ t = [x EXCEPT !.within = FALSE]
             \/ t = [x EXCEPT !.timely = FALSE] \/ t = [x EXCEPT !.side = Turned(@)]
      PROVE  t.order = t.id[1] /\ t.id \in TradeIds
  BY <1>1, <1>3 DEF ObservedTrade
<1> HIDE DEF S
<1>4. CASE h[1] \in {"lost with trades", "lost trade"}
  BY <1>1, <1>2, <1>4 DEF HarmedTrades, Without
<1>5. CASE h[1] = "trade twice"
  <2>1. t \in Copies(S, h[2])
    BY <1>2, <1>5 DEF HarmedTrades
  <2> QED
    BY <1>3, <2>1 DEF Copies
<1>6. CASE h[1] = "turned"
  <2>1. PICK x \in S : t = IF x.id = h[2] THEN [x EXCEPT !.side = Turned(@)] ELSE x
    BY <1>2, <1>6 DEF HarmedTrades
  <2> QED
    BY <1>3, <2>1
<1>7. CASE h[1] = "outside"
  <2>1. PICK x \in S : t = IF x.id = h[2] THEN [x EXCEPT !.within = FALSE] ELSE x
    BY <1>2, <1>7 DEF HarmedTrades
  <2> QED
    BY <1>3, <2>1
<1>8. CASE h[1] = "of later trade"
  <2>1. PICK x \in S : t = IF x.id = h[2] THEN [x EXCEPT !.timely = FALSE] ELSE x
    BY <1>2, <1>8 DEF HarmedTrades
  <2> QED
    BY <1>3, <2>1
<1>9. CASE h[1] \notin {"lost with trades", "lost trade", "trade twice", "turned", "outside", "of later trade"}
  BY <1>1, <1>2, <1>9 DEF HarmedTrades
<1> QED
  BY <1>4, <1>5, <1>6, <1>7, <1>8, <1>9

-----------------------------------------------------------------------------
(* The theorem                                                             *)

\* What an order is, is of one kind for good.
OrdersTyped == order \in [OrderIds -> Kinds \cup {Absent}]

\* A claim that names an order by its id names a legacy one.
LEMMA ClaimsName ==
  ASSUME NEW c \in Claims, c.order # None
  PROVE  c.order \in LegacyOrders
PROOF
<1>1. c \notin VoidClaims
  BY DEF VoidClaims, VoidClaim
<1>2. PICK o \in LegacyOrders, i \in BOOLEAN, b \in BOOLEAN, slip \in {None, "amount", "window"} :
        c = ClaimOn(o, i, b, slip)
  BY <1>1 DEF Claims, ClaimsWith
<1>3. c.order = IF i THEN o ELSE None
  BY <1>2 DEF ClaimOn
<1> QED
  BY <1>3

\* Misleads, of a report on harm h.
MisleadsIf(h, c, o) ==
  /\ c.order = None /\ c.client # None /\ c.client = order[o].client
  /\ \A p \in LegacyOrders :
       order[p].client = c.client => h[1] \in {"lost", "lost with trades"} /\ p = h[2]

LEMMA CountedAreLegacy ==
  ASSUME OrdersTyped, NEW h \in Harms, NEW C \in SUBSET Claims,
         NEW given, \A g \in given : \E c \in C : g.order = c.order /\ g.client = c.client,
         NEW t \in Reconciled(Observed(h, given)).counted,
         ~\E c \in C : MisleadsIf(h, c, t[1])
  PROVE  order[t[1]].owner = "legacy"
PROOF
<1> DEFINE ob == Observed(h, given)
           v == Validated(ob)
<1>1. PICK trade \in ob.trades :
        /\ trade.id = t
        /\ \/ \E m \in v.matches : m[2].id = trade.order
           \/ \E o \in ob.orders : o.ownership = "legacy" /\ o.id = trade.order
  BY DEF Reconciled, LegacyTrades, Ids, MatchedIds, Validated, ValidTrades
<1>2. trade.order = t[1]
  BY <1>1, TradesSeen
<1>3. CASE \E o \in ob.orders : o.ownership = "legacy" /\ o.id = t[1]
  BY <1>3, OrdersSeen
<1>4. ASSUME NEW m \in v.matches, m[2].id = t[1] PROVE order[t[1]].owner = "legacy"
  <2>0. v.matches = Matches(ob, ValidOrders(ob))
    BY DEF Validated
  <2>1. PICK g \in ob.hints : /\ Verdict(ValidOrders(ob), g) = "matched"
                              /\ m[2] \in Candidates(ValidOrders(ob), g)
    <3>1. PICK g \in ob.hints : /\ Verdict(ValidOrders(ob), g) = "matched"
                                /\ m \in {<<g, o>> : o \in Candidates(ValidOrders(ob), g)}
      <4> HIDE DEF ob
      <4> QED
        BY <1>4, <2>0 DEF Matches
    <3>2. PICK o \in Candidates(ValidOrders(ob), g) : m = <<g, o>>
      BY <3>1, Zenon
    <3> QED
      BY <3>1, <3>2
  <2>2. g \in given
    BY <2>1 DEF Observed, Harmed
  <2>3. PICK c \in C : g.order = c.order /\ g.client = c.client
    BY <2>2
  <2>4. /\ HasIdentity(g)
        /\ m[2] \in ValidOrders(ob)
        /\ g.order # None => m[2].id = g.order
        /\ g.client # None => m[2].client = g.client
    BY <2>1, MatchedByIdentity DEF Candidates, IdentityPool
  <2>5. CASE g.order # None
    BY <1>4, <2>3, <2>4, <2>5, ClaimsName DEF LegacyOrders
  <2>6. CASE g.order = None
    <3>1. g.client # None /\ m[2].client = c.client /\ c.client # None
      BY <2>3, <2>4, <2>6 DEF HasIdentity
    <3>2. /\ m[2] \in ob.orders /\ m[2].client \notin RepeatedClients(ob.orders)
          /\ m[2].id \in Placed /\ m[2].client = order[m[2].id].client
      BY <2>4, OrdersSeen DEF ValidOrders
    <3>3. PICK p \in LegacyOrders : /\ c.client = order[p].client
                                    /\ h[1] \in {"lost", "lost with trades"} => p # h[2]
      BY <1>4, <2>3, <2>6, <3>1, <3>2 DEF MisleadsIf
    <3>4. PICK q \in ob.orders : q.id = p
      <4>1. p \in Placed
        BY <3>3 DEF LegacyOrders
      <4> QED
        BY <3>3, <4>1, OrdersKept
    <3>5. q.client = m[2].client
      BY <3>1, <3>3, <3>4, OrdersSeen
    <3>6. q = m[2]
      BY <2>3, <3>1, <3>2, <3>5 DEF RepeatedClients
    <3> QED
      BY <1>4, <3>3, <3>4, <3>6 DEF LegacyOrders
  <2> QED
    BY <2>5, <2>6
<1> QED
  BY <1>1, <1>2, <1>3, <1>4

LegacyInv == OrdersTyped /\ OnlyLegacyOrdersCount

LEMMA LegacyStep ==
  LegacyInv /\ [AccountNext]_evidence => LegacyInv'
PROOF
<1> SUFFICES ASSUME LegacyInv, [AccountNext]_evidence PROVE LegacyInv'
  OBVIOUS
<1>1. ASSUME NEW o \in OrderIds, NEW k \in Kinds, Submit(o, k) PROVE LegacyInv'
  BY <1>1 DEF Submit, LegacyInv, OrdersTyped, OnlyLegacyOrdersCount, Judged
<1>2. ASSUME NEW o \in OrderIds, NEW fee \in FeeAssets, Match(o, fee) PROVE LegacyInv'
  BY <1>2 DEF Match, LegacyInv, OrdersTyped, OnlyLegacyOrdersCount, Judged
<1>3. ASSUME NEW o \in OrderIds, Withdraw(o) PROVE LegacyInv'
  BY <1>3 DEF Withdraw, LegacyInv, OrdersTyped, OnlyLegacyOrdersCount, Judged
<1>4. ASSUME NEW h \in Harms, NEW C \in SUBSET Claims, Judge(Seen, h, C) PROVE LegacyInv'
  <2> DEFINE given == {Hint(c) : c \in C}
             again == IF h[1] = "hint twice" THEN {[g EXCEPT !.copy = 2] : g \in given} ELSE {}
  <2>1. /\ report' = Reconciled(Observed(h, given \cup again))
        /\ harm' = h /\ hints' = C /\ order' = order
    BY <1>4 DEF Judge, Observed, market
  <2>2. \A g \in given \cup again : \E c \in C : g.order = c.order /\ g.client = c.client
    <3>1. ASSUME NEW c \in C
          PROVE  /\ Hint(c).order = c.order /\ Hint(c).client = c.client
                 /\ [Hint(c) EXCEPT !.copy = 2].order = c.order
                 /\ [Hint(c) EXCEPT !.copy = 2].client = c.client
      BY DEF Hint
    <3>2. \A g \in given : \E c \in C : g = Hint(c)
      OBVIOUS
    <3>3. again \subseteq {[g EXCEPT !.copy = 2] : g \in given}
      OBVIOUS
    <3> HIDE DEF given, again
    <3>4. ASSUME NEW g \in given PROVE \E c \in C : g.order = c.order /\ g.client = c.client
      BY <3>1, <3>2
    <3>5. ASSUME NEW g \in again PROVE \E c \in C : g.order = c.order /\ g.client = c.client
      <4>1. PICK f \in given : g = [f EXCEPT !.copy = 2]
        BY <3>3, Zenon
      <4>2. PICK c \in C : f = Hint(c)
        BY <3>2, Zenon
      <4> QED
        BY <3>1, <4>1, <4>2
    <3> QED
      BY <3>4, <3>5
  <2> HIDE DEF given, again
  <2>3. ASSUME NEW t \in report'.counted, order'[t[1]].owner # "legacy"
        PROVE  \E c \in hints' : Misleads(c, t[1])'
    <3>1. PICK c \in C : MisleadsIf(h, c, t[1])
      BY <2>1, <2>2, <2>3, CountedAreLegacy DEF LegacyInv
    <3>2. LegacyOrders' = LegacyOrders
      BY <1>4 DEF Judge, market, LegacyOrders, Placed
    <3> QED
      BY <2>1, <3>1, <3>2 DEF Misleads, MisleadsIf, OrderMissing
  <2>4. OnlyLegacyOrdersCount'
    BY <2>3 DEF OnlyLegacyOrdersCount
  <2> QED
    BY <2>1, <2>4 DEF LegacyInv, OrdersTyped
<1>5. CASE JudgeAny
  BY <1>4, <1>5 DEF JudgeAny
<1>6. CASE UNCHANGED evidence
  BY <1>6
  DEF evidence, market, LegacyInv, OrdersTyped, OnlyLegacyOrdersCount, Judged, OrderMissing,
      Misleads, LegacyOrders, Placed
<1> QED
  BY <1>1, <1>2, <1>3, <1>5, <1>6 DEF AccountNext, AccountSteps

\* Nothing but the legacy program's own fills is counted as legacy inventory
\* (_hint_candidates, and the valid orders and trades of reconcile_account), but
\* for an order that a client id alone means and no legacy order seen bears; for
\* every set of orders, kinds of orders and hints and every harm to what is seen.
THEOREM LegacyInventoryIsLegacy ==
  AccountSpec => []OnlyLegacyOrdersCount
PROOF
<1>1. AccountInit => LegacyInv
  BY DEF AccountInit, LegacyInv, OrdersTyped, OnlyLegacyOrdersCount, Judged, NoReport
<1>2. LegacyInv => OnlyLegacyOrdersCount
  BY DEF LegacyInv
<1> QED
  BY <1>1, <1>2, LegacyStep, PTL DEF AccountSpec

-----------------------------------------------------------------------------
(* The account itself                                                      *)

MarketTyped ==
  /\ OrdersTyped
  /\ life \in [OrderIds -> {"absent", "open", "closed", "canceled"}]
  /\ fills \in [OrderIds -> Seq(FeeAssets)]
  /\ outside \in External

\* An order rests on the book exactly while a lot of it is unfilled.
LifeFits ==
  \A o \in OrderIds :
    /\ life[o] = "absent" => order[o] = Absent /\ fills[o] = <<>>
    /\ life[o] # "absent" => order[o] \in Kinds
    /\ life[o] \in {"open", "canceled"} => Len(fills[o]) < order[o].lots
    /\ life[o] = "closed" => Len(fills[o]) = order[o].lots

\* What rests on the book is covered by what is held.
Covered == Held("sell") <= Holding("BTC") /\ Holding("ETH") >= 0

Sells(side) ==
  {o \in OrderIds : life[o] = "open" /\ order[o].side = side /\ order[o].pair = <<"BTC", "CAD">>}

Rest(side) == [o \in Sells(side) |-> Lot * (order[o].lots - Len(fills[o]))]

LEMMA HeldIsTotal ==
  ASSUME NEW side
  PROVE  Held(side) = Total(Rest(side), Sells(side))
PROOF
<1> PICK S : S = Sells(side)
  OBVIOUS
<1> PICK F : F = Rest(side)
  OBVIOUS
<1> DEFINE It(f) == f = [s \in SUBSET S |->
                          IF s = {} THEN 0
                          ELSE Lot * (order[CHOOSE x \in s : TRUE].lots - Len(fills[CHOOSE x \in s : TRUE]))
                                 + f[s \ {CHOOSE x \in s : TRUE}]]
<1>1. Held(side) = (CHOOSE f : It(f))[S]
  BY DEF Held, MapThenSumSet, MapThenFoldSet, Sells
<1>2. \A s \in SUBSET S : s # {} =>
        F[Some(s)] = Lot * (order[CHOOSE x \in s : TRUE].lots - Len(fills[CHOOSE x \in s : TRUE]))
  <2>1. \A s \in SUBSET S : s # {} => Some(s) \in S
    BY DEF Some
  <2>2. \A x \in S : F[x] = Lot * (order[x].lots - Len(fills[x]))
    BY DEF Rest
  <2> QED
    BY <2>1, <2>2 DEF Some
<1>3. \A f : It(f) <=> Adds(F, S, f)
  BY <1>2 DEF Adds, Some
<1> HIDE DEF It
<1>4. (CHOOSE f : It(f)) = (CHOOSE f : Adds(F, S, f))
  BY <1>3, Zenon
<1> QED
  BY <1>1, <1>4 DEF Total

LEMMA HeldForSales ==
  Held("sell") = Total(Rest("sell"), Sells("sell"))
PROOF
  BY HeldIsTotal

LEMMA HeldForPurchases ==
  Held("buy") = Total(Rest("buy"), Sells("buy"))
PROOF
  BY HeldIsTotal

\* What an open order holds.
LEMMA RestIsPositive ==
  ASSUME MarketTyped, LifeFits, NEW side
  PROVE  /\ IsFiniteSet(Sells(side)) /\ Rest(side) \in [Sells(side) -> Nat \ {0}]
         /\ Sells(side) \subseteq Placed
PROOF
<1>1. IsFiniteSet(Sells(side))
  BY EvidenceAssumption, FS_Subset DEF Sells
<1>2. Sells(side) \subseteq Placed
  BY DEF Sells, Placed
<1>3. ASSUME NEW o \in Sells(side) PROVE Lot * (order[o].lots - Len(fills[o])) \in Nat \ {0}
  <2>1. order[o] \in Kinds /\ Len(fills[o]) < order[o].lots /\ Len(fills[o]) \in Nat
    BY DEF Sells, LifeFits, MarketTyped
  <2>2. order[o].lots \in Nat
    BY <2>1, EvidenceAssumption
  <2> QED
    BY <2>1, <2>2 DEF Lot
<1> QED
  BY <1>1, <1>2, <1>3 DEF Rest

LEMMA HeldIsForOrders ==
  ASSUME MarketTyped, LifeFits, NEW side
  PROVE  /\ Held(side) \in Nat
         /\ Held(side) > 0 => Sells(side) # {}
         /\ Sells(side) # {} => Held(side) > 0
PROOF
<1> PICK S : S = Sells(side)
  OBVIOUS
<1> PICK F : F = Rest(side)
  OBVIOUS
<1>1. IsFiniteSet(S) /\ F \in [S -> Nat \ {0}] /\ Held(side) = Total(F, S)
  BY RestIsPositive, HeldIsTotal
<1>2. Total(F, S) \in Nat /\ \A x \in S : F[x] <= Total(F, S)
  <2>1. F \in [S -> Nat]
    BY <1>1
  <2> QED
    BY <1>1, <2>1, TotalOfNumbers
<1>3. S = {} => Total(F, S) = 0
  BY TotalOfNone
<1>4. ASSUME NEW x \in S PROVE Total(F, S) > 0
  BY <1>1, <1>2
<1> QED
  BY <1>1, <1>2, <1>3, <1>4

LEMMA TradesAreFinite ==
  ASSUME MarketTyped
  PROVE  /\ IsFiniteSet(TradeIds)
         /\ \A t \in TradeIds : t[1] \in OrderIds /\ t[2] \in 1..Len(fills[t[1]]) /\ t = <<t[1], t[2]>>
         /\ \A o \in OrderIds : \A n \in 1..Len(fills[o]) : <<o, n>> \in TradeIds
PROOF
<1> DEFINE Of1(o) == {o} \X (1..Len(fills[o]))
           All == {Of1(o) : o \in OrderIds}
<1>1. TradeIds = UNION All
  BY DEF TradeIds
<1>2. \A o \in OrderIds : IsFiniteSet(Of1(o))
  <2> SUFFICES ASSUME NEW o \in OrderIds PROVE IsFiniteSet(Of1(o))
    OBVIOUS
  <2>1. Len(fills[o]) \in Nat
    BY DEF MarketTyped
  <2>2. IsFiniteSet(1..Len(fills[o])) /\ IsFiniteSet({o})
    <3>1. \A n \in Nat : IsFiniteSet(1..n)
      BY FS_Interval
    <3>2. \A x : IsFiniteSet({x})
      BY FS_Singleton
    <3> QED
      BY <2>1, <3>1, <3>2
  <2> QED
    BY <2>2, FS_Product
<1>3. IsFiniteSet(All)
  <2> DEFINE f == [o \in OrderIds |-> Of1(o)]
  <2>1. f \in Surjection(OrderIds, All)
    <3> HIDE DEF Of1
    <3> QED
      BY DEF Surjection
  <2> HIDE DEF All, f
  <2> QED
    BY <2>1, EvidenceAssumption, FS_Surjection
<1>4. \A T \in All : IsFiniteSet(T)
  <2> HIDE DEF Of1
  <2> QED
    BY <1>2
<1>5. IsFiniteSet(TradeIds)
  <2> HIDE DEF All
  <2> QED
    BY <1>1, <1>3, <1>4, FS_UNION
<1>6. ASSUME NEW t \in TradeIds
      PROVE  t[1] \in OrderIds /\ t[2] \in 1..Len(fills[t[1]]) /\ t = <<t[1], t[2]>>
  BY DEF TradeIds
<1>7. ASSUME NEW o \in OrderIds, NEW n \in 1..Len(fills[o]) PROVE <<o, n>> \in TradeIds
  BY DEF TradeIds
<1> QED
  BY <1>5, <1>6, <1>7

LEMMA GainsAreNumbers ==
  ASSUME MarketTyped, NEW S, NEW asset
  PROVE  Gained(S, asset) \in Int /\ Holding(asset) \in Int
PROOF
<1>1. ASSUME NEW T PROVE Gained(T, asset) \in Int
  <2> DEFINE of == {t \in TradeIds : t[1] \in T /\ order[t[1]].pair = <<asset, "CAD">>}
             buys == {t \in of : order[t[1]].side = "buy"}
             fees == {t \in of : FeeOf(t) = asset}
  <2>1. IsFiniteSet(TradeIds)
    BY TradesAreFinite
  <2>2. of \subseteq TradeIds /\ buys \subseteq TradeIds /\ of \ buys \subseteq TradeIds /\ fees \subseteq TradeIds
    OBVIOUS
  <2>3. Gained(T, asset) = Lot * Cardinality(buys) - Lot * Cardinality(of \ buys) - Cardinality(fees)
    BY DEF Gained
  <2> HIDE DEF of, buys, fees
  <2>4. /\ Cardinality(buys) \in Nat /\ Cardinality(of \ buys) \in Nat /\ Cardinality(fees) \in Nat
    BY <2>1, <2>2, FS_Subset, FS_CardinalityType
  <2> QED
    BY <2>3, <2>4 DEF Lot
<1>2. outside \in Int
  BY EvidenceAssumption DEF MarketTyped
<1> QED
  BY <1>1, <1>2 DEF Holding

LEMMA BTCIsANumber ==
  MarketTyped => Holding("BTC") \in Int
PROOF
  BY GainsAreNumbers

\* Placing and withdrawing orders trades nothing.
LEMMA HoldingStays ==
  ASSUME MarketTyped, LifeFits, UNCHANGED <<fills, outside>>,
         \A o \in OrderIds : fills[o] # <<>> => order'[o] = order[o], NEW asset
  PROVE  Holding(asset)' = Holding(asset)
PROOF
<1>1. TradeIds' = TradeIds
  BY DEF TradeIds
<1>2. \A t \in TradeIds : order'[t[1]] = order[t[1]]
  <2> SUFFICES ASSUME NEW t \in TradeIds PROVE order'[t[1]] = order[t[1]]
    OBVIOUS
  <2>1. t[1] \in OrderIds /\ t[2] \in 1..Len(fills[t[1]])
    BY TradesAreFinite
  <2>2. fills[t[1]] # <<>>
    BY <2>1
  <2> QED
    BY <2>1, <2>2
<1> DEFINE of == {t \in TradeIds : t[1] \in OrderIds /\ order[t[1]].pair = <<asset, "CAD">>}
           then == {t \in TradeIds : t[1] \in OrderIds /\ order'[t[1]].pair = <<asset, "CAD">>}
           buys == {t \in of : order[t[1]].side = "buy"}
           bought == {t \in then : order'[t[1]].side = "buy"}
           fees == {t \in of : FeeOf(t) = asset}
           paid == {t \in then : FeeOf(t) = asset}
<1>3. then = of
  BY <1>2
<1>4. bought = buys /\ paid = fees
  BY <1>2, <1>3
<1>5. Gained(OrderIds, asset)' = Lot * Cardinality(bought) - Lot * Cardinality(then \ bought) - Cardinality(paid)
  BY <1>1 DEF Gained, FeeOf
<1>6. Gained(OrderIds, asset) = Lot * Cardinality(buys) - Lot * Cardinality(of \ buys) - Cardinality(fees)
  BY DEF Gained
<1> HIDE DEF of, then, buys, bought, fees, paid
<1> QED
  BY <1>3, <1>4, <1>5, <1>6 DEF Holding

\* A withdrawn order frees what it held.
LEMMA HeldFalls ==
  ASSUME MarketTyped, LifeFits, NEW o \in OrderIds,
         life' = [life EXCEPT ![o] = "canceled"], UNCHANGED <<order, fills>>, NEW side
  PROVE  Held(side)' <= Held(side) /\ Held(side)' \in Int /\ Held(side) \in Int
PROOF
<1> PICK S : S = Sells(side)
  OBVIOUS
<1> PICK F : F = Rest(side)
  OBVIOUS
<1>1. IsFiniteSet(S) /\ F \in [S -> Nat \ {0}] /\ Held(side) = Total(F, S) /\ Held(side) \in Nat
  BY RestIsPositive, HeldIsTotal, HeldIsForOrders
<1>2. Held(side)' = Total(Rest(side)', Sells(side)')
  <2>1. (Held(side) = Total(Rest(side), Sells(side)))'
    BY HeldIsTotal, PTL
  <2> QED
    BY <2>1
<1>3. Sells(side)' = S \ {o}
  BY DEF Sells, MarketTyped
<1>4. Rest(side)' = [x \in S \ {o} |-> F[x]]
  BY <1>3 DEF Rest
<1>5. CASE o \in S
  <2>1. F \in [S -> Int]
    BY <1>1
  <2>2. Total(F, S) = F[o] + Total([x \in S \ {o} |-> F[x]], S \ {o})
    <3>1. IsFiniteSet(S)
      BY <1>1
    <3>2. \A x \in S : Total(F, S) = F[x] + Total([y \in S \ {x} |-> F[y]], S \ {x})
      BY <2>1, <3>1, TotalSplits
    <3> QED
      BY <1>5, <3>2, Zenon
  <2>3. Total([x \in S \ {o} |-> F[x]], S \ {o}) \in Int
    BY <1>1, <2>1, TotalOfSame
  <2>4. Total(F, S) = F[o] + Held(side)' /\ Held(side)' \in Int
    BY <1>2, <1>3, <1>4, <2>2, <2>3, Zenon
  <2>5. F[o] \in Nat
    BY <1>1, <1>5
  <2> QED
    BY <1>1, <2>4, <2>5
<1>6. CASE o \notin S
  <2>1. S \ {o} = S /\ [x \in S |-> F[x]] = F
    BY <1>1, <1>6
  <2>2. Held(side)' = Held(side)
    BY <1>1, <1>2, <1>3, <1>4, <2>1, Zenon
  <2> QED
    BY <1>1, <2>2
<1> QED
  BY <1>5, <1>6

MarketInv == MarketTyped /\ LifeFits /\ Covered

LEMMA MarketInit ==
  AccountInit => MarketInv
PROOF
<1> SUFFICES ASSUME AccountInit PROVE MarketInv
  OBVIOUS
<1>1. MarketTyped
  <2>1. <<>> \in Seq(FeeAssets)
    OBVIOUS
  <2> QED
    BY <2>1 DEF AccountInit, MarketTyped, OrdersTyped
<1>2. LifeFits
  BY DEF AccountInit, LifeFits
<1>3. Covered
  <2>1. TradeIds = {}
    BY DEF AccountInit, TradeIds
  <2>2. \A asset : Gained(OrderIds, asset) = 0
    <3> SUFFICES ASSUME NEW asset PROVE Gained(OrderIds, asset) = 0
      OBVIOUS
    <3>1. Gained(OrderIds, asset) = Lot * Cardinality({}) - Lot * Cardinality({}) - Cardinality({})
      BY <2>1, Zenon DEF Gained
    <3>2. Cardinality({}) = 0
      BY FS_EmptySet
    <3> QED
      BY <3>1, <3>2 DEF Lot
  <2>3. outside \in Nat
    BY EvidenceAssumption DEF AccountInit
  <2>4. Holding("BTC") = outside /\ Holding("ETH") = 0
    BY <2>2, <2>3 DEF Holding
  <2>5. Held("sell") = 0
    <3>1. Sells("sell") = {}
      BY DEF AccountInit, Sells
    <3>2. Held("sell") \in Nat /\ ~(Held("sell") > 0)
      BY <1>1, <1>2, <3>1, HeldIsForOrders
    <3> QED
      BY <3>2
  <2> QED
    BY <2>3, <2>4, <2>5 DEF Covered
<1> QED
  BY <1>1, <1>2, <1>3 DEF MarketInv

LEMMA MarketStep ==
  MarketInv /\ [AccountNext]_evidence => MarketInv'
PROOF
<1> SUFFICES ASSUME MarketInv, [AccountNext]_evidence PROVE MarketInv'
  OBVIOUS
<1> USE DEF MarketInv
<1>1. ASSUME NEW o \in OrderIds, NEW k \in Kinds, Submit(o, k) PROVE MarketInv'
  <2>1. /\ life[o] = "absent" /\ order' = [order EXCEPT ![o] = k]
        /\ life' = [life EXCEPT ![o] = "open"] /\ UNCHANGED <<fills, outside>>
        /\ Held("sell")' <= Holding("BTC")
    BY <1>1 DEF Submit
  <2>2. k.lots \in Nat \ {0} /\ fills[o] = <<>>
    BY <2>1, EvidenceAssumption DEF LifeFits
  <2>3. MarketTyped'
    BY <2>1 DEF MarketTyped, OrdersTyped
  <2>4. LifeFits'
    <3>1. Len(fills[o]) < k.lots
      BY <2>2
    <3> QED
      BY <2>1, <3>1 DEF LifeFits, MarketTyped, OrdersTyped
  <2>5. \A q \in OrderIds : fills[q] # <<>> => order'[q] = order[q]
    BY <2>1, <2>2 DEF MarketTyped, OrdersTyped
  <2>6. Holding("BTC")' = Holding("BTC") /\ Holding("ETH")' = Holding("ETH")
    BY <2>1, <2>5, HoldingStays
  <2>7. Covered'
    BY <2>1, <2>6 DEF Covered
  <2> QED
    BY <2>3, <2>4, <2>7
<1>2. ASSUME NEW o \in OrderIds, NEW fee \in FeeAssets, Match(o, fee) PROVE MarketInv'
  <2>1. /\ life[o] = "open" /\ fills' = [fills EXCEPT ![o] = Append(fills[o], fee)]
        /\ life' = IF Len(fills'[o]) = order[o].lots THEN [life EXCEPT ![o] = "closed"] ELSE life
        /\ UNCHANGED <<order, outside>>
        /\ Holding("BTC")' >= Held("sell")' /\ Holding("ETH")' >= 0
    BY <1>2 DEF Match
  <2>2. fills'[o] \in Seq(FeeAssets) /\ Len(fills'[o]) = Len(fills[o]) + 1 /\ Len(fills[o]) \in Nat
    BY <2>1 DEF MarketTyped
  <2>3. MarketTyped'
    BY <2>1, <2>2 DEF MarketTyped, OrdersTyped
  <2>4. LifeFits'
    <3>1. \A q \in OrderIds \ {o} : life'[q] = life[q] /\ fills'[q] = fills[q] /\ order'[q] = order[q]
      BY <2>1 DEF MarketTyped
    <3>2. order[o] \in Kinds /\ Len(fills[o]) < order[o].lots
      BY <2>1 DEF LifeFits
    <3>3. order[o].lots \in Nat
      BY <3>2, EvidenceAssumption
    <3>4. life'[o] \in {"open", "closed"} /\ (life'[o] = "closed" <=> Len(fills'[o]) = order[o].lots)
      BY <2>1 DEF MarketTyped
    <3>5. life'[o] = "open" => Len(fills'[o]) < order[o].lots
      BY <2>2, <3>2, <3>3, <3>4
    <3> QED
      BY <2>1, <3>1, <3>2, <3>4, <3>5 DEF LifeFits
  <2>5. Covered'
    <3>1. (Holding("BTC") \in Int)'
      BY <2>3, BTCIsANumber, PTL
    <3> QED
      BY <2>1 DEF Covered
  <2> QED
    BY <2>3, <2>4, <2>5
<1>3. ASSUME NEW o \in OrderIds, Withdraw(o) PROVE MarketInv'
  <2>1. life[o] = "open" /\ life' = [life EXCEPT ![o] = "canceled"] /\ UNCHANGED <<order, fills, outside>>
    BY <1>3 DEF Withdraw
  <2>2. MarketTyped' /\ LifeFits'
    BY <2>1 DEF MarketTyped, OrdersTyped, LifeFits
  <2>3. Holding("BTC")' = Holding("BTC") /\ Holding("ETH")' = Holding("ETH") /\ Holding("BTC") \in Int
    BY <2>1, HoldingStays, GainsAreNumbers
  <2>4. Held("sell")' <= Held("sell") /\ Held("sell")' \in Int /\ Held("sell") \in Int
    BY <2>1, HeldFalls
  <2>5. Covered'
    BY <2>3, <2>4 DEF Covered
  <2> QED
    BY <2>2, <2>5
<1>4. CASE UNCHANGED market
  <2>1. MarketTyped' /\ LifeFits'
    BY <1>4 DEF market, MarketTyped, OrdersTyped, LifeFits
  <2>2. Held("sell")' = Held("sell")
    <3>1. Sells("sell")' = Sells("sell") /\ Rest("sell")' = Rest("sell")
      BY <1>4 DEF market, Sells, Rest
    <3>2. (Held("sell") = Total(Rest("sell"), Sells("sell")))'
      BY HeldForSales, PTL
    <3>3. Held("sell") = Total(Rest("sell"), Sells("sell"))
      BY HeldIsTotal
    <3> QED
      BY <3>1, <3>2, <3>3
  <2>3. Holding("BTC")' = Holding("BTC") /\ Holding("ETH")' = Holding("ETH")
    BY <1>4, HoldingStays DEF market
  <2>4. Covered'
    BY <2>2, <2>3 DEF Covered
  <2> QED
    BY <2>1, <2>4
<1>5. CASE JudgeAny \/ UNCHANGED evidence
  <2>1. ASSUME NEW h, NEW C, Judge(Seen, h, C) PROVE UNCHANGED market
    BY <2>1 DEF Judge
  <2>2. JudgeAny => UNCHANGED market
    BY <2>1 DEF JudgeAny
  <2>3. UNCHANGED evidence => UNCHANGED market
    BY DEF evidence
  <2> QED
    BY <1>4, <1>5, <2>2, <2>3
<1> QED
  BY <1>1, <1>2, <1>3, <1>5 DEF AccountNext, AccountSteps

-----------------------------------------------------------------------------
(* Types                                                                   *)

\* The hints that are given speak for the claims of C.
Speaks(given, C) ==
  \A g \in given : \E c \in C : g.id = c /\ g.order = c.order /\ g.client = c.client

LEMMA HintsSpeak ==
  ASSUME NEW h, NEW C, NEW given, given = {Hint(c) : c \in C}
  PROVE  Speaks(given \cup (IF h[1] = "hint twice" THEN {[g EXCEPT !.copy = 2] : g \in given} ELSE {}), C)
PROOF
<1> PICK again : again = IF h[1] = "hint twice" THEN {[g EXCEPT !.copy = 2] : g \in given} ELSE {}
  OBVIOUS
<1>1. ASSUME NEW c \in C
      PROVE  /\ Hint(c).id = c /\ Hint(c).order = c.order /\ Hint(c).client = c.client
             /\ [Hint(c) EXCEPT !.copy = 2].id = c
             /\ [Hint(c) EXCEPT !.copy = 2].order = c.order
             /\ [Hint(c) EXCEPT !.copy = 2].client = c.client
  BY DEF Hint
<1>2. ASSUME NEW g \in given PROVE \E c \in C : g.id = c /\ g.order = c.order /\ g.client = c.client
  <2>1. PICK c \in C : g = Hint(c)
    OBVIOUS
  <2> QED
    BY <1>1, <2>1
<1>3. ASSUME NEW g \in again PROVE \E c \in C : g.id = c /\ g.order = c.order /\ g.client = c.client
  <2>1. PICK f \in given : g = [f EXCEPT !.copy = 2]
    OBVIOUS
  <2>2. PICK c \in C : f = Hint(c)
    OBVIOUS
  <2>3. g = [Hint(c) EXCEPT !.copy = 2]
    BY <2>1, <2>2, Zenon
  <2> QED
    BY <1>1, <2>3, Zenon
<1> QED
  BY <1>2, <1>3 DEF Speaks

\* A match is of a hint that holds an id with an order that is there.
LEMMA MatchesAreOfHints ==
  ASSUME NEW h \in Harms, NEW given, NEW m \in Validated(Observed(h, given)).matches
  PROVE  /\ m[1] \in given /\ HasIdentity(m[1])
         /\ m[2] \in Candidates(ValidOrders(Observed(h, given)), m[1])
         /\ Verdict(ValidOrders(Observed(h, given)), m[1]) = "matched"
         /\ m[2] \in Observed(h, given).orders /\ m[2].id \in Placed
PROOF
<1> PICK ob : ob = Observed(h, given)
  OBVIOUS
<1>1. m \in Matches(ob, ValidOrders(ob))
  BY DEF Validated
<1>2. PICK g \in ob.hints : /\ Verdict(ValidOrders(ob), g) = "matched"
                            /\ m \in {<<g, o>> : o \in Candidates(ValidOrders(ob), g)}
  BY <1>1 DEF Matches
<1>3. PICK o \in Candidates(ValidOrders(ob), g) : m = <<g, o>>
  BY <1>2, Zenon
<1>4. g \in given
  BY <1>2 DEF Observed, Harmed
<1>5. o \in ob.orders
  BY DEF Candidates, IdentityPool, ValidOrders
<1>6. m[1] = g /\ m[2] = o
  BY <1>3
<1> QED
  BY <1>2, <1>4, <1>5, <1>6, OrdersSeen, MatchedByIdentity

ReportTyped(r, C) ==
  /\ r.status \in {"CLEAN", "UNRESOLVED", "DISARMED"}
  /\ r.counted \subseteq TradeIds
  /\ r.matched \subseteq {c \in C : HasIdentity(c)} \X Placed

LEMMA ReportTypes ==
  ASSUME NEW h \in Harms, NEW C, NEW given, Speaks(given, C)
  PROVE  ReportTyped(Reconciled(Observed(h, given)), C)
PROOF
<1> PICK ob : ob = Observed(h, given)
  OBVIOUS
<1> PICK v : v = Validated(ob)
  OBVIOUS
<1> PICK r : r = Reconciled(ob)
  OBVIOUS
<1>1. r.status \in {"CLEAN", "UNRESOLVED", "DISARMED"}
  BY DEF Reconciled, Status
<1>2. r.counted \subseteq TradeIds
  <2>1. r.counted = Ids(LegacyTrades(ob, v))
    BY DEF Reconciled
  <2>2. LegacyTrades(ob, v) \subseteq ob.trades
    BY DEF LegacyTrades, Validated, ValidTrades
  <2>3. \A t \in ob.trades : t.id \in TradeIds
    BY TradesSeen
  <2> QED
    BY <2>1, <2>2, <2>3 DEF Ids
<1>3. ASSUME NEW x \in r.matched PROVE x \in {c \in C : HasIdentity(c)} \X Placed
  <2>1. r.matched = {<<m[1].id, m[2].id>> : m \in v.matches}
    BY DEF Reconciled
  <2>2. PICK m \in v.matches : x = <<m[1].id, m[2].id>>
    BY <2>1
  <2>3. m[1] \in given /\ HasIdentity(m[1]) /\ m[2].id \in Placed
    BY MatchesAreOfHints
  <2>4. PICK c \in C : m[1].id = c /\ m[1].order = c.order /\ m[1].client = c.client
    BY <2>3 DEF Speaks
  <2>5. HasIdentity(c)
    BY <2>3, <2>4 DEF HasIdentity
  <2> QED
    BY <2>2, <2>3, <2>4, <2>5
<1> QED
  BY <1>1, <1>2, <1>3 DEF ReportTyped

-----------------------------------------------------------------------------
(* Every report is of the account                                          *)

\* What a report may be made on: some harm, claims, and the hints for them.
JudgedOn(h, C, given) ==
  /\ h \in Harms /\ C \subseteq Claims
  /\ given = {Hint(c) : c \in C} \cup
               IF h[1] = "hint twice" THEN {[g EXCEPT !.copy = 2] : g \in {Hint(c) : c \in C}} ELSE {}

\* Every report is made on an observation of the account as it is.
ReportInv ==
  Judged => \E given : JudgedOn(harm, hints, given) /\ report = Reconciled(Observed(harm, given))

\* The record of an order depends on the order and its life only.
LEMMA RecordsStay ==
  ASSUME order' = order, life' = life
  PROVE  \A o, n : ObservedOrder(o, n)' = ObservedOrder(o, n)
PROOF
<1> SUFFICES ASSUME NEW o, NEW n PROVE ObservedOrder(o, n)' = ObservedOrder(o, n)
  OBVIOUS
<1>1. OrderState(o, n)' = OrderState(o, n)
  BY DEF OrderState
<1>2. order'[o] = order[o] /\ life'[o] = life[o]
  OBVIOUS
<1> QED
  BY <1>1, <1>2, Zenon DEF ObservedOrder

\* The account tells what is seen of it.
LEMMA SeenStays ==
  ASSUME MarketTyped, LifeFits, UNCHANGED market
  PROVE  Seen' = Seen /\ Harms' = Harms /\ Claims' = Claims
PROOF
<1>1. order' = order /\ life' = life /\ fills' = fills /\ outside' = outside
  BY DEF market
<1>2. Placed' = Placed
  BY <1>1 DEF Placed
<1>3. TradeIds' = TradeIds
  BY <1>1 DEF TradeIds
<1>4. \A t : FeeOf(t)' = FeeOf(t)
  BY <1>1 DEF FeeOf
<1>5. Harms' = Harms
  BY <1>1, <1>2, <1>3, <1>4, Zenon DEF Harms
<1>6. \A o, n : ObservedOrder(o, n)' = ObservedOrder(o, n)
  BY <1>1, RecordsStay
<1>7. \A t : ObservedTrade(t)' = ObservedTrade(t)
  BY <1>1, Zenon DEF ObservedTrade
<1>8. \A t : ObservedFee(t)' = ObservedFee(t)
  BY <1>4, Zenon DEF ObservedFee
<1>9. ObservedBalances' = ObservedBalances
  <2>1. Holding("BTC")' = Holding("BTC") /\ Holding("ETH")' = Holding("ETH")
    BY <1>1, HoldingStays
  <2>2. Held("sell")' = Held("sell")
    <3>1. Sells("sell")' = Sells("sell") /\ Rest("sell")' = Rest("sell")
      BY <1>1 DEF Sells, Rest
    <3>2. (Held("sell") = Total(Rest("sell"), Sells("sell")))'
      BY HeldForSales, PTL
    <3> QED
      BY <3>1, <3>2, HeldForSales
  <2>3. Held("buy")' = Held("buy")
    <3>1. Sells("buy")' = Sells("buy") /\ Rest("buy")' = Rest("buy")
      BY <1>1 DEF Sells, Rest
    <3>2. (Held("buy") = Total(Rest("buy"), Sells("buy")))'
      BY HeldForPurchases, PTL
    <3> QED
      BY <3>1, <3>2, HeldForPurchases
  <2> QED
    BY <2>1, <2>2, <2>3, Zenon DEF ObservedBalances
<1>10. Seen' = Seen
  BY <1>1, <1>2, <1>3, <1>4, <1>6, <1>7, <1>8, <1>9, Zenon DEF Seen
<1>11. LegacyOrders' = LegacyOrders
  BY <1>1, <1>2 DEF LegacyOrders
<1>12. Claims' = Claims
  <2>1. \A o, i, b, slip : ClaimOn(o, i, b, slip)' = ClaimOn(o, i, b, slip)
    BY <1>1, Zenon DEF ClaimOn
  <2>2. VoidClaims' = VoidClaims
    BY DEF VoidClaims, VoidClaim
  <2>3. ASSUME NEW x \in Claims' PROVE x \in Claims
    BY <1>11, <2>1, <2>2, <2>3 DEF Claims, ClaimsWith
  <2>4. ASSUME NEW x \in Claims PROVE x \in Claims'
    BY <1>11, <2>1, <2>2, <2>4 DEF Claims, ClaimsWith
  <2> QED
    BY <2>3, <2>4
<1> QED
  BY <1>5, <1>10, <1>12

\* A report is made once and stays.
LEMMA ReportsAreMade ==
  ASSUME AccountNext
  PROVE  \/ report' = NoReport
         \/ \E h \in Harms : \E C \in SUBSET Claims : Judge(Seen, h, C)
PROOF
<1>1. ASSUME NEW o \in OrderIds, NEW k \in Kinds, Submit(o, k) PROVE report' = NoReport
  BY <1>1 DEF Submit
<1>2. ASSUME NEW o \in OrderIds, NEW fee \in FeeAssets, Match(o, fee) PROVE report' = NoReport
  BY <1>2 DEF Match
<1>3. ASSUME NEW o \in OrderIds, Withdraw(o) PROVE report' = NoReport
  BY <1>3 DEF Withdraw
<1>4. CASE JudgeAny
  BY <1>4 DEF JudgeAny
<1> QED
  BY <1>1, <1>2, <1>3, <1>4 DEF AccountNext, AccountSteps

LEMMA ReportStays ==
  MarketInv /\ ReportInv /\ [AccountNext]_evidence => ReportInv'
PROOF
<1> SUFFICES ASSUME MarketInv, ReportInv, [AccountNext]_evidence PROVE ReportInv'
  OBVIOUS
<1>1. MarketTyped /\ LifeFits
  BY DEF MarketInv
<1>2. ASSUME UNCHANGED market
      PROVE  /\ \A h, C, given : JudgedOn(h, C, given)' <=> JudgedOn(h, C, given)
             /\ \A h, given : Observed(h, given)' = Observed(h, given)
  <2>1. Seen' = Seen /\ Harms' = Harms /\ Claims' = Claims
    BY <1>1, <1>2, SeenStays
  <2>2. \A h, given : Observed(h, given)' = Observed(h, given)
    <3>1. order' = order /\ life' = life /\ fills' = fills
      BY <1>2 DEF market
    <3>2. \A o, n : ObservedOrder(o, n)' = ObservedOrder(o, n)
      BY <3>1, RecordsStay
    <3>3. \A S, h : HarmedOrders(S, h)' = HarmedOrders(S, h)
      BY <3>1, <3>2, Zenon DEF HarmedOrders
    <3>4. \A ob, h, given : Harmed(ob, h, given)' = Harmed(ob, h, given)
      BY <3>3, Zenon DEF Harmed
    <3> QED
      BY <2>1, <3>4, Zenon DEF Observed
  <2> QED
    BY <2>1, <2>2, Zenon DEF JudgedOn
<1>3. CASE UNCHANGED evidence
  <2>1. UNCHANGED market /\ harm' = harm /\ hints' = hints /\ report' = report
    BY <1>3 DEF evidence
  <2> QED
    BY <1>2, <2>1, Zenon DEF ReportInv, Judged
<1>4. CASE AccountNext /\ report' = NoReport
  BY <1>4 DEF ReportInv, Judged
<1>5. ASSUME NEW h \in Harms, NEW C \in SUBSET Claims, Judge(Seen, h, C) PROVE ReportInv'
  <2>1. PICK given : given = {Hint(c) : c \in C} \cup
               IF h[1] = "hint twice" THEN {[g EXCEPT !.copy = 2] : g \in {Hint(c) : c \in C}} ELSE {}
    OBVIOUS
  <2>2. JudgedOn(h, C, given)
    BY <2>1, Zenon DEF JudgedOn
  <2>3. /\ UNCHANGED market /\ harm' = h /\ hints' = C
        /\ report' = Reconciled(Observed(h, given))
    BY <1>5, <2>1, Zenon DEF Judge, Observed
  <2>4. JudgedOn(harm, hints, given)' /\ report' = Reconciled(Observed(harm, given))'
    BY <1>2, <2>2, <2>3, Zenon
  <2> QED
    BY <2>4, Zenon DEF ReportInv
<1> QED
  BY <1>3, <1>4, <1>5, ReportsAreMade

AccountInv == MarketInv /\ ReportInv

\* Every report is made on an observation of the account as it then is, and an
\* order rests exactly while a lot of it is unfilled, covered by what is held.
THEOREM AccountInvariant ==
  AccountSpec => []AccountInv
PROOF
<1>1. AccountInit => AccountInv
  <2>1. AccountInit => ReportInv
    BY DEF AccountInit, ReportInv, Judged
  <2> QED
    BY <2>1, MarketInit DEF AccountInv
<1>2. AccountInv /\ [AccountNext]_evidence => AccountInv'
  BY MarketStep, ReportStays DEF AccountInv
<1> QED
  BY <1>1, <1>2, PTL DEF AccountSpec

LEMMA TypesOfTheAccount ==
  AccountInv => AccountTypeOK
PROOF
<1> SUFFICES ASSUME MarketTyped, LifeFits, ReportInv PROVE AccountTypeOK
  BY DEF AccountInv, MarketInv
<1>1. ASSUME NEW o \in OrderIds
      PROVE  fills[o] \in Seq(FeeAssets) /\ Len(fills[o]) <= order[o].lots
  <2>1. fills[o] \in Seq(FeeAssets) /\ Len(fills[o]) \in Nat
    BY DEF MarketTyped
  <2>2. life[o] \in {"absent", "open", "closed", "canceled"}
    BY DEF MarketTyped
  <2>3. CASE life[o] = "absent"
    <3>1. order[o].lots = 0 /\ fills[o] = <<>>
      BY <2>3 DEF LifeFits, Absent
    <3> QED
      BY <2>1, <3>1
  <2>4. CASE life[o] # "absent"
    <3>1. order[o].lots \in Nat
      BY <2>4, EvidenceAssumption DEF LifeFits
    <3>2. Len(fills[o]) < order[o].lots \/ Len(fills[o]) = order[o].lots
      BY <2>2, <2>4 DEF LifeFits
    <3> QED
      BY <2>1, <3>1, <3>2
  <2> QED
    BY <2>1, <2>3, <2>4
<1>2. ASSUME Judged PROVE ReportTyped(report, hints)
  <2>1. PICK given : JudgedOn(harm, hints, given) /\ report = Reconciled(Observed(harm, given))
    BY <1>2 DEF ReportInv
  <2>2. Speaks(given, hints)
    <3>1. given = {Hint(c) : c \in hints} \cup
               IF harm[1] = "hint twice" THEN {[g EXCEPT !.copy = 2] : g \in {Hint(c) : c \in hints}} ELSE {}
      BY <2>1, Zenon DEF JudgedOn
    <3>2. Speaks({Hint(c) : c \in hints} \cup
               IF harm[1] = "hint twice" THEN {[g EXCEPT !.copy = 2] : g \in {Hint(c) : c \in hints}} ELSE {}, hints)
      BY HintsSpeak, Zenon
    <3> QED
      BY <3>1, <3>2, Zenon
  <2>3. harm \in Harms
    BY <2>1, Zenon DEF JudgedOn
  <2>4. ReportTyped(Reconciled(Observed(harm, given)), hints)
    BY <2>2, <2>3, ReportTypes, Zenon
  <2> QED
    BY <2>1, <2>4, Zenon
<1> QED
  BY <1>1, <1>2 DEF AccountTypeOK, MarketTyped, OrdersTyped, ReportTyped

\* The variables hold values of their types; a report counts trades that exist,
\* and matches hints that hold an id with orders that exist (reconcile_account).
THEOREM AccountTypes ==
  AccountSpec => []AccountTypeOK
PROOF
  BY AccountInvariant, TypesOfTheAccount, PTL

-----------------------------------------------------------------------------
(* What harm leaves to be noticed                                          *)

\* A code outside Unresolving disarms.
LEMMA CodesDisarm ==
  ASSUME NEW ob, NEW code \in FactCodes(ob, Validated(ob)), code \notin Unresolving
  PROVE  Reconciled(ob).status = "DISARMED"
PROOF
  BY DEF Reconciled, Status

\* With what record harm is done.
LEMMA HarmsAre ==
  ASSUME NEW h \in Harms
  PROVE  /\ h[1] \in {"twice", "overdrawn"} => h[2] \in {"BTC", "CAD"}
         /\ h[1] \in {"lost", "lost with trades", "order twice", "of later"} => h[2] \in Placed
         /\ h[1] = "out of date" => h[2] \in Placed /\ fills[h[2]] # <<>>
         /\ h[1] \in {"lost trade", "trade twice", "turned", "outside", "of later trade"}
              => h[2] \in TradeIds
         /\ h[1] \in {"lost fee", "fee twice"} => h[2] \in TradeIds /\ FeeOf(h[2]) # None
         /\ h[1] \in {None, "incomplete", "liability", "hint twice", "twice", "overdrawn", "lost",
                      "lost with trades", "order twice", "of later", "out of date", "lost trade",
                      "trade twice", "turned", "outside", "of later trade", "lost fee", "fee twice"}
PROOF
<1>1. \A A, B : \A x \in A \X B : x[1] \in A /\ x[2] \in B
  OBVIOUS
<1>2. CASE h \in {<<None>>, <<"incomplete">>, <<"liability">>, <<"hint twice">>}
  <2>0. \A x : <<x>>[1] = x
    OBVIOUS
  <2>1. h[1] \in {None, "incomplete", "liability", "hint twice"}
    BY <1>2, <2>0, Zenon
  <2> QED
    BY <2>1 DEF None
<1>3. CASE h \in {"twice"} \X {"BTC", "CAD"} \cup {"overdrawn"} \X {"BTC", "CAD"}
  BY <1>1, <1>3
<1>4. CASE h \in {"lost", "lost with trades", "order twice", "of later"} \X Placed
  <2>1. h[1] \in {"lost", "lost with trades", "order twice", "of later"} /\ h[2] \in Placed
    BY <1>1, <1>4
  <2> QED
    BY <2>1
<1>5. CASE h \in {"out of date"} \X {o \in Placed : fills[o] # <<>>}
  <2>1. h[1] = "out of date" /\ h[2] \in {o \in Placed : fills[o] # <<>>}
    BY <1>1, <1>5
  <2> QED
    BY <2>1
<1>6. CASE h \in {"lost trade", "trade twice", "turned", "outside", "of later trade"} \X TradeIds
  <2>1. h[1] \in {"lost trade", "trade twice", "turned", "outside", "of later trade"} /\ h[2] \in TradeIds
    BY <1>1, <1>6
  <2> QED
    BY <2>1
<1>7. CASE h \in {"lost fee", "fee twice"} \X {t \in TradeIds : FeeOf(t) # None}
  <2>1. h[1] \in {"lost fee", "fee twice"} /\ h[2] \in {t \in TradeIds : FeeOf(t) # None}
    BY <1>1, <1>7
  <2> QED
    BY <2>1
<1> QED
  BY <1>2, <1>3, <1>4, <1>5, <1>6, <1>7 DEF Harms

\* Only an order that was placed was filled, and it is of one of the kinds.
LEMMA TradedIsPlaced ==
  ASSUME MarketTyped, LifeFits
  PROVE  /\ \A t \in TradeIds : t[1] \in Placed
         /\ \A o \in Placed : /\ o \in OrderIds /\ order[o] \in Kinds
                              /\ order[o].side \in {"buy", "sell"} /\ order[o].lots \in Nat \ {0}
                              /\ Len(fills[o]) \in Nat /\ Len(fills[o]) <= order[o].lots
PROOF
<1>1. ASSUME NEW t \in TradeIds PROVE t[1] \in Placed
  <2>1. t[1] \in OrderIds /\ t[2] \in 1..Len(fills[t[1]])
    BY TradesAreFinite
  <2>2. fills[t[1]] # <<>>
    BY <2>1
  <2> QED
    BY <2>1, <2>2 DEF LifeFits, Placed
<1>2. ASSUME NEW o \in Placed
      PROVE  /\ o \in OrderIds /\ order[o] \in Kinds
             /\ order[o].side \in {"buy", "sell"} /\ order[o].lots \in Nat \ {0}
             /\ Len(fills[o]) \in Nat /\ Len(fills[o]) <= order[o].lots
  <2>1. o \in OrderIds /\ order[o] \in Kinds /\ life[o] # "absent"
    BY DEF Placed, LifeFits
  <2>2. Len(fills[o]) \in Nat
    BY <2>1 DEF MarketTyped
  <2>3. order[o].side \in {"buy", "sell"} /\ order[o].lots \in Nat \ {0}
    BY <2>1, EvidenceAssumption
  <2>4. Len(fills[o]) < order[o].lots \/ Len(fills[o]) = order[o].lots
    BY <2>1 DEF LifeFits, MarketTyped
  <2> QED
    BY <2>1, <2>2, <2>3, <2>4
<1> QED
  BY <1>1, <1>2

LEMMA CopiesDiffer ==
  ASSUME NEW f, NEW g, f.copy = 2, g.copy = 1
  PROVE  f # g
PROOF
  OBVIOUS

\* A record with a copy is repeated.
LEMMA CopiesRepeat ==
  ASSUME NEW S, NEW x \in S, x.copy = 1,
         [x EXCEPT !.copy = 2].copy = 2, [x EXCEPT !.copy = 2].id = x.id
  PROVE  Repeated(Copies(S, x.id)) # {}
PROOF
<1> DEFINE y == [x EXCEPT !.copy = 2]
<1>1. x \in Copies(S, x.id) /\ y \in Copies(S, x.id)
  BY DEF Copies
<1>2. y.id = x.id /\ y.copy = 2
  OBVIOUS
<1> HIDE DEF y
<1>3. y # x
  BY <1>2
<1>4. x.id \in Repeated(Copies(S, x.id))
  BY <1>1, <1>2, <1>3 DEF Repeated
<1> QED
  BY <1>4

\* A balance given twice or overdrawn, and a liability.
LEMMA BalanceHarmIsNoticed ==
  ASSUME NEW h \in Harms, h[1] \in {"twice", "overdrawn", "liability"}, NEW given
  PROVE  Reconciled(Observed(h, given)).status = "DISARMED"
PROOF
<1> PICK ob : ob = Observed(h, given)
  OBVIOUS
<1> PICK S : S = ObservedBalances
  OBVIOUS
<1>1. /\ ob.balances = HarmedBalances(S, h)
      /\ ob.liabilities = IF h[1] = "liability" THEN {[id |-> "CAD", copy |-> 1, amount |-> 1]} ELSE {}
  BY DEF Observed, Harmed, Seen
<1>2. h[1] \in {"twice", "overdrawn"} =>
        \E x \in S : /\ x.id = h[2] /\ x.copy = 1
                     /\ [x EXCEPT !.copy = 2].copy = 2 /\ [x EXCEPT !.copy = 2].id = x.id
                     /\ [x EXCEPT !.available = -1].available = -1
  <2> SUFFICES ASSUME h[1] \in {"twice", "overdrawn"}
               PROVE  \E x \in S : /\ x.id = h[2] /\ x.copy = 1
                        /\ [x EXCEPT !.copy = 2].copy = 2 /\ [x EXCEPT !.copy = 2].id = x.id
                        /\ [x EXCEPT !.available = -1].available = -1
    OBVIOUS
  <2>1. h[2] \in {"BTC", "CAD"}
    BY HarmsAre
  <2>2. \E x \in S : \E a, b : x = [id |-> h[2], copy |-> 1, available |-> a, held |-> b]
    BY <2>1 DEF ObservedBalances
  <2> QED
    BY <2>2
<1>3. CASE h[1] = "twice"
  <2>1. PICK x \in S : /\ x.id = h[2] /\ x.copy = 1
                       /\ [x EXCEPT !.copy = 2].copy = 2 /\ [x EXCEPT !.copy = 2].id = x.id
    BY <1>2, <1>3
  <2>2. ob.balances = Copies(S, x.id)
    BY <1>1, <1>3, <2>1 DEF HarmedBalances
  <2>3. Repeated(ob.balances) # {}
    BY <2>1, <2>2, CopiesRepeat
  <2>4. "duplicate_balance_asset" \in FactCodes(ob, Validated(ob))
    BY <2>3 DEF FactCodes, BalanceCodes, When
  <2> QED
    BY <2>4, CodesDisarm DEF Unresolving
<1>4. CASE h[1] = "overdrawn"
  <2>1. PICK x \in S : x.id = h[2] /\ [x EXCEPT !.available = -1].available = -1
    BY <1>2, <1>4
  <2>2. [x EXCEPT !.available = -1] \in ob.balances
    BY <1>1, <1>4, <2>1 DEF HarmedBalances
  <2>3. \E b \in ob.balances : b.available < 0 \/ b.held < 0
    <3>1. \E b \in ob.balances : b.available = -1
      BY <2>1, <2>2
    <3>2. -1 < 0
      OBVIOUS
    <3> QED
      BY <3>1, <3>2
  <2>4. "negative_balance" \in FactCodes(ob, Validated(ob))
    BY <2>3 DEF FactCodes, BalanceCodes, When
  <2> QED
    BY <2>4, CodesDisarm DEF Unresolving
<1>5. CASE h[1] = "liability"
  <2>1. \E l \in ob.liabilities : l.amount > 0
    BY <1>1, <1>5
  <2>2. "nonzero_liability" \in FactCodes(ob, Validated(ob))
    BY <2>1 DEF FactCodes, LiabilityCodes, When
  <2> QED
    BY <2>2, CodesDisarm DEF Unresolving
<1> QED
  BY <1>3, <1>4, <1>5

\* An order given twice, and one of a time after the observation.
LEMMA OrderHarmIsNoticed ==
  ASSUME NEW h \in Harms, h[1] \in {"order twice", "of later"}, NEW given
  PROVE  Reconciled(Observed(h, given)).status = "DISARMED"
PROOF
<1> PICK ob : ob = Observed(h, given)
  OBVIOUS
<1> PICK S : S = {ObservedOrder(o, Len(fills[o])) : o \in Placed}
  OBVIOUS
<1>1. ob.orders = HarmedOrders(S, h)
  BY DEF Observed, Harmed, Seen
<1>2. PICK x \in S : x = ObservedOrder(h[2], Len(fills[h[2]]))
  BY HarmsAre
<1>3. /\ x.id = h[2] /\ x.copy = 1
      /\ [x EXCEPT !.copy = 2].copy = 2 /\ [x EXCEPT !.copy = 2].id = x.id
      /\ [x EXCEPT !.timely = FALSE].timely = FALSE
  BY <1>2 DEF ObservedOrder
<1>4. CASE h[1] = "order twice"
  <2>1. ob.orders = Copies(S, x.id)
    BY <1>1, <1>3, <1>4 DEF HarmedOrders
  <2>2. Repeated(ob.orders) # {}
    BY <1>3, <2>1, CopiesRepeat
  <2>3. "duplicate_order_id" \in FactCodes(ob, Validated(ob))
    BY <2>2 DEF FactCodes, OrderCodes, When
  <2> QED
    BY <2>3, CodesDisarm DEF Unresolving
<1>5. CASE h[1] = "of later"
  <2>1. [x EXCEPT !.timely = FALSE] \in ob.orders
    BY <1>1, <1>3, <1>5 DEF HarmedOrders
  <2>2. \E o \in ob.orders : ~SoundOrder(o)
    BY <1>3, <2>1 DEF SoundOrder
  <2>3. "invalid_order" \in FactCodes(ob, Validated(ob))
    BY <2>2 DEF FactCodes, OrderCodes, When
  <2> QED
    BY <2>3, CodesDisarm DEF Unresolving
<1> QED
  BY <1>4, <1>5

\* A fee given twice, and a hint.
LEMMA RepetitionIsNoticed ==
  ASSUME NEW h \in Harms, NEW C, NEW given, JudgedOn(h, C, given),
         h[1] = "fee twice" \/ (h[1] = "hint twice" /\ C # {})
  PROVE  Reconciled(Observed(h, given)).status = "DISARMED"
PROOF
<1> PICK ob : ob = Observed(h, given)
  OBVIOUS
<1>1. CASE h[1] = "fee twice"
  <2> PICK S : S = {ObservedFee(t) : t \in {u \in TradeIds : FeeOf(u) # None}}
    OBVIOUS
  <2>1. ob.fees = Copies(S, h[2])
    BY <1>1 DEF Observed, Harmed, Seen, HarmedFees
  <2>2. PICK x \in S : x = ObservedFee(h[2])
    BY <1>1, HarmsAre
  <2>3. /\ x.id = h[2] /\ x.copy = 1
        /\ [x EXCEPT !.copy = 2].copy = 2 /\ [x EXCEPT !.copy = 2].id = x.id
    BY <2>2 DEF ObservedFee
  <2>4. Repeated(ob.fees) # {}
    BY <2>1, <2>3, CopiesRepeat
  <2>5. "duplicate_fee_id" \in FactCodes(ob, Validated(ob))
    BY <2>4 DEF FactCodes, FeeCodes, When
  <2> QED
    BY <2>5, CodesDisarm DEF Unresolving
<1>2. CASE h[1] = "hint twice" /\ C # {}
  <2>1. PICK c \in C : TRUE
    BY <1>2
  <2>2. given = {Hint(d) : d \in C} \cup {[g EXCEPT !.copy = 2] : g \in {Hint(d) : d \in C}}
    BY <1>2 DEF JudgedOn
  <2>3. ob.hints = given
    BY DEF Observed, Harmed
  <2>4. PICK g \in {Hint(d) : d \in C} : g = Hint(c)
    OBVIOUS
  <2>5. PICK f : f = [g EXCEPT !.copy = 2]
    OBVIOUS
  <2>6. g \in ob.hints /\ f \in ob.hints
    BY <2>2, <2>3, <2>5
  <2>7. g.copy = 1 /\ f.copy = 2 /\ f.id = g.id
    BY <2>4, <2>5 DEF Hint
  <2>8. f # g
    BY <2>7, CopiesDiffer, Zenon
  <2>9. Repeated(ob.hints) # {}
    BY <2>6, <2>7, <2>8 DEF Repeated
  <2>10. "duplicate_legacy_hint_id" \in FactCodes(ob, Validated(ob))
    BY <2>9 DEF FactCodes, HintCodes, When
  <2> QED
    BY <2>10, CodesDisarm DEF Unresolving
<1> QED
  BY <1>1, <1>2

\* An order that every placed order's record is of.
LEMMA OrderFound ==
  ASSUME NEW ob, ob.orders = {ObservedOrder(q, Len(fills[q])) : q \in Placed},
         NEW t, t.order \in Placed
  PROVE  /\ OrderOf(ob, t) = ObservedOrder(t.order, Len(fills[t.order]))
         /\ t.order \in Ids(ob.orders)
PROOF
<1> PICK x : x = ObservedOrder(t.order, Len(fills[t.order]))
  OBVIOUS
<1>1. x \in ob.orders /\ x.id = t.order
  BY DEF ObservedOrder
<1>2. ASSUME NEW y \in ob.orders, y.id = t.order PROVE y = x
  <2>1. PICK q \in Placed : y = ObservedOrder(q, Len(fills[q]))
    OBVIOUS
  <2>2. y.id = q
    BY <2>1 DEF ObservedOrder
  <2> QED
    BY <1>2, <2>1, <2>2
<1>3. OrderOf(ob, t) = x
  BY <1>1, <1>2 DEF OrderOf
<1> QED
  BY <1>1, <1>3 DEF Ids

LEMMA LotsAreSound ==
  ASSUME NEW t, t.qty = Lot, t.timely = TRUE
  PROVE  SoundTrade(t)
PROOF
  BY DEF SoundTrade, Lot

\* A trade given twice, one of a time after the observation, and one that
\* contradicts its order.
LEMMA TradeHarmIsNoticed ==
  ASSUME MarketTyped, LifeFits,
         NEW h \in Harms, h[1] \in {"trade twice", "of later trade", "turned", "outside"}, NEW given
  PROVE  Reconciled(Observed(h, given)).status = "DISARMED"
PROOF
<1> PICK ob : ob = Observed(h, given)
  OBVIOUS
<1> PICK S : S = {ObservedTrade(t) : t \in TradeIds}
  OBVIOUS
<1>1. ob.trades = HarmedTrades(S, h)
  BY DEF Observed, Harmed, Seen
<1>2. h[2] \in TradeIds
  BY HarmsAre
<1>3. PICK x \in S : x = ObservedTrade(h[2])
  BY <1>2
<1>4. /\ x.id = h[2] /\ x.copy = 1 /\ x.order = h[2][1] /\ x.side = order[h[2][1]].side
      /\ x.qty = Lot /\ x.timely = TRUE
      /\ [x EXCEPT !.copy = 2].copy = 2 /\ [x EXCEPT !.copy = 2].id = x.id
      /\ [x EXCEPT !.timely = FALSE].timely = FALSE
  BY <1>3 DEF ObservedTrade
<1>5. CASE h[1] = "trade twice"
  <2>1. ob.trades = Copies(S, x.id)
    BY <1>1, <1>4, <1>5 DEF HarmedTrades
  <2>2. Repeated(ob.trades) # {}
    BY <1>4, <2>1, CopiesRepeat
  <2>3. "duplicate_trade_id" \in FactCodes(ob, Validated(ob))
    BY <2>2 DEF FactCodes, TradeCodes, When
  <2> QED
    BY <2>3, CodesDisarm DEF Unresolving
<1>6. CASE h[1] = "of later trade"
  <2>1. [x EXCEPT !.timely = FALSE] \in ob.trades
    BY <1>1, <1>4, <1>6 DEF HarmedTrades
  <2>2. {t \in ob.trades : SoundTrade(t)} # ob.trades
    BY <1>4, <2>1 DEF SoundTrade
  <2>3. "invalid_trade" \in FactCodes(ob, Validated(ob))
    BY <2>2 DEF FactCodes, TradeCodes, When
  <2> QED
    BY <2>3, CodesDisarm DEF Unresolving
<1>7. CASE h[1] \in {"turned", "outside"}
  <2>1. PICK y \in ob.trades :
          y = IF h[1] = "turned" THEN [x EXCEPT !.side = Turned(@)] ELSE [x EXCEPT !.within = FALSE]
    BY <1>1, <1>4, <1>7 DEF HarmedTrades
  <2>2. /\ y.order = h[2][1] /\ y.qty = Lot /\ y.timely = TRUE
        /\ h[1] = "turned" => y.side = Turned(order[h[2][1]].side)
        /\ h[1] = "outside" => y.within = FALSE
    BY <1>3, <1>7, <2>1 DEF ObservedTrade
  <2>3. y.order \in Placed /\ order[y.order].side \in {"buy", "sell"}
    BY <1>2, <2>2, TradedIsPlaced
  <2>4. ob.orders = {ObservedOrder(q, Len(fills[q])) : q \in Placed}
    BY <1>7 DEF Observed, Harmed, Seen, HarmedOrders
  <2>5. OrderOf(ob, y) = ObservedOrder(y.order, Len(fills[y.order])) /\ y.order \in Ids(ob.orders)
    BY <2>3, <2>4, OrderFound
  <2>6. OrderOf(ob, y).side = order[y.order].side
    <3>1. \A p, n : ObservedOrder(p, n).side = order[p].side
      BY DEF ObservedOrder
    <3> QED
      BY <2>5, <3>1, Zenon
  <2>7. y.side # OrderOf(ob, y).side \/ ~y.within
    BY <1>7, <2>2, <2>3, <2>6 DEF Turned
  <2>8. Disagrees(ob, y)
    BY <2>7 DEF Disagrees
  <2>9. SoundTrade(y)
    BY <2>2, LotsAreSound, Zenon
  <2>10. \E t \in {u \in {w \in ob.trades : SoundTrade(w)} : u.order \in Ids(ob.orders)} : Disagrees(ob, t)
    BY <2>5, <2>8, <2>9
  <2>11. "inconsistent_trade" \in FactCodes(ob, Validated(ob))
    BY <2>10 DEF FactCodes, TradeCodes, When
  <2> QED
    BY <2>11, CodesDisarm DEF Unresolving
<1> QED
  BY <1>5, <1>6, <1>7

LEMMA BalancesFound ==
  ASSUME NEW ob, ob.balances = ObservedBalances
  PROVE  /\ BalanceOf(ob, "BTC").available = Holding("BTC") - Held("sell")
         /\ BalanceOf(ob, "BTC").held = Held("sell")
         /\ BalanceOf(ob, "CAD").held = Held("buy")
PROOF
<1> PICK x : x = [id |-> "BTC", copy |-> 1, available |-> Holding("BTC") - Held("sell"), held |-> Held("sell")]
  OBVIOUS
<1> PICK y : y = [id |-> "CAD", copy |-> 1, available |-> 0, held |-> Held("buy")]
  OBVIOUS
<1> PICK z : z = [id |-> "ETH", copy |-> 1, available |-> Holding("ETH"), held |-> 0]
  OBVIOUS
<1>1. ob.balances = {x, y} \/ ob.balances = {x, y, z}
  BY DEF ObservedBalances
<1>2. x.id = "BTC" /\ y.id = "CAD" /\ z.id = "ETH"
  OBVIOUS
<1>3. BalanceOf(ob, "BTC") = x
  <2>1. x \in ob.balances /\ \A b \in ob.balances : b.id = "BTC" => b = x
    BY <1>1, <1>2
  <2>2. "BTC" \in Ids(ob.balances)
    BY <1>2, <2>1 DEF Ids
  <2>3. (CHOOSE b \in ob.balances : b.id = "BTC") = x
    BY <1>2, <2>1
  <2> QED
    BY <2>2, <2>3 DEF BalanceOf
<1>4. BalanceOf(ob, "CAD") = y
  <2>1. y \in ob.balances /\ \A b \in ob.balances : b.id = "CAD" => b = y
    BY <1>1, <1>2
  <2>2. "CAD" \in Ids(ob.balances)
    BY <1>2, <2>1 DEF Ids
  <2>3. (CHOOSE b \in ob.balances : b.id = "CAD") = y
    BY <1>2, <2>1
  <2> QED
    BY <2>2, <2>3 DEF BalanceOf
<1> QED
  BY <1>3, <1>4

\* Unless a balance is harmed, the BTC of a report are those that are held.
LEMMA BTCFound ==
  ASSUME MarketTyped, LifeFits, NEW ob, ob.balances = ObservedBalances
  PROVE  BTC(ob) = Holding("BTC")
PROOF
<1>1. Holding("BTC") \in Int /\ Held("sell") \in Int
  BY BTCIsANumber, HeldIsForOrders
<1>2. BTC(ob) = (Holding("BTC") - Held("sell")) + Held("sell")
  BY BalancesFound DEF BTC
<1>3. \A a, b \in Int : (a - b) + b = a
  OBVIOUS
<1> QED
  BY <1>1, <1>2, <1>3

\* A history that is not complete explains no BTC.
LEMMA IncompletenessIsNoticed ==
  ASSUME MarketTyped, LifeFits, NEW h, h[1] = "incomplete", NEW given, Holding("BTC") # 0
  PROVE  Reconciled(Observed(h, given)).status # "CLEAN"
PROOF
<1> PICK ob : ob = Observed(h, given)
  OBVIOUS
<1>1. ob.complete = FALSE /\ ob.balances = ObservedBalances
  BY DEF Observed, Harmed, Seen, HarmedBalances
<1>2. BTC(ob) # 0
  BY <1>1, BTCFound
<1>3. "incomplete_inventory_provenance" \in Inventory(FALSE, BTC(ob), LegacyNet(ob, Validated(ob)), FactCodes(ob, Validated(ob)))[2]
  BY <1>2 DEF Inventory
<1>4. "incomplete_inventory_provenance" \in
        FactCodes(ob, Validated(ob)) \cup Inventory(ob.complete, BTC(ob), LegacyNet(ob, Validated(ob)), FactCodes(ob, Validated(ob)))[2]
  BY <1>1, <1>3
<1>5. ASSUME NEW codes, "incomplete_inventory_provenance" \in codes PROVE Status(codes) # "CLEAN"
  BY <1>5 DEF Status
<1> QED
  BY <1>4, <1>5 DEF Reconciled

\* An order that is missing is noticed by its trades, or by what it holds.
LEMMA LossIsNoticed ==
  ASSUME MarketTyped, LifeFits, NEW h \in Harms, NEW given,
         \/ h[1] = "lost" /\ fills[h[2]] # <<>>
         \/ /\ h[1] \in {"lost", "lost with trades"} /\ HoldsAlone(h[2])
            /\ PairName(order[h[2]]) = Pair
  PROVE  Reconciled(Observed(h, given)).status = "DISARMED"
PROOF
<1> PICK ob : ob = Observed(h, given)
  OBVIOUS
<1>1. h[2] \in Placed
  BY HarmsAre
<1>2. ob.orders = Without({ObservedOrder(o, Len(fills[o])) : o \in Placed}, h[2])
  BY DEF Observed, Harmed, Seen, HarmedOrders
<1>3. CASE h[1] = "lost" /\ fills[h[2]] # <<>>
  <2>1. ob.trades = {ObservedTrade(t) : t \in TradeIds}
    BY <1>3 DEF Observed, Harmed, Seen, HarmedTrades
  <2>2. 1 \in 1..Len(fills[h[2]]) /\ h[2] \in OrderIds
    <3>1. h[2] \in OrderIds
      BY <1>1 DEF Placed
    <3>2. fills[h[2]] \in Seq(FeeAssets)
      BY <3>1 DEF MarketTyped
    <3> QED
      BY <1>3, <3>1, <3>2
  <2>3. <<h[2], 1>> \in TradeIds
    BY <2>2, TradesAreFinite
  <2>4. PICK x \in ob.trades : x = ObservedTrade(<<h[2], 1>>)
    BY <2>1, <2>3
  <2>5. x.order = h[2] /\ x.qty = Lot /\ x.timely = TRUE
    BY <2>4 DEF ObservedTrade
  <2>6. SoundTrade(x)
    BY <2>5, LotsAreSound, Zenon
  <2>7. x.order \notin Ids(ob.orders)
    BY <1>2, <2>5 DEF Ids, Without
  <2>8. {t \in {u \in ob.trades : SoundTrade(u)} : t.order \in Ids(ob.orders)} # {t \in ob.trades : SoundTrade(t)}
    BY <2>6, <2>7
  <2>9. "unknown_trade_order" \in FactCodes(ob, Validated(ob))
    BY <2>8 DEF FactCodes, TradeCodes, When
  <2> QED
    BY <2>9, CodesDisarm DEF Unresolving
<1>4. CASE /\ h[1] \in {"lost", "lost with trades"} /\ HoldsAlone(h[2])
           /\ PairName(order[h[2]]) = Pair
  <2> PICK side : side = order[h[2]].side
    OBVIOUS
  <2>1. side \in {"buy", "sell"}
    BY <1>1, TradedIsPlaced
  <2>2. h[2] \in Sells(side)
    <3>1. order[h[2]].pair = <<"BTC", "CAD">>
      BY <1>4 DEF PairName, Pair
    <3> QED
      BY <1>1, <1>4, <3>1 DEF Sells, HoldsAlone, Placed
  <2>3. Held(side) > 0
    BY <2>2, HeldIsForOrders
  <2>4. ob.balances = ObservedBalances
    BY <1>4 DEF Observed, Harmed, Seen, HarmedBalances
  <2>5. PICK a \in Assets : HeldBy(a) = side /\ BalanceOf(ob, a).held = Held(side)
    BY <2>1, <2>4, BalancesFound DEF Assets, HeldBy
  <2>6. ASSUME NEW x \in ob.orders, IsOpen(x), x.side = side PROVE FALSE
    <3>1. PICK p \in Placed : x = ObservedOrder(p, Len(fills[p])) /\ x.id # h[2]
      BY <1>2 DEF Without
    <3>2. x.id = p /\ x.side = order[p].side /\ x.state = OrderState(p, Len(fills[p]))
      BY <3>1 DEF ObservedOrder
    <3>3. life[p] = "open"
      BY <2>6, <3>2 DEF IsOpen, OrderState
    <3> QED
      BY <1>4, <2>6, <3>1, <3>2, <3>3 DEF HoldsAlone
  <2>7. \E b \in Assets : /\ BalanceOf(ob, b).held > 0
                          /\ ~\E o \in ob.orders : IsOpen(o) /\ o.side = HeldBy(b)
    BY <2>3, <2>5, <2>6
  <2>8. "unexplained_held_balance" \in FactCodes(ob, Validated(ob))
    BY <2>7 DEF FactCodes, HeldCodes, When
  <2> QED
    BY <2>8, CodesDisarm DEF Unresolving
<1> QED
  BY <1>3, <1>4

\* As many records as there are things they are of.
LEMMA ImageSize ==
  ASSUME NEW S, IsFiniteSet(S), NEW f, DOMAIN f = S, \A x, y \in S : f[x] = f[y] => x = y
  PROVE  IsFiniteSet({f[x] : x \in S}) /\ Cardinality({f[x] : x \in S}) = Cardinality(S)
PROOF
<1> DEFINE T == {f[x] : x \in S}
           g == [x \in S |-> f[x]]
<1>1. g \in [S -> T] /\ \A x \in S : g[x] = f[x]
  OBVIOUS
<1>2. \A y \in T : \E x \in S : f[x] = y
  OBVIOUS
<1> HIDE DEF g, T
<1>3. g \in Bijection(S, T)
  <2>1. \A x, y \in S : g[x] = g[y] => x = y
    BY <1>1
  <2>2. \A y \in T : \E x \in S : g[x] = y
    BY <1>1, <1>2
  <2> QED
    BY <1>1, <2>1, <2>2, Zenon DEF Bijection, Injection, Surjection, IsInjective
<1>4. ExistsBijection(S, T)
  BY <1>3 DEF ExistsBijection
<1> QED
  BY <1>4, FS_Bijection DEF T

LEMMA RecordsOfTrades ==
  ASSUME NEW P, IsFiniteSet(P)
  PROVE  /\ IsFiniteSet({ObservedTrade(t) : t \in P})
         /\ Cardinality({ObservedTrade(t) : t \in P}) = Cardinality(P)
PROOF
<1> DEFINE f == [t \in P |-> ObservedTrade(t)]
<1>1. \A t \in P : f[t] = ObservedTrade(t)
  OBVIOUS
<1>2. \A t : ObservedTrade(t).id = t
  BY DEF ObservedTrade
<1>3. {f[t] : t \in P} = {ObservedTrade(t) : t \in P}
  BY <1>1
<1>4. DOMAIN f = P
  OBVIOUS
<1> HIDE DEF f
<1>5. \A t, u \in P : f[t] = f[u] => t = u
  <2> SUFFICES ASSUME NEW t \in P, NEW u \in P, f[t] = f[u] PROVE t = u
    OBVIOUS
  <2>1. f[t].id = t /\ f[u].id = u
    BY <1>1, <1>2
  <2> QED
    BY <2>1
<1>6. IsFiniteSet({f[t] : t \in P}) /\ Cardinality({f[t] : t \in P}) = Cardinality(P)
  BY <1>4, <1>5, ImageSize
<1> QED
  BY <1>3, <1>6

LEMMA VolumeOfLots ==
  ASSUME NEW S, IsFiniteSet(S), \A t \in S : t.qty = Lot
  PROVE  Volume(S) = Lot * Cardinality(S)
PROOF
<1> PICK F : F = [t \in S |-> Lot]
  OBVIOUS
<1> DEFINE It(f) == f = [s \in SUBSET S |->
                          IF s = {} THEN 0
                          ELSE (CHOOSE x \in s : TRUE).qty + f[s \ {CHOOSE x \in s : TRUE}]]
<1>1. Volume(S) = (CHOOSE f : It(f))[S]
  BY DEF Volume, MapThenSumSet, MapThenFoldSet
<1>2. \A s \in SUBSET S : s # {} => F[Some(s)] = (CHOOSE x \in s : TRUE).qty
  <2>1. \A s \in SUBSET S : s # {} => Some(s) \in S
    BY DEF Some
  <2>2. \A x \in S : F[x] = x.qty
    OBVIOUS
  <2> QED
    BY <2>1, <2>2 DEF Some
<1>3. \A f : It(f) <=> Adds(F, S, f)
  BY <1>2 DEF Adds, Some
<1> HIDE DEF It
<1>4. (CHOOSE f : It(f)) = (CHOOSE f : Adds(F, S, f))
  BY <1>3, Zenon
<1>5. Volume(S) = Total(F, S)
  BY <1>1, <1>4 DEF Total
<1>6. Total(F, S) = Lot * Cardinality(S) - Lot * Cardinality(S \ S)
  <2>1. F \in [S -> Int] /\ Lot \in Int /\ \A x \in S : F[x] = Lot
    BY DEF Lot
  <2>2. \A x \in S \ S : F[x] = -Lot
    OBVIOUS
  <2> QED
    BY <2>1, <2>2, TotalOfEqual
<1>7. Cardinality(S \ S) = 0 /\ Cardinality(S) \in Nat
  BY FS_EmptySet, FS_CardinalityType
<1> QED
  BY <1>5, <1>6, <1>7 DEF Lot

\* The records of the trades P.
Recorded(P) == {ObservedTrade(t) : t \in P}

LEMMA RecordedVolume ==
  ASSUME NEW P, IsFiniteSet(P)
  PROVE  Volume(Recorded(P)) = Lot * Cardinality(P)
PROOF
<1> DEFINE S == {ObservedTrade(t) : t \in P}
<1>1. IsFiniteSet(S) /\ Cardinality(S) = Cardinality(P)
  BY RecordsOfTrades
<1>2. \A t \in S : t.qty = Lot
  BY DEF ObservedTrade
<1> HIDE DEF S
<1>3. Volume(S) = Lot * Cardinality(S)
  BY <1>1, <1>2, VolumeOfLots
<1> QED
  BY <1>1, <1>3 DEF S, Recorded

LEMMA RecordsOf ==
  ASSUME NEW P, NEW x
  PROVE  Of(Recorded(P), x) = Recorded({t \in P : t[1] = x.id})
PROOF
<1>1. \A t : ObservedTrade(t).order = t[1]
  BY DEF ObservedTrade
<1> QED
  BY <1>1 DEF Of, Recorded

LEMMA RecordsWithout ==
  ASSUME NEW P, NEW id
  PROVE  Without(Recorded(P), id) = Recorded(P \ {id})
PROOF
<1>1. \A t : ObservedTrade(t).id = t
  BY DEF ObservedTrade
<1> QED
  BY <1>1 DEF Without, Recorded

LEMMA LotsDiffer ==
  ASSUME NEW n \in Nat
  PROVE  Lot * n # Lot * (n - 1)
PROOF
  BY DEF Lot

LEMMA OneLess ==
  ASSUME NEW T, IsFiniteSet(T), NEW c \in T
  PROVE  IsFiniteSet(T \ {c}) /\ Cardinality(T \ {c}) = Cardinality(T) - 1
PROOF
  BY FS_RemoveElement

\* The trades of one order.
LEMMA TradesOfOrders ==
  ASSUME MarketTyped, NEW o \in OrderIds
  PROVE  /\ IsFiniteSet({t \in TradeIds : t[1] = o})
         /\ Cardinality({t \in TradeIds : t[1] = o}) = Len(fills[o])
PROOF
<1>1. Len(fills[o]) \in Nat
  BY DEF MarketTyped
<1> DEFINE N == 1..Len(fills[o])
           f == [n \in N |-> <<o, n>>]
<1>2. IsFiniteSet(N) /\ Cardinality(N) = Len(fills[o])
  BY <1>1, FirstNumbers
<1>3. {t \in TradeIds : t[1] = o} = {<<o, n>> : n \in N}
  BY TradesAreFinite
<1>4. {f[n] : n \in N} = {<<o, n>> : n \in N} /\ DOMAIN f = N /\ \A m, n \in N : f[m] = f[n] => m = n
  OBVIOUS
<1> HIDE DEF N, f
<1>5. IsFiniteSet({f[n] : n \in N}) /\ Cardinality({f[n] : n \in N}) = Cardinality(N)
  BY <1>2, <1>4, ImageSize
<1> QED
  BY <1>2, <1>3, <1>4, <1>5

\* What a report that does not disarm is made on: every order and every trade is
\* valid, and an order is filled as far as its trades.
LEMMA AllAreValid ==
  ASSUME NEW ob, Reconciled(ob).status # "DISARMED"
  PROVE  /\ Validated(ob).orders = ob.orders /\ Validated(ob).trades = ob.trades
         /\ \A o \in ob.orders : Volume(Of(ob.trades, o)) = o.filled
PROOF
<1> PICK v : v = Validated(ob)
  OBVIOUS
<1>1. \A code \in FactCodes(ob, v) : code \in Unresolving
  BY CodesDisarm
<1>2. OrderCodes(ob) \subseteq Unresolving /\ TradeCodes(ob) \subseteq Unresolving /\ FillCodes(v) \subseteq Unresolving
  BY <1>1 DEF FactCodes
<1>3. /\ Repeated(ob.orders) = {} /\ RepeatedClients(ob.orders) = {}
      /\ \A o \in ob.orders : o.pair = Pair /\ SoundOrder(o)
  BY <1>2 DEF OrderCodes, When, Unresolving
<1>4. v.orders = ob.orders
  BY <1>3 DEF Validated, ValidOrders
<1>5. PICK sound : sound = {t \in ob.trades : SoundTrade(t)}
  OBVIOUS
<1>6. PICK linked : linked = {t \in sound : t.order \in Ids(ob.orders)}
  OBVIOUS
<1>7. /\ Repeated(ob.trades) = {} /\ \A t \in ob.trades : t.pair = Pair
      /\ sound = ob.trades /\ linked = sound /\ \A t \in linked : ~Disagrees(ob, t)
  BY <1>2, <1>5, <1>6 DEF TradeCodes, When, Unresolving
<1>8. v.trades = ValidTrades(ob, ob.orders)
  BY <1>4 DEF Validated
<1>9. v.trades = ob.trades
  BY <1>5, <1>6, <1>7, <1>8 DEF ValidTrades
<1>10. \A o \in v.orders : Volume(Of(v.trades, o)) = o.filled
  BY <1>2 DEF FillCodes, When, Unresolving
<1> QED
  BY <1>4, <1>9, <1>10

\* An order that is out of date, and a trade that is missing.
LEMMA StalenessIsNoticed ==
  ASSUME MarketTyped, LifeFits, NEW h \in Harms, h[1] \in {"out of date", "lost trade"}, NEW given
  PROVE  Reconciled(Observed(h, given)).status = "DISARMED"
PROOF
<1> PICK ob : ob = Observed(h, given)
  OBVIOUS
<1> SUFFICES ASSUME Reconciled(ob).status # "DISARMED" PROVE FALSE
  OBVIOUS
<1>1. \A x \in ob.orders : Volume(Of(ob.trades, x)) = x.filled
  BY AllAreValid
<1> PICK o : o = IF h[1] = "out of date" THEN h[2] ELSE h[2][1]
  OBVIOUS
<1>2. o \in Placed /\ o \in OrderIds
  BY HarmsAre, TradedIsPlaced DEF Placed
<1> PICK n : n = Len(fills[o])
  OBVIOUS
<1>3. n \in Nat
  BY <1>2, TradedIsPlaced
<1> PICK T : T = {t \in TradeIds : t[1] = o}
  OBVIOUS
<1>4. IsFiniteSet(T) /\ Cardinality(T) = n
  BY <1>2, TradesOfOrders
<1>5. \A p, k : ObservedOrder(p, k).id = p /\ ObservedOrder(p, k).filled = Lot * k
  BY DEF ObservedOrder
<1>6. CASE h[1] = "out of date"
  <2>1. PICK x \in ob.orders : x = ObservedOrder(o, n - 1)
    BY <1>6 DEF Observed, Harmed, Seen, HarmedOrders
  <2>2. ob.trades = Recorded(TradeIds)
    BY <1>6 DEF Observed, Harmed, Seen, HarmedTrades, Recorded
  <2>3. x.id = o /\ x.filled = Lot * (n - 1)
    BY <1>5, <2>1
  <2>4. Of(ob.trades, x) = Recorded(T)
    <3>1. {t \in TradeIds : t[1] = x.id} = T
      BY <2>3
    <3>2. Of(Recorded(TradeIds), x) = Recorded({t \in TradeIds : t[1] = x.id})
      BY RecordsOf
    <3> QED
      BY <2>2, <3>1, <3>2, Zenon
  <2>5. Volume(Of(ob.trades, x)) = Lot * n
    BY <1>4, <2>4, RecordedVolume, Zenon
  <2>6. Lot * n = Lot * (n - 1)
    BY <1>1, <2>3, <2>5, Zenon
  <2> QED
    BY <1>3, <2>6, LotsDiffer, Zenon
<1>7. CASE h[1] = "lost trade"
  <2>1. PICK x \in ob.orders : x = ObservedOrder(o, n)
    BY <1>2, <1>7 DEF Observed, Harmed, Seen, HarmedOrders
  <2>2. ob.trades = Without(Recorded(TradeIds), h[2])
    BY <1>7 DEF Observed, Harmed, Seen, HarmedTrades, Recorded
  <2>3. ob.trades = Recorded(TradeIds \ {h[2]})
    BY <2>2, RecordsWithout, Zenon
  <2>4. x.id = o /\ x.filled = Lot * n
    BY <1>5, <2>1
  <2>5. {t \in TradeIds \ {h[2]} : t[1] = x.id} = T \ {h[2]}
    BY <2>4
  <2>6. Of(ob.trades, x) = Recorded(T \ {h[2]})
    <3> PICK U : U = TradeIds \ {h[2]}
      OBVIOUS
    <3>1. Of(Recorded(U), x) = Recorded({t \in U : t[1] = x.id})
      BY RecordsOf
    <3>2. {t \in U : t[1] = x.id} = T \ {h[2]} /\ ob.trades = Recorded(U)
      BY <2>3, <2>5
    <3> QED
      BY <3>1, <3>2
  <2>7. h[2] \in T
    BY <1>7, HarmsAre
  <2>8. IsFiniteSet(T \ {h[2]}) /\ Cardinality(T \ {h[2]}) = n - 1
    BY <1>4, <2>7, OneLess, Zenon
  <2>9. Volume(Of(ob.trades, x)) = Lot * (n - 1)
    BY <2>6, <2>8, RecordedVolume, Zenon
  <2>10. Lot * n = Lot * (n - 1)
    BY <1>1, <2>4, <2>9, Zenon
  <2> QED
    BY <1>3, <2>10, LotsDiffer, Zenon
<1> QED
  BY <1>6, <1>7

LEMMA NoticedHarm ==
  AccountInv => HarmIsNoticed
PROOF
<1> SUFFICES ASSUME MarketTyped, LifeFits, ReportInv, Judged
             PROVE  /\ harm[1] \notin {None, "lost", "lost with trades", "lost fee", "incomplete", "hint twice"}
                         => report.status = "DISARMED"
                    /\ harm[1] = "hint twice" /\ hints # {} => report.status = "DISARMED"
                    /\ harm[1] = "lost" /\ fills[harm[2]] # <<>> => report.status = "DISARMED"
                    /\ harm[1] \in {"lost", "lost with trades"} /\ HoldsAlone(harm[2])
                         /\ PairName(order[harm[2]]) = Pair => report.status = "DISARMED"
                    /\ harm[1] = "incomplete" /\ Holding("BTC") # 0 => report.status # "CLEAN"
  BY Zenon DEF AccountInv, MarketInv, HarmIsNoticed
<1> PICK given : JudgedOn(harm, hints, given) /\ report = Reconciled(Observed(harm, given))
  BY Zenon DEF ReportInv
<1>1. harm \in Harms
  BY Zenon DEF JudgedOn
<1>2. ASSUME harm[1] \notin {None, "lost", "lost with trades", "lost fee", "incomplete", "hint twice"}
      PROVE  report.status = "DISARMED"
  <2>1. harm[1] \in {"liability", "twice", "overdrawn", "order twice", "of later", "out of date", "lost trade",
                     "trade twice", "turned", "outside", "of later trade", "fee twice"}
    BY <1>1, <1>2, HarmsAre
  <2>2. CASE harm[1] \in {"liability", "twice", "overdrawn"}
    BY <1>1, <2>2, BalanceHarmIsNoticed
  <2>3. CASE harm[1] \in {"order twice", "of later"}
    BY <1>1, <2>3, OrderHarmIsNoticed
  <2>4. CASE harm[1] \in {"out of date", "lost trade"}
    BY <1>1, <2>4, StalenessIsNoticed
  <2>5. CASE harm[1] \in {"trade twice", "turned", "outside", "of later trade"}
    BY <1>1, <2>5, TradeHarmIsNoticed
  <2>6. CASE harm[1] = "fee twice"
    BY <1>1, <2>6, RepetitionIsNoticed
  <2> QED
    BY <2>1, <2>2, <2>3, <2>4, <2>5, <2>6
<1>3. ASSUME harm[1] = "hint twice", hints # {} PROVE report.status = "DISARMED"
  BY <1>1, <1>3, RepetitionIsNoticed
<1>4. ASSUME \/ harm[1] = "lost" /\ fills[harm[2]] # <<>>
             \/ /\ harm[1] \in {"lost", "lost with trades"} /\ HoldsAlone(harm[2])
                /\ PairName(order[harm[2]]) = Pair
      PROVE  report.status = "DISARMED"
  BY <1>1, <1>4, LossIsNoticed
<1>5. ASSUME harm[1] = "incomplete", Holding("BTC") # 0 PROVE report.status # "CLEAN"
  BY <1>5, IncompletenessIsNoticed
<1> QED
  BY <1>2, <1>3, <1>4, <1>5, Zenon

\* A repeated, altered, late or missing record disarms (reconcile_account), for
\* every account: a missing record unless it is of a fee, or of a whole order that
\* does not alone explain what is held; and over an incomplete history with any
\* BTC no report is CLEAN.
THEOREM HarmDisarms ==
  AccountSpec => []HarmIsNoticed
PROOF
  BY AccountInvariant, NoticedHarm, PTL

-----------------------------------------------------------------------------
(* A faithful observation                                                  *)

RecordOf(o) == ObservedOrder(o, Len(fills[o]))

Feed == {t \in TradeIds : FeeOf(t) # None}

\* What is observed of the account if nothing is wrong, with hints for C.
Faithful(ob, C) ==
  /\ ob.balances = ObservedBalances
  /\ ob.orders = {RecordOf(o) : o \in Placed}
  /\ ob.trades = Recorded(TradeIds)
  /\ ob.fees = {ObservedFee(t) : t \in Feed}
  /\ ob.liabilities = {}
  /\ ob.hints = {Hint(c) : c \in C}
  /\ ob.complete = TRUE

LEMMA NoHarmIsFaithful ==
  ASSUME NEW C, NEW given, JudgedOn(<<None>>, C, given)
  PROVE  Faithful(Observed(<<None>>, given), C)
PROOF
<1>1. <<None>>[1] = None
  OBVIOUS
<1> PICK h : h = <<None>>
  OBVIOUS
<1>2. h[1] = None /\ JudgedOn(h, C, given)
  BY <1>1, Zenon
<1>3. h[1] \notin {"hint twice", "liability", "incomplete", "twice", "overdrawn", "lost", "lost with trades",
                   "order twice", "of later", "out of date", "lost trade", "trade twice", "turned",
                   "outside", "of later trade", "lost fee", "fee twice"}
  BY <1>2 DEF None
<1> PICK ob : ob = Observed(h, given)
  OBVIOUS
<1>4. given = {Hint(c) : c \in C}
  BY <1>2, <1>3 DEF JudgedOn
<1>5. ob.hints = {Hint(c) : c \in C} /\ ob.liabilities = {} /\ ob.complete = TRUE
  BY <1>3, <1>4 DEF Observed, Harmed
<1>6. ob.balances = ObservedBalances
  BY <1>3 DEF Observed, Harmed, Seen, HarmedBalances
<1>7. ob.orders = {RecordOf(o) : o \in Placed}
  BY <1>3 DEF Observed, Harmed, Seen, HarmedOrders, RecordOf
<1>8. ob.trades = Recorded(TradeIds)
  BY <1>3 DEF Observed, Harmed, Seen, HarmedTrades, Recorded
<1>9. ob.fees = {ObservedFee(t) : t \in Feed}
  BY <1>3 DEF Observed, Harmed, Seen, HarmedFees, Feed
<1> QED
  BY <1>5, <1>6, <1>7, <1>8, <1>9, Zenon DEF Faithful

\* What a record of an order says.
LEMMA RecordSays ==
  ASSUME NEW o
  PROVE  /\ RecordOf(o).id = o /\ RecordOf(o).copy = 1
         /\ RecordOf(o).pair = PairName(order[o]) /\ RecordOf(o).side = order[o].side
         /\ RecordOf(o).state = OrderState(o, Len(fills[o]))
         /\ RecordOf(o).qty = Lot * order[o].lots /\ RecordOf(o).filled = Lot * Len(fills[o])
         /\ RecordOf(o).closed = (life[o] # "open") /\ RecordOf(o).timely = TRUE
         /\ RecordOf(o).client = order[o].client
         /\ RecordOf(o).ownership = IF order[o].known THEN order[o].owner ELSE "unknown"
PROOF
  BY DEF RecordOf, ObservedOrder

\* Every record of an order is sound: its state is what its fills make it.
LEMMA RecordsAreSound ==
  ASSUME MarketTyped, LifeFits, NEW o \in Placed
  PROVE  SoundOrder(RecordOf(o)) /\ (IsOpen(RecordOf(o)) <=> life[o] = "open")
PROOF
<1> PICK x : x = RecordOf(o)
  OBVIOUS
<1> PICK n \in Nat : n = Len(fills[o])
  BY TradedIsPlaced
<1> PICK m \in Nat \ {0} : m = order[o].lots
  BY TradedIsPlaced
<1>1. /\ x.state = OrderState(o, n) /\ x.qty = Lot * m /\ x.filled = Lot * n
      /\ x.closed = (life[o] # "open") /\ x.timely = TRUE
  BY RecordSays
<1>2. life[o] \in {"open", "closed", "canceled"} /\ o \in OrderIds
  BY DEF MarketTyped, Placed
<1>3. (life[o] \in {"open", "canceled"} => n < m) /\ (life[o] = "closed" => n = m)
  BY <1>2 DEF LifeFits
<1>4. x.qty > 0 /\ x.filled \in 0..x.qty
  <2>1. n <= m
    BY <1>2, <1>3
  <2>2. \A a \in Nat, b \in Nat \ {0} : a <= b => 2 * b > 0 /\ 2 * a \in 0..(2 * b)
    OBVIOUS
  <2> QED
    BY <1>1, <2>1, <2>2 DEF Lot
<1>5. CASE life[o] = "open" /\ n = 0
  <2>1. x.state = "open" /\ x.filled = 0 /\ x.closed = FALSE
    <3>1. x.filled = 0
      BY <1>1, <1>5 DEF Lot
    <3>2. ~(n > 0)
      BY <1>5
    <3>3. OrderState(o, n) = "open"
      BY <1>5, <3>2 DEF OrderState
    <3>4. x.closed = FALSE
      BY <1>1, <1>5
    <3> QED
      BY <1>1, <3>1, <3>3, <3>4, Zenon
  <2> QED
    BY <1>1, <1>4, <1>5, <2>1 DEF SoundOrder, StateFits, IsOpen
<1>6. CASE life[o] = "open" /\ n > 0
  <2>1. x.state = "partially_filled" /\ x.closed = FALSE
    BY <1>1, <1>6 DEF OrderState
  <2>2. \A a, b \in Nat : a < b /\ a > 0 => 2 * a \in 1..(2 * b - 1)
    OBVIOUS
  <2>3. x.filled \in 1..(x.qty - 1)
    BY <1>1, <1>3, <1>6, <2>2 DEF Lot
  <2> QED
    BY <1>1, <1>4, <1>6, <2>1, <2>3 DEF SoundOrder, StateFits, IsOpen
<1>7. CASE life[o] = "closed"
  <2>1. x.state = "filled" /\ x.closed = TRUE /\ x.filled = x.qty
    BY <1>1, <1>3, <1>7 DEF OrderState
  <2> QED
    BY <1>1, <1>4, <1>7, <2>1 DEF SoundOrder, StateFits, IsOpen
<1>8. CASE life[o] = "canceled"
  <2>1. x.state = "canceled" /\ x.closed = TRUE
    BY <1>1, <1>8 DEF OrderState
  <2>2. x.filled < x.qty
    BY <1>1, <1>3, <1>8 DEF Lot
  <2> QED
    BY <1>1, <1>4, <1>8, <2>1, <2>2 DEF SoundOrder, StateFits, IsOpen
<1> QED
  BY <1>2, <1>5, <1>6, <1>7, <1>8

\* Every order is of the pair the bot trades, and no two have one client id.
AllPairs == \A o \in Placed : PairName(order[o]) = Pair

OwnClients ==
  \A o, p \in Placed : order[o].client = order[p].client /\ o # p => order[o].client = None

\* The codes that an order can raise on a faithful observation.
LEMMA OrderCodesAre ==
  ASSUME MarketTyped, LifeFits, NEW ob, NEW C, Faithful(ob, C)
  PROVE  /\ Repeated(ob.orders) = {} /\ \A o \in ob.orders : SoundOrder(o)
         /\ RepeatedClients(ob.orders) = {} <=> OwnClients
         /\ (\A o \in ob.orders : o.pair = Pair) <=> AllPairs
         /\ OrderCodes(ob) = {} <=> AllPairs /\ OwnClients
         /\ OrderCodes(ob) # {} => ~(OrderCodes(ob) \subseteq Unresolving)
PROOF
<1>1. ob.orders = {RecordOf(o) : o \in Placed}
  BY DEF Faithful
<1>2. \A o : RecordOf(o).id = o /\ RecordOf(o).client = order[o].client /\ RecordOf(o).pair = PairName(order[o])
  BY RecordSays
<1>3. \A o \in Placed : SoundOrder(RecordOf(o))
  BY RecordsAreSound
<1>4. Repeated(ob.orders) = {}
  BY <1>1, <1>2 DEF Repeated
<1>5. \A o \in ob.orders : SoundOrder(o)
  BY <1>1, <1>3
<1>6. (\A o \in ob.orders : o.pair = Pair) <=> AllPairs
  BY <1>1, <1>2 DEF AllPairs
<1>7. ASSUME OwnClients PROVE RepeatedClients(ob.orders) = {}
  <2> SUFFICES ASSUME NEW x \in ob.orders, NEW y \in ob.orders, x # y, x.client = y.client, x.client # None
               PROVE  FALSE
    BY DEF RepeatedClients
  <2>1. PICK o \in Placed : x = RecordOf(o)
    BY <1>1
  <2>2. PICK p \in Placed : y = RecordOf(p)
    BY <1>1
  <2>3. o # p
    BY <2>1, <2>2
  <2>4. order[o].client = order[p].client /\ order[o].client # None
    BY <1>2, <2>1, <2>2
  <2> QED
    BY <1>7, <2>3, <2>4 DEF OwnClients
<1>8. ASSUME RepeatedClients(ob.orders) = {} PROVE OwnClients
  <2> SUFFICES ASSUME NEW o \in Placed, NEW p \in Placed, order[o].client = order[p].client, o # p
               PROVE  order[o].client = None
    BY DEF OwnClients
  <2>1. PICK x \in ob.orders : x = RecordOf(o)
    BY <1>1
  <2>2. PICK y \in ob.orders : y = RecordOf(p)
    BY <1>1
  <2>3. x # y /\ x.client = y.client /\ x.client = order[o].client
    BY <1>2, <2>1, <2>2
  <2>4. x.client # None => x.client \in RepeatedClients(ob.orders)
    BY <2>3 DEF RepeatedClients
  <2> QED
    BY <1>8, <2>3, <2>4
<1>9. OrderCodes(ob) = When(RepeatedClients(ob.orders) # {}, "duplicate_client_order_id")
                         \cup When(\E o \in ob.orders : o.pair # Pair, "unknown_pair")
  BY <1>4, <1>5 DEF OrderCodes, When
<1>10. OrderCodes(ob) = {} <=> AllPairs /\ OwnClients
  BY <1>6, <1>7, <1>8, <1>9 DEF When
<1>11. OrderCodes(ob) # {} => ~(OrderCodes(ob) \subseteq Unresolving)
  BY <1>9 DEF When, Unresolving
<1> QED
  BY <1>4, <1>5, <1>6, <1>7, <1>8, <1>10, <1>11

\* If every order is of the pair, only BTC and CAD are held.
LEMMA OnlyBTC ==
  ASSUME MarketTyped, LifeFits, AllPairs
  PROVE  Holding("ETH") = 0 /\ \A t \in TradeIds : order[t[1]].pair = <<"BTC", "CAD">>
PROOF
<1>1. \A k : PairName(k) = Pair => k.pair = <<"BTC", "CAD">>
  BY DEF PairName, Pair
<1>2. \A t \in TradeIds : order[t[1]].pair = <<"BTC", "CAD">>
  BY <1>1, TradedIsPlaced DEF AllPairs
<1>3. <<"BTC", "CAD">> # <<"ETH", "CAD">>
  OBVIOUS
<1> DEFINE of == {t \in TradeIds : t[1] \in OrderIds /\ order[t[1]].pair = <<"ETH", "CAD">>}
           buys == {t \in of : order[t[1]].side = "buy"}
           fees == {t \in of : FeeOf(t) = "ETH"}
<1>4. of = {}
  BY <1>2, <1>3
<1>5. buys = {} /\ of \ buys = {} /\ fees = {}
  BY <1>4
<1>6. Gained(OrderIds, "ETH") = Lot * Cardinality(buys) - Lot * Cardinality(of \ buys) - Cardinality(fees)
  BY DEF Gained
<1> HIDE DEF of, buys, fees
<1>7. Gained(OrderIds, "ETH") = 0
  BY <1>5, <1>6, FS_EmptySet DEF Lot
<1> QED
  BY <1>2, <1>7 DEF Holding

\* The codes of the balances: none, if only BTC and CAD are held.
LEMMA BalanceCodesAre ==
  ASSUME MarketTyped, LifeFits, Covered, NEW ob, NEW C, Faithful(ob, C), AllPairs
  PROVE  BalanceCodes(ob) = {} /\ LiabilityCodes(ob) = {}
PROOF
<1> PICK x : x = [id |-> "BTC", copy |-> 1, available |-> Holding("BTC") - Held("sell"), held |-> Held("sell")]
  OBVIOUS
<1> PICK y : y = [id |-> "CAD", copy |-> 1, available |-> 0, held |-> Held("buy")]
  OBVIOUS
<1>1. ob.balances = {x, y}
  BY OnlyBTC DEF Faithful, ObservedBalances
<1>2. /\ x.id = "BTC" /\ x.available = Holding("BTC") - Held("sell") /\ x.held = Held("sell")
      /\ y.id = "CAD" /\ y.available = 0 /\ y.held = Held("buy")
  OBVIOUS
<1>3. Holding("BTC") \in Int /\ Held("sell") \in Nat /\ Held("buy") \in Nat
  BY BTCIsANumber, HeldIsForOrders
<1>4. ~(x.available < 0) /\ ~(x.held < 0) /\ ~(y.available < 0) /\ ~(y.held < 0)
  <2>1. Held("sell") <= Holding("BTC")
    BY DEF Covered
  <2> HIDE DEF Covered
  <2>2. \A a \in Int, b \in Nat : b <= a => ~(a - b < 0) /\ ~(b < 0)
    OBVIOUS
  <2> QED
    BY <1>2, <1>3, <2>1, <2>2
<1>5. Repeated(ob.balances) = {}
  BY <1>1, <1>2 DEF Repeated
<1>6. Ids(ob.balances) = Assets
  BY <1>1, <1>2 DEF Ids, Assets
<1>7. \A b \in ob.balances : b.id \in Assets
  BY <1>6 DEF Ids
<1>8. BalanceCodes(ob) = {}
  BY <1>1, <1>4, <1>5, <1>6, <1>7 DEF BalanceCodes, When
<1>9. LiabilityCodes(ob) = {}
  BY DEF Faithful, LiabilityCodes, When, Repeated
<1> QED
  BY <1>8, <1>9

\* No trade of a faithful observation is at fault.
LEMMA TradeCodesAre ==
  ASSUME MarketTyped, LifeFits, NEW ob, NEW C, Faithful(ob, C), AllPairs
  PROVE  /\ TradeCodes(ob) = {} /\ Repeated(ob.trades) = {}
         /\ \A t \in ob.trades : /\ SoundTrade(t) /\ t.order \in Ids(ob.orders)
                                 /\ ~Disagrees(ob, t) /\ t.pair = Pair
PROOF
<1>1. ob.orders = {ObservedOrder(o, Len(fills[o])) : o \in Placed} /\ ob.trades = Recorded(TradeIds)
  BY DEF Faithful, RecordOf
<1>2. \A t : /\ ObservedTrade(t).id = t /\ ObservedTrade(t).order = t[1] /\ ObservedTrade(t).qty = Lot
             /\ ObservedTrade(t).timely = TRUE /\ ObservedTrade(t).within = TRUE
             /\ ObservedTrade(t).pair = PairName(order[t[1]]) /\ ObservedTrade(t).side = order[t[1]].side
  BY DEF ObservedTrade
<1>3. \A o, n : ObservedOrder(o, n).side = order[o].side /\ ObservedOrder(o, n).pair = PairName(order[o])
  BY DEF ObservedOrder
<1>4. ASSUME NEW x \in ob.trades
      PROVE  SoundTrade(x) /\ x.order \in Ids(ob.orders) /\ ~Disagrees(ob, x) /\ x.pair = Pair
  <2>1. PICK t \in TradeIds : x = ObservedTrade(t)
    BY <1>1 DEF Recorded
  <2>2. /\ x.order = t[1] /\ x.qty = Lot /\ x.timely = TRUE /\ x.within = TRUE
        /\ x.pair = PairName(order[t[1]]) /\ x.side = order[t[1]].side
    BY <1>2, <2>1, Zenon
  <2>3. t[1] \in Placed
    BY TradedIsPlaced
  <2>4. SoundTrade(x)
    BY <2>2, LotsAreSound, Zenon
  <2>5. x.order \in Placed
    BY <2>2, <2>3, Zenon
  <2>6. OrderOf(ob, x) = ObservedOrder(x.order, Len(fills[x.order])) /\ x.order \in Ids(ob.orders)
    BY <1>1, <2>5, OrderFound, Zenon
  <2>7. OrderOf(ob, x).side = order[x.order].side /\ OrderOf(ob, x).pair = PairName(order[x.order])
    BY <1>3, <2>6, Zenon
  <2>8. ~Disagrees(ob, x)
    BY <2>2, <2>7 DEF Disagrees
  <2>9. x.pair = Pair
    BY <2>2, <2>3 DEF AllPairs
  <2> QED
    BY <2>4, <2>6, <2>8, <2>9
<1>5. Repeated(ob.trades) = {}
  BY <1>1, <1>2 DEF Repeated, Recorded
<1>6. PICK sound : sound = {t \in ob.trades : SoundTrade(t)}
  OBVIOUS
<1>7. PICK linked : linked = {t \in sound : t.order \in Ids(ob.orders)}
  OBVIOUS
<1>8. sound = ob.trades /\ linked = sound
  BY <1>4, <1>6, <1>7
<1>9. TradeCodes(ob) = {}
  BY <1>4, <1>5, <1>6, <1>7, <1>8 DEF TradeCodes, When
<1> QED
  BY <1>4, <1>5, <1>9

\* If orders and their clients are as they should be, everything is valid.
LEMMA AllIsValid ==
  ASSUME MarketTyped, LifeFits, NEW ob, NEW C, Faithful(ob, C), AllPairs, OwnClients
  PROVE  /\ Validated(ob).orders = ob.orders /\ Validated(ob).trades = ob.trades
         /\ Validated(ob).fees = ob.fees
         /\ FillCodes(Validated(ob)) = {} /\ FeeCodes(ob, Validated(ob)) = {}
PROOF
<1> PICK v : v = Validated(ob)
  OBVIOUS
<1>1. /\ Repeated(ob.orders) = {} /\ \A o \in ob.orders : SoundOrder(o) /\ o.pair = Pair
      /\ RepeatedClients(ob.orders) = {}
  BY OrderCodesAre
<1>2. v.orders = ob.orders
  BY <1>1 DEF Validated, ValidOrders
<1>3. v.trades = ValidTrades(ob, ob.orders)
  BY <1>2 DEF Validated
<1>4. v.trades = ob.trades
  BY <1>3, TradeCodesAre DEF ValidTrades
<1>5. ob.fees = {ObservedFee(t) : t \in Feed} /\ ob.trades = Recorded(TradeIds)
  BY DEF Faithful
<1>6. \A t : ObservedFee(t).id = t /\ ObservedFee(t).trade = t /\ ObservedFee(t).asset = FeeOf(t) /\ ObservedFee(t).amount = 1
  BY DEF ObservedFee
<1>7. Ids(ob.trades) = TradeIds
  <2>1. \A t : ObservedTrade(t).id = t
    BY DEF ObservedTrade
  <2> QED
    BY <1>5, <2>1 DEF Ids, Recorded
<1>8. \A t \in Feed : t \in TradeIds /\ FeeOf(t) \in Assets
  <2> SUFFICES ASSUME NEW t \in Feed PROVE t \in TradeIds /\ FeeOf(t) \in Assets
    OBVIOUS
  <2>1. t \in TradeIds /\ FeeOf(t) # None
    BY DEF Feed
  <2>2. t[1] \in OrderIds /\ t[2] \in 1..Len(fills[t[1]])
    BY <2>1, TradesAreFinite
  <2>3. fills[t[1]] \in Seq(FeeAssets)
    BY <2>2 DEF MarketTyped
  <2>4. FeeOf(t) \in FeeAssets
    BY <2>2, <2>3 DEF FeeOf
  <2> QED
    BY <2>1, <2>4, EvidenceAssumption
<1>9. Repeated(ob.fees) = {} /\ \A f \in ob.fees : f.asset \in Assets /\ f.trade \in TradeIds /\ f.amount = 1
  BY <1>5, <1>6, <1>8 DEF Repeated
<1>10. v.fees = ob.fees
  <2>1. v.fees = ValidFees(ob, ob.trades)
    BY <1>4 DEF Validated
  <2>2. 1 >= 0
    OBVIOUS
  <2> QED
    BY <1>7, <1>9, <2>1, <2>2 DEF ValidFees
<1>11. FeeCodes(ob, v) = {}
  <2>1. ~(1 < 0)
    OBVIOUS
  <2> QED
    BY <1>4, <1>7, <1>9, <2>1 DEF FeeCodes, When
<1>12. \A x \in v.orders : Volume(Of(v.trades, x)) = x.filled
  <2> SUFFICES ASSUME NEW x \in ob.orders PROVE Volume(Of(ob.trades, x)) = x.filled
    BY <1>2, <1>4
  <2>1. PICK o \in Placed : x = RecordOf(o)
    BY DEF Faithful
  <2>2. x.id = o /\ x.filled = Lot * Len(fills[o])
    BY <2>1, RecordSays
  <2> PICK T : T = {t \in TradeIds : t[1] = o}
    OBVIOUS
  <2>3. IsFiniteSet(T) /\ Cardinality(T) = Len(fills[o])
    BY TradesOfOrders, TradedIsPlaced
  <2>4. {t \in TradeIds : t[1] = x.id} = T
    BY <2>2
  <2>5. Of(ob.trades, x) = Recorded(T)
    <3>1. Of(Recorded(TradeIds), x) = Recorded({t \in TradeIds : t[1] = x.id})
      BY RecordsOf
    <3> QED
      BY <1>5, <2>4, <3>1, Zenon
  <2>6. Volume(Recorded(T)) = Lot * Cardinality(T)
    BY <2>3, RecordedVolume, Zenon
  <2> QED
    BY <2>2, <2>3, <2>5, <2>6, Zenon
<1>13. FillCodes(v) = {}
  BY <1>12 DEF FillCodes, When
<1> QED
  BY <1>2, <1>4, <1>10, <1>11, <1>13

\* Nothing is held but for an order that rests.
LEMMA HeldIsExplained ==
  ASSUME MarketTyped, LifeFits, NEW ob, NEW C, Faithful(ob, C)
  PROVE  HeldCodes(ob) = {}
PROOF
<1> SUFFICES ASSUME NEW a \in Assets, BalanceOf(ob, a).held > 0
             PROVE  \E x \in ob.orders : IsOpen(x) /\ x.side = HeldBy(a)
  BY DEF HeldCodes, When
<1> PICK side : side = HeldBy(a)
  OBVIOUS
<1>1. BalanceOf(ob, a).held = Held(side)
  BY BalancesFound DEF Assets, HeldBy, Faithful
<1>2. Sells(side) # {}
  BY <1>1, HeldIsForOrders
<1>3. PICK o \in OrderIds : o \in Placed /\ life[o] = "open" /\ order[o].side = side
  BY <1>2 DEF Sells, Placed
<1>4. PICK x \in ob.orders : x = RecordOf(o)
  BY <1>3 DEF Faithful
<1>5. IsOpen(x) /\ x.side = side
  BY <1>3, <1>4, RecordsAreSound, RecordSays
<1> QED
  BY <1>5

-----------------------------------------------------------------------------
(* The hints of a faithful observation                                     *)

\* The orders that hints of C name, and those that they make pass for legacy ones.
Named(C) == {o \in Claimable : \E c \in C : NamedBy(c, o)}

CreditedBy(C) == LegacyOrders \cup Named(C)

\* What a hint says.
LEMMA HintSays ==
  ASSUME NEW c
  PROVE  /\ Hint(c).id = c /\ Hint(c).order = c.order /\ Hint(c).client = c.client
         /\ Hint(c).side = c.side /\ Hint(c).qty = c.qty /\ Hint(c).pair = c.pair
         /\ Hint(c).window = c.window /\ Hint(c).timely = c.timely
PROOF
  BY DEF Hint

\* What a verdict of "matched" rests on.
LEMMA MatchedSays ==
  ASSUME NEW orders, NEW h, Verdict(orders, h) = "matched"
  PROVE  /\ HasIdentity(h) /\ h.timely
         /\ \A x \in Candidates(orders, h) : x.ownership \notin {"bot", "manual"}
PROOF
  BY DEF Verdict

\* A hint for a claim is matched with exactly the order that it names, if that may
\* be a legacy one.
LEMMA MatchedIsNamed ==
  ASSUME MarketTyped, LifeFits, NEW ob, NEW C, Faithful(ob, C),
         NEW c \in Claims, NEW o \in Placed,
         Verdict(ob.orders, Hint(c)) = "matched", RecordOf(o) \in Candidates(ob.orders, Hint(c))
  PROVE  o \in Claimable /\ NamedBy(c, o)
PROOF
<1> PICK g : g = Hint(c)
  OBVIOUS
<1> PICK x : x = RecordOf(o)
  OBVIOUS
<1>1. /\ g.order = c.order /\ g.client = c.client /\ g.qty = c.qty /\ g.window = c.window
      /\ g.side = c.side /\ g.pair = c.pair /\ g.timely = c.timely
  BY HintSays
<1>2. /\ x.id = o /\ x.client = order[o].client /\ x.qty = Lot * order[o].lots
      /\ x.side = order[o].side /\ x.pair = PairName(order[o])
      /\ x.ownership = IF order[o].known THEN order[o].owner ELSE "unknown"
  BY RecordSays
<1>3. HasIdentity(g) /\ g.timely /\ x.ownership \notin {"bot", "manual"}
  BY MatchedSays
<1>4. /\ g.order # None => x.id = g.order
      /\ g.client # None => x.client = g.client
      /\ x.pair = g.pair /\ x.side = g.side /\ x.qty = g.qty /\ x.id \in g.window
  BY DEF Candidates, IdentityPool
<1>5. NamedBy(c, o)
  BY <1>1, <1>2, <1>3, <1>4 DEF NamedBy, HasIdentity
<1>6. order[o].owner \in {"bot", "legacy", "manual"}
  BY TradedIsPlaced, EvidenceAssumption
<1>7. order[o].known => order[o].owner = "legacy"
  BY <1>2, <1>3, <1>6
<1> QED
  BY <1>5, <1>7 DEF Claimable

LEMMA NamedIsMatched ==
  ASSUME MarketTyped, LifeFits, OwnClients, AllPairs, NEW ob, NEW C, Faithful(ob, C),
         NEW c \in Claims, NEW o \in Claimable, NamedBy(c, o)
  PROVE  /\ Candidates(ob.orders, Hint(c)) = {RecordOf(o)}
         /\ Verdict(ob.orders, Hint(c)) = "matched"
PROOF
<1> PICK g : g = Hint(c)
  OBVIOUS
<1> PICK x : x = RecordOf(o)
  OBVIOUS
<1> PICK found : found = Candidates(ob.orders, g)
  OBVIOUS
<1>1. /\ g.order = c.order /\ g.client = c.client /\ g.qty = c.qty /\ g.window = c.window
      /\ g.pair = c.pair /\ g.side = c.side /\ g.timely = c.timely
  BY HintSays
<1>2. o \in Placed /\ (order[o].known => order[o].owner = "legacy")
  BY DEF Claimable
<1>3. /\ x.id = o /\ x.client = order[o].client /\ x.qty = Lot * order[o].lots
      /\ x.pair = Pair /\ x.side = order[o].side
      /\ x.ownership \in {"legacy", "unknown"}
  <2>1. /\ x.id = o /\ x.client = order[o].client /\ x.qty = Lot * order[o].lots
        /\ x.pair = PairName(order[o]) /\ x.side = order[o].side
        /\ x.ownership = IF order[o].known THEN order[o].owner ELSE "unknown"
    BY RecordSays
  <2>2. PairName(order[o]) = Pair
    BY <1>2 DEF AllPairs
  <2>3. x.ownership \in {"legacy", "unknown"}
    BY <1>2, <2>1
  <2> QED
    BY <2>1, <2>2, <2>3, Zenon
<1>4. /\ c.order = o \/ (c.order = None /\ c.client # None)
      /\ c.client \in {None, order[o].client}
      /\ c.qty = Lot * order[o].lots /\ o \in c.window
  BY DEF NamedBy
<1>5. c.pair = Pair /\ c.timely /\ c.side = order[o].side
  BY <1>2 DEF NamedBy, AllPairs
<1>6. x \in ob.orders
  BY <1>2 DEF Faithful
<1>7. o # None
  BY <1>2, EvidenceAssumption DEF Placed
<1>8. HasIdentity(g)
  BY <1>1, <1>4, <1>7 DEF HasIdentity
<1>9. x \in IdentityPool(ob.orders, g)
  BY <1>1, <1>3, <1>4, <1>6, <1>7 DEF IdentityPool
<1>10. x \in found
  BY <1>1, <1>3, <1>4, <1>5, <1>9 DEF Candidates
<1>11. ASSUME NEW y \in found PROVE y = x
  <2>1. y \in ob.orders /\ (g.order # None => y.id = g.order) /\ (g.client # None => y.client = g.client)
    BY DEF Candidates, IdentityPool
  <2>2. PICK p \in Placed : y = RecordOf(p)
    BY <2>1 DEF Faithful
  <2>3. y.id = p /\ y.client = order[p].client
    BY <2>2, RecordSays
  <2>4. CASE c.order = o
    BY <1>1, <1>7, <2>1, <2>2, <2>3, <2>4
  <2>5. CASE c.order = None /\ c.client # None
    <3>1. order[p].client = order[o].client /\ order[o].client # None
      BY <1>1, <1>4, <2>1, <2>3, <2>5
    <3>2. p = o
      BY <1>2, <3>1 DEF OwnClients
    <3> QED
      BY <2>2, <3>2
  <2> QED
    BY <1>4, <2>4, <2>5
<1>12. found = {x}
  BY <1>10, <1>11
<1>13. Cardinality(found) = 1
  BY <1>12, FS_Singleton
<1>14. c.qty > 0
  <2>1. order[o].lots \in Nat \ {0}
    BY <1>2, TradedIsPlaced
  <2> QED
    BY <1>4, <2>1 DEF Lot
<1>15. /\ g.pair = Pair /\ g.qty > 0 /\ g.timely
       /\ found # {} /\ ~(Cardinality(found) > 1)
       /\ ~\E y \in found : y.ownership \in {"bot", "manual"}
  BY <1>1, <1>3, <1>5, <1>12, <1>13, <1>14
<1>16. Verdict(ob.orders, g) = "matched"
  BY <1>8, <1>15 DEF Verdict
<1> QED
  BY <1>12, <1>16

\* The matches of a faithful observation: the hints, each with the order it names.
LEMMA MatchesAre ==
  ASSUME MarketTyped, LifeFits, OwnClients, AllPairs, NEW ob, NEW C \in SUBSET Claims, Faithful(ob, C)
  PROVE  /\ \A m \in Matches(ob, ob.orders) : \E c \in C : \E o \in Claimable :
              NamedBy(c, o) /\ m = <<Hint(c), RecordOf(o)>>
         /\ \A c \in C : \A o \in Claimable :
              NamedBy(c, o) => <<Hint(c), RecordOf(o)>> \in Matches(ob, ob.orders)
         /\ \A c \in C : Verdict(ob.orders, Hint(c)) = "matched" <=> \E o \in Claimable : NamedBy(c, o)
PROOF
<1>1. ob.hints = {Hint(c) : c \in C} /\ ob.orders = {RecordOf(o) : o \in Placed}
  BY DEF Faithful
<1>2. \A h : \A x \in Candidates(ob.orders, h) : x \in ob.orders
  BY DEF Candidates, IdentityPool
<1>3. \A c \in C, o \in Placed :
        Verdict(ob.orders, Hint(c)) = "matched" /\ RecordOf(o) \in Candidates(ob.orders, Hint(c)) =>
          o \in Claimable /\ NamedBy(c, o)
  BY MatchedIsNamed
<1>4. \A c \in C, o \in Claimable : NamedBy(c, o) =>
        /\ Candidates(ob.orders, Hint(c)) = {RecordOf(o)}
        /\ Verdict(ob.orders, Hint(c)) = "matched"
  BY NamedIsMatched
<1>5. ASSUME NEW c \in C, Verdict(ob.orders, Hint(c)) = "matched"
      PROVE  \E o \in Claimable : NamedBy(c, o)
  <2>1. Candidates(ob.orders, Hint(c)) # {}
    BY <1>5 DEF Verdict
  <2>2. PICK x \in Candidates(ob.orders, Hint(c)) : x \in ob.orders
    BY <1>2, <2>1
  <2>3. PICK o \in Placed : x = RecordOf(o)
    BY <1>1, <2>2
  <2> QED
    BY <1>3, <1>5, <2>2, <2>3
<1>6. ASSUME NEW m \in Matches(ob, ob.orders)
      PROVE  \E c \in C : \E o \in Claimable : NamedBy(c, o) /\ m = <<Hint(c), RecordOf(o)>>
  <2>1. PICK g \in ob.hints : /\ Verdict(ob.orders, g) = "matched"
                              /\ m \in {<<g, x>> : x \in Candidates(ob.orders, g)}
    BY DEF Matches
  <2>2. PICK x \in Candidates(ob.orders, g) : m = <<g, x>>
    BY <2>1, Zenon
  <2>3. PICK c \in C : g = Hint(c)
    BY <1>1
  <2>4. PICK o \in Placed : x = RecordOf(o)
    BY <1>1, <1>2
  <2>5. o \in Claimable /\ NamedBy(c, o)
    BY <1>3, <2>1, <2>2, <2>3, <2>4
  <2> QED
    BY <2>2, <2>3, <2>4, <2>5
<1>7. ASSUME NEW c \in C, NEW o \in Claimable, NamedBy(c, o)
      PROVE  <<Hint(c), RecordOf(o)>> \in Matches(ob, ob.orders)
  <2> PICK g : g = Hint(c)
    OBVIOUS
  <2>1. g \in ob.hints /\ Verdict(ob.orders, g) = "matched" /\ RecordOf(o) \in Candidates(ob.orders, g)
    BY <1>1, <1>4, <1>7
  <2>2. <<g, RecordOf(o)>> \in {<<g, x>> : x \in Candidates(ob.orders, g)}
    BY <2>1
  <2> QED
    BY <2>1, <2>2 DEF Matches
<1> QED
  BY <1>4, <1>5, <1>6, <1>7

\* The codes of the hints: none, if every hint names an order of its own.
LEMMA HintCodesAre ==
  ASSUME MarketTyped, LifeFits, OwnClients, AllPairs, NEW ob, NEW C \in SUBSET Claims, Faithful(ob, C)
  PROVE  HintCodes(ob, Validated(ob)) = {} <=>
           /\ \A c \in C : \E o \in Claimable : NamedBy(c, o)
           /\ \A c, d \in C : (\E o \in Claimable : NamedBy(c, o) /\ NamedBy(d, o)) => c = d
PROOF
<1> PICK v : v = Validated(ob)
  OBVIOUS
<1>1. v.orders = ob.orders /\ v.matches = Matches(ob, ob.orders)
  BY AllIsValid DEF Validated
<1>2. ob.hints = {Hint(c) : c \in C}
  BY DEF Faithful
<1>3. Repeated(ob.hints) = {}
  <2>1. \A c : Hint(c).id = c
    BY HintSays
  <2> QED
    BY <1>2, <2>1 DEF Repeated
<1>4. HintCodes(ob, v) = {} <=>
        /\ \A g \in ob.hints : Verdict(ob.orders, g) = "matched"
        /\ ~\E m, n \in v.matches : m # n /\ m[2].id = n[2].id
  BY <1>1, <1>3 DEF HintCodes, When
<1>5. (\A g \in ob.hints : Verdict(ob.orders, g) = "matched") <=>
        \A c \in C : \E o \in Claimable : NamedBy(c, o)
  <2>1. \A c \in C : Verdict(ob.orders, Hint(c)) = "matched" <=> \E o \in Claimable : NamedBy(c, o)
    BY MatchesAre
  <2> QED
    BY <1>2, <2>1
<1>6. ASSUME NEW m \in v.matches, NEW n \in v.matches, m # n, m[2].id = n[2].id
      PROVE  \E c, d \in C : c # d /\ \E o \in Claimable : NamedBy(c, o) /\ NamedBy(d, o)
  <2>1. PICK c \in C, o \in Claimable : NamedBy(c, o) /\ m = <<Hint(c), RecordOf(o)>>
    BY <1>1, MatchesAre
  <2>2. PICK d \in C, p \in Claimable : NamedBy(d, p) /\ n = <<Hint(d), RecordOf(p)>>
    BY <1>1, MatchesAre
  <2>3. m[2].id = o /\ n[2].id = p
    BY <2>1, <2>2, RecordSays
  <2>4. o = p
    BY <1>6, <2>3
  <2>5. c # d
    BY <1>6, <2>1, <2>2, <2>4
  <2> QED
    BY <2>1, <2>2, <2>4, <2>5
<1>7. ASSUME NEW c \in C, NEW d \in C, c # d, NEW o \in Claimable, NamedBy(c, o), NamedBy(d, o)
      PROVE  \E m, n \in v.matches : m # n /\ m[2].id = n[2].id
  <2> PICK m : m = <<Hint(c), RecordOf(o)>>
    OBVIOUS
  <2> PICK n : n = <<Hint(d), RecordOf(o)>>
    OBVIOUS
  <2>1. m \in v.matches /\ n \in v.matches
    BY <1>1, <1>7, MatchesAre
  <2>2. m[1].id = c /\ n[1].id = d /\ m[2] = n[2]
    BY HintSays
  <2>3. m # n
    BY <1>7, <2>2
  <2> QED
    BY <2>1, <2>2, <2>3
<1> QED
  BY <1>4, <1>5, <1>6, <1>7

\* Given the hints' orders, the codes of ownership: none, if every order's owner
\* is settled, and no order of a person rests.
LEMMA OwnershipCodesAre ==
  ASSUME MarketTyped, LifeFits, OwnClients, AllPairs, NEW ob, NEW C \in SUBSET Claims, Faithful(ob, C)
  PROVE  /\ MatchedIds(Validated(ob)) = Named(C)
         /\ OwnershipCodes(ob, Validated(ob)) = {} <=>
              \A o \in Placed : /\ order[o].known \/ o \in Named(C)
                                /\ life[o] = "open" /\ order[o].owner = "manual" => o \in CreditedBy(C)
PROOF
<1> PICK v : v = Validated(ob)
  OBVIOUS
<1>1. v.matches = Matches(ob, ob.orders)
  BY AllIsValid DEF Validated
<1>2. ob.orders = {RecordOf(o) : o \in Placed}
  BY DEF Faithful
<1>3. MatchedIds(v) = Named(C)
  <2>1. ASSUME NEW o \in MatchedIds(v) PROVE o \in Named(C)
    <3>1. PICK m \in v.matches : m[2].id = o
      BY <2>1 DEF MatchedIds
    <3>2. PICK c \in C, p \in Claimable : NamedBy(c, p) /\ m = <<Hint(c), RecordOf(p)>>
      BY <1>1, MatchesAre
    <3>3. p = o
      BY <3>1, <3>2, RecordSays
    <3> QED
      BY <3>2, <3>3 DEF Named
  <2>2. ASSUME NEW o \in Named(C) PROVE o \in MatchedIds(v)
    <3>1. PICK c \in C : o \in Claimable /\ NamedBy(c, o)
      BY <2>2 DEF Named
    <3> PICK m : m = <<Hint(c), RecordOf(o)>>
      OBVIOUS
    <3>2. m \in v.matches
      BY <1>1, <3>1, MatchesAre
    <3>3. m[2].id = o
      BY RecordSays
    <3> QED
      BY <3>2, <3>3 DEF MatchedIds
  <2> QED
    BY <2>1, <2>2
<1> PICK unknown : unknown = {o \in ob.orders : o.ownership = "unknown" /\ o.id \notin MatchedIds(v)}
  OBVIOUS
<1>4. OwnershipCodes(ob, v) = {} <=>
        unknown = {} /\ \A x \in ob.orders : ~(IsOpen(x) /\ x.ownership = "manual")
  BY DEF OwnershipCodes, When
<1>5. ASSUME NEW o \in Placed
      PROVE  /\ RecordOf(o) \in ob.orders /\ (IsOpen(RecordOf(o)) <=> life[o] = "open")
             /\ RecordOf(o).id = o
             /\ RecordOf(o).ownership = IF order[o].known THEN order[o].owner ELSE "unknown"
             /\ order[o].owner \in {"bot", "legacy", "manual"} /\ order[o].known \in BOOLEAN
  <2>1. order[o].owner \in {"bot", "legacy", "manual"} /\ order[o].known \in BOOLEAN
    BY TradedIsPlaced, EvidenceAssumption
  <2>2. RecordOf(o) \in ob.orders
    BY <1>2
  <2>3. IsOpen(RecordOf(o)) <=> life[o] = "open"
    BY RecordsAreSound
  <2> QED
    BY <2>1, <2>2, <2>3, RecordSays, Zenon
<1>6. ASSUME unknown = {}, \A x \in ob.orders : ~(IsOpen(x) /\ x.ownership = "manual"), NEW o \in Placed
      PROVE  /\ order[o].known \/ o \in Named(C)
             /\ life[o] = "open" /\ order[o].owner = "manual" => o \in CreditedBy(C)
  <2>1. order[o].known \/ o \in Named(C)
    BY <1>3, <1>5, <1>6
  <2>2. o \in Named(C) => o \in CreditedBy(C)
    BY DEF CreditedBy
  <2>3. order[o].known => RecordOf(o).ownership = order[o].owner
    BY <1>5
  <2> QED
    BY <1>5, <1>6, <2>1, <2>2, <2>3
<1>7. ASSUME \A o \in Placed : /\ order[o].known \/ o \in Named(C)
                               /\ life[o] = "open" /\ order[o].owner = "manual" => o \in CreditedBy(C),
             NEW x \in ob.orders
      PROVE  x \notin unknown /\ ~(IsOpen(x) /\ x.ownership = "manual")
  <2>1. PICK o \in Placed : x = RecordOf(o)
    BY <1>2
  <2>2. o \in CreditedBy(C) => o \in Claimable
    BY DEF CreditedBy, Named, Claimable, LegacyOrders
  <2>3. o \in Claimable /\ order[o].owner = "manual" => RecordOf(o).ownership = "unknown"
    BY <1>5 DEF Claimable
  <2> QED
    BY <1>3, <1>5, <1>7, <2>1, <2>2, <2>3
<1>8. unknown \subseteq ob.orders
  OBVIOUS
<1> QED
  BY <1>3, <1>4, <1>6, <1>7, <1>8

-----------------------------------------------------------------------------
(* The net inventory of a faithful observation                             *)

\* The fills of the orders in S, those of one direction, and those that cost BTC.
FillsIn(S) == {t \in TradeIds : t[1] \in S}

FillsOf(S, side) == {t \in FillsIn(S) : order[t[1]].side = side}

Charged(S) == {t \in FillsIn(S) : FeeOf(t) = "BTC"}

LEMMA FillsAreFinite ==
  ASSUME MarketTyped, NEW S
  PROVE  /\ IsFiniteSet(FillsIn(S)) /\ IsFiniteSet(FillsOf(S, "buy")) /\ IsFiniteSet(Charged(S))
         /\ IsFiniteSet(FillsIn(S) \ FillsOf(S, "buy"))
PROOF
<1>1. IsFiniteSet(TradeIds)
  BY TradesAreFinite
<1>2. /\ FillsIn(S) \in SUBSET TradeIds /\ FillsOf(S, "buy") \in SUBSET TradeIds
      /\ Charged(S) \in SUBSET TradeIds /\ FillsIn(S) \ FillsOf(S, "buy") \in SUBSET TradeIds
  BY DEF FillsIn, FillsOf, Charged
<1>3. \A T \in SUBSET TradeIds : IsFiniteSet(T)
  BY <1>1, FS_Subset
<1> QED
  BY <1>2, <1>3

\* What the fills of one direction add to an inventory.
LEMMA FillsSum ==
  ASSUME NEW S, IsFiniteSet(S), NEW P \in SUBSET S,
         \A t \in S : t.qty = Lot, \A t \in S : t.side = "buy" <=> t \in P
  PROVE  MapThenSumSet(LAMBDA t : IF t.side = "buy" THEN t.qty ELSE -t.qty, S)
           = Lot * Cardinality(P) - Lot * Cardinality(S \ P)
PROOF
<1> PICK F : F = [t \in S |-> IF t.side = "buy" THEN t.qty ELSE -t.qty]
  OBVIOUS
<1> DEFINE net == MapThenSumSet(LAMBDA t : IF t.side = "buy" THEN t.qty ELSE -t.qty, S)
           It(f) == f = [s \in SUBSET S |->
                          IF s = {} THEN 0
                          ELSE (IF (CHOOSE x \in s : TRUE).side = "buy" THEN (CHOOSE x \in s : TRUE).qty
                                                                        ELSE -(CHOOSE x \in s : TRUE).qty)
                                 + f[s \ {CHOOSE x \in s : TRUE}]]
<1>1. net = (CHOOSE f : It(f))[S]
  BY DEF MapThenSumSet, MapThenFoldSet
<1> HIDE DEF net
<1>2. \A s \in SUBSET S : s # {} =>
        F[Some(s)] = IF (CHOOSE x \in s : TRUE).side = "buy" THEN (CHOOSE x \in s : TRUE).qty
                                                              ELSE -(CHOOSE x \in s : TRUE).qty
  <2>1. \A s \in SUBSET S : s # {} => Some(s) \in S
    BY DEF Some
  <2>2. \A x \in S : F[x] = IF x.side = "buy" THEN x.qty ELSE -x.qty
    OBVIOUS
  <2> QED
    BY <2>1, <2>2 DEF Some
<1>3. ASSUME NEW f PROVE It(f) <=> Adds(F, S, f)
  <2> DEFINE A == [s \in SUBSET S |->
                     IF s = {} THEN 0
                     ELSE (IF (CHOOSE x \in s : TRUE).side = "buy" THEN (CHOOSE x \in s : TRUE).qty
                                                                   ELSE -(CHOOSE x \in s : TRUE).qty)
                            + f[s \ {CHOOSE x \in s : TRUE}]]
             B == [s \in SUBSET S |-> IF s = {} THEN 0 ELSE F[Some(s)] + f[s \ {Some(s)}]]
  <2>1. A = B
    BY <1>2 DEF Some
  <2>2. (It(f) <=> f = A) /\ (Adds(F, S, f) <=> f = B)
    BY Zenon DEF Adds
  <2> QED
    BY <2>1, <2>2, Zenon
<1> HIDE DEF It
<1>4. (CHOOSE f : It(f)) = (CHOOSE f : Adds(F, S, f))
  BY <1>3, Zenon
<1>5. net = Total(F, S)
  BY <1>1, <1>4 DEF Total
<1>6. Total(F, S) = Lot * Cardinality(P) - Lot * Cardinality(S \ P)
  <2>1. F \in [S -> Int] /\ Lot \in Int /\ (\A x \in P : F[x] = Lot) /\ \A x \in S \ P : F[x] = -Lot
    BY DEF Lot
  <2> QED
    BY <2>1, TotalOfEqual
<1> QED
  BY <1>5, <1>6 DEF net

\* What the fees take from it.
LEMMA FeesSum ==
  ASSUME NEW S, IsFiniteSet(S), \A f \in S : f.amount = 1
  PROVE  MapThenSumSet(LAMBDA f : f.amount, S) = Cardinality(S)
PROOF
<1> PICK F : F = [f \in S |-> 1]
  OBVIOUS
<1> DEFINE paid == MapThenSumSet(LAMBDA f : f.amount, S)
           It(f) == f = [s \in SUBSET S |->
                          IF s = {} THEN 0
                          ELSE (CHOOSE x \in s : TRUE).amount + f[s \ {CHOOSE x \in s : TRUE}]]
<1>1. paid = (CHOOSE f : It(f))[S]
  BY DEF MapThenSumSet, MapThenFoldSet
<1> HIDE DEF paid
<1>2. \A s \in SUBSET S : s # {} => F[Some(s)] = (CHOOSE x \in s : TRUE).amount
  <2>1. \A s \in SUBSET S : s # {} => Some(s) \in S
    BY DEF Some
  <2>2. \A x \in S : F[x] = x.amount
    OBVIOUS
  <2> QED
    BY <2>1, <2>2 DEF Some
<1>3. \A f : It(f) <=> Adds(F, S, f)
  BY <1>2 DEF Adds, Some
<1> HIDE DEF It
<1>4. (CHOOSE f : It(f)) = (CHOOSE f : Adds(F, S, f))
  BY <1>3, Zenon
<1>5. paid = Total(F, S)
  BY <1>1, <1>4 DEF Total
<1>6. Total(F, S) = 1 * Cardinality(S) - 1 * Cardinality(S \ S)
  <2>1. F \in [S -> Int] /\ \A x \in S : F[x] = 1
    OBVIOUS
  <2>2. \A x \in S \ S : F[x] = -1
    OBVIOUS
  <2> QED
    BY <2>1, <2>2, TotalOfEqual
<1>7. Cardinality(S \ S) = 0 /\ Cardinality(S) \in Nat
  BY FS_EmptySet, FS_CardinalityType
<1>8. paid = Cardinality(S)
  BY <1>5, <1>6, <1>7
<1> QED
  BY <1>8 DEF paid

LEMMA RecordsOfFees ==
  ASSUME NEW P, IsFiniteSet(P)
  PROVE  /\ IsFiniteSet({ObservedFee(t) : t \in P})
         /\ Cardinality({ObservedFee(t) : t \in P}) = Cardinality(P)
PROOF
<1> DEFINE f == [t \in P |-> ObservedFee(t)]
<1>1. \A t \in P : f[t] = ObservedFee(t)
  OBVIOUS
<1>2. \A t : ObservedFee(t).id = t
  BY DEF ObservedFee
<1>3. {f[t] : t \in P} = {ObservedFee(t) : t \in P}
  BY <1>1
<1>4. DOMAIN f = P
  OBVIOUS
<1> HIDE DEF f
<1>5. \A t, u \in P : f[t] = f[u] => t = u
  <2> SUFFICES ASSUME NEW t \in P, NEW u \in P, f[t] = f[u] PROVE t = u
    OBVIOUS
  <2>1. f[t].id = t /\ f[u].id = u
    BY <1>1, <1>2
  <2> QED
    BY <2>1
<1>6. IsFiniteSet({f[t] : t \in P}) /\ Cardinality({f[t] : t \in P}) = Cardinality(P)
  BY <1>4, <1>5, ImageSize
<1> QED
  BY <1>3, <1>6

\* What the orders in S left of BTC, said of their fills.
LEMMA GainedIsOfFills ==
  ASSUME MarketTyped, LifeFits, AllPairs, NEW S
  PROVE  Gained(S, "BTC") =
           Lot * Cardinality(FillsOf(S, "buy")) - Lot * Cardinality(FillsIn(S) \ FillsOf(S, "buy"))
             - Cardinality(Charged(S))
PROOF
<1> DEFINE of == {t \in TradeIds : t[1] \in S /\ order[t[1]].pair = <<"BTC", "CAD">>}
           buys == {t \in of : order[t[1]].side = "buy"}
           fees == {t \in of : FeeOf(t) = "BTC"}
<1>1. of = FillsIn(S)
  BY OnlyBTC DEF FillsIn
<1>2. buys = FillsOf(S, "buy") /\ fees = Charged(S)
  BY <1>1 DEF FillsOf, Charged
<1>3. Gained(S, "BTC") = Lot * Cardinality(buys) - Lot * Cardinality(of \ buys) - Cardinality(fees)
  BY DEF Gained
<1> HIDE DEF of, buys, fees
<1> QED
  BY <1>1, <1>2, <1>3

\* What the records of the fills of the orders in S sum up to.
LEMMA SumOfFills ==
  ASSUME MarketTyped, NEW S, NEW trades, trades = Recorded(FillsIn(S))
  PROVE  MapThenSumSet(LAMBDA t : IF t.side = "buy" THEN t.qty ELSE -t.qty, trades)
           = Lot * Cardinality(FillsOf(S, "buy")) - Lot * Cardinality(FillsIn(S) \ FillsOf(S, "buy"))
PROOF
<1>1. \A t : ObservedTrade(t).id = t /\ ObservedTrade(t).qty = Lot /\ ObservedTrade(t).side = order[t[1]].side
  BY DEF ObservedTrade
<1> PICK bought : bought = Recorded(FillsOf(S, "buy"))
  OBVIOUS
<1>2. /\ bought \subseteq trades /\ \A t \in trades : t.qty = Lot /\ (t.side = "buy" <=> t \in bought)
      /\ trades \ bought = Recorded(FillsIn(S) \ FillsOf(S, "buy"))
  <2>1. \A t \in FillsIn(S) : t \in FillsOf(S, "buy") <=> order[t[1]].side = "buy"
    BY DEF FillsOf
  <2>2. FillsOf(S, "buy") \subseteq FillsIn(S)
    BY DEF FillsOf
  <2>3. \A t, u : ObservedTrade(t) = ObservedTrade(u) => t = u
    BY <1>1
  <2>4. bought \subseteq trades
    BY <2>2 DEF Recorded
  <2>5. ASSUME NEW x \in trades PROVE x.qty = Lot /\ (x.side = "buy" <=> x \in bought)
    <3>1. PICK t \in FillsIn(S) : x = ObservedTrade(t)
      BY DEF Recorded
    <3>2. x \in bought <=> t \in FillsOf(S, "buy")
      BY <2>3, <3>1 DEF Recorded
    <3> QED
      BY <1>1, <2>1, <3>1, <3>2
  <2>6. trades \ bought = Recorded(FillsIn(S) \ FillsOf(S, "buy"))
    <3>1. \A x : x \in trades <=> \E t \in FillsIn(S) : x = ObservedTrade(t)
      BY DEF Recorded
    <3>2. \A x : x \in bought <=> \E t \in FillsOf(S, "buy") : x = ObservedTrade(t)
      BY DEF Recorded
    <3>3. \A x : x \in trades \ bought <=> \E t \in FillsIn(S) \ FillsOf(S, "buy") : x = ObservedTrade(t)
      BY <2>3, <3>1, <3>2
    <3> QED
      BY <3>3 DEF Recorded
  <2> QED
    BY <2>4, <2>5, <2>6
<1>3. /\ IsFiniteSet(trades) /\ Cardinality(bought) = Cardinality(FillsOf(S, "buy"))
      /\ Cardinality(trades \ bought) = Cardinality(FillsIn(S) \ FillsOf(S, "buy"))
  BY <1>2, FillsAreFinite, RecordsOfTrades DEF Recorded
<1>4. IsFiniteSet(trades) /\ bought \in SUBSET trades
  BY <1>2, <1>3
<1>5. (\A t \in trades : t.qty = Lot) /\ (\A t \in trades : t.side = "buy" <=> t \in bought)
  BY <1>2
<1>6. MapThenSumSet(LAMBDA t : IF t.side = "buy" THEN t.qty ELSE -t.qty, trades)
        = Lot * Cardinality(bought) - Lot * Cardinality(trades \ bought)
  BY <1>4, <1>5, FillsSum
<1> QED
  BY <1>3, <1>6

\* If every owner is settled, a report's net inventory is what the orders that are
\* credited to the legacy program left.
LEMMA NetIsGained ==
  ASSUME MarketTyped, LifeFits, OwnClients, AllPairs, NEW ob, NEW C \in SUBSET Claims, Faithful(ob, C),
         \A o \in Placed : order[o].known \/ o \in Named(C)
  PROVE  LegacyNet(ob, Validated(ob)) = Gained(CreditedBy(C), "BTC")
PROOF
<1> PICK S : S = CreditedBy(C)
  OBVIOUS
<1> PICK v : v = Validated(ob)
  OBVIOUS
<1> PICK trades : trades = LegacyTrades(ob, v)
  OBVIOUS
<1> PICK fees : fees = {f \in v.fees : f.asset = "BTC" /\ f.trade \in Ids(trades)}
  OBVIOUS
<1>1. v.trades = Recorded(TradeIds) /\ v.fees = {ObservedFee(t) : t \in Feed}
  BY AllIsValid DEF Faithful
<1>2. \A t : /\ ObservedTrade(t).id = t /\ ObservedTrade(t).order = t[1] /\ ObservedTrade(t).qty = Lot
             /\ ObservedTrade(t).side = order[t[1]].side
  BY DEF ObservedTrade
<1>3. PICK ids : ids = MatchedIds(v) \cup {o.id : o \in {p \in ob.orders : p.ownership = "legacy"}}
  OBVIOUS
<1>4. ids = S
  <2>1. MatchedIds(v) = Named(C)
    BY OwnershipCodesAre
  <2>2. ob.orders = {RecordOf(o) : o \in Placed}
    BY DEF Faithful
  <2>3. \A o : /\ RecordOf(o).id = o
               /\ RecordOf(o).ownership = IF order[o].known THEN order[o].owner ELSE "unknown"
    BY RecordSays
  <2>4. ASSUME NEW o \in ids PROVE o \in S
    <3>1. CASE o \in Named(C)
      BY <3>1 DEF CreditedBy
    <3>2. CASE \E p \in ob.orders : p.ownership = "legacy" /\ o = p.id
      <4>1. PICK p \in Placed : RecordOf(p).ownership = "legacy" /\ o = RecordOf(p).id
        BY <2>2, <3>2
      <4>2. o = p /\ order[p].owner = "legacy"
        BY <2>3, <4>1
      <4> QED
        BY <4>2 DEF LegacyOrders, CreditedBy
    <3> QED
      BY <1>3, <2>1, <2>4, <3>1, <3>2
  <2>5. ASSUME NEW o \in S PROVE o \in ids
    <3>1. o \in Placed /\ (o \in Named(C) \/ order[o].owner = "legacy")
      BY DEF LegacyOrders, CreditedBy, Named, Claimable
    <3>2. CASE order[o].known /\ order[o].owner = "legacy"
      <4> PICK x : x = RecordOf(o)
        OBVIOUS
      <4>1. x \in ob.orders /\ x.ownership = "legacy" /\ x.id = o
        BY <2>2, <2>3, <3>1, <3>2
      <4> QED
        BY <1>3, <4>1
    <3>3. CASE o \in Named(C)
      BY <1>3, <2>1, <3>3
    <3> QED
      BY <3>1, <3>2, <3>3
  <2> QED
    BY <2>4, <2>5
<1>5. trades = {t \in v.trades : t.order \in S}
  BY <1>3, <1>4 DEF LegacyTrades
<1>6. trades = Recorded(FillsIn(S))
  BY <1>1, <1>2, <1>5 DEF Recorded, FillsIn
<1>7. Ids(trades) = FillsIn(S)
  BY <1>2, <1>6 DEF Ids, Recorded
<1>8. MapThenSumSet(LAMBDA t : IF t.side = "buy" THEN t.qty ELSE -t.qty, trades)
        = Lot * Cardinality(FillsOf(S, "buy")) - Lot * Cardinality(FillsIn(S) \ FillsOf(S, "buy"))
  BY <1>6, SumOfFills, Zenon
<1>9. fees = {ObservedFee(t) : t \in Charged(S)}
  <2>1. \A t : ObservedFee(t).asset = FeeOf(t) /\ ObservedFee(t).trade = t
    BY DEF ObservedFee
  <2>2. \A t : t \in Charged(S) <=> t \in Feed /\ t \in FillsIn(S) /\ FeeOf(t) = "BTC"
    BY DEF Charged, Feed, FillsIn, None
  <2>3. \A f : f \in fees <=> \E t \in Feed : f = ObservedFee(t) /\ FeeOf(t) = "BTC" /\ t \in FillsIn(S)
    BY <1>1, <1>7, <2>1
  <2> QED
    BY <2>2, <2>3
<1>10. MapThenSumSet(LAMBDA f : f.amount, fees) = Cardinality(Charged(S))
  <2>1. IsFiniteSet(fees) /\ Cardinality(fees) = Cardinality(Charged(S))
    BY <1>9, FillsAreFinite, RecordsOfFees
  <2>2. \A f \in fees : f.amount = 1
    BY <1>9 DEF ObservedFee
  <2> QED
    BY <2>1, <2>2, FeesSum
<1>11. LegacyNet(ob, v) = MapThenSumSet(LAMBDA t : IF t.side = "buy" THEN t.qty ELSE -t.qty, trades)
                            - MapThenSumSet(LAMBDA f : f.amount, fees)
  BY DEF LegacyNet
<1> QED
  BY <1>8, <1>10, <1>11, GainedIsOfFills

\* CLEAN is to hold no code.
LEMMA CleanIsNoCode ==
  ASSUME NEW codes
  PROVE  Status(codes) = "CLEAN" <=> codes = {}
PROOF
  BY DEF Status

\* Nothing is left to explain of an inventory exactly if it is the net one.
LEMMA InventoryIsExplained ==
  ASSUME NEW btc \in Nat, NEW net \in Int
  PROVE  Inventory(TRUE, btc, net, {})[2] = {} <=> btc = net
PROOF
<1>1. \A a, b : <<a, b>>[2] = b
  OBVIOUS
<1>2. \A x : {x} # {}
  OBVIOUS
<1>3. PICK found : found = Inventory(TRUE, btc, net, {})
  OBVIOUS
<1>4. CASE net < 0
  <2>1. found = <<"preexisting_btc_required", {"preexisting_btc_required"}>>
    BY <1>3, <1>4 DEF Inventory
  <2>2. found[2] # {}
    BY <1>1, <1>2, <2>1, Zenon
  <2>3. btc # net
    BY <1>4
  <2> QED
    BY <1>3, <2>2, <2>3, Zenon
<1>5. CASE net = 0 /\ btc = 0
  <2>1. found = <<"cash_only", {}>>
    BY <1>3, <1>5 DEF Inventory
  <2>2. found[2] = {}
    BY <1>1, <1>2, <2>1, Zenon
  <2>3. btc = net
    BY <1>5
  <2> QED
    BY <1>3, <2>2, <2>3, Zenon
<1>6. CASE net = 0 /\ btc # 0
  <2>1. found = <<"external_or_unattributed_btc", {"unattributed_btc_inventory"}>>
    BY <1>3, <1>6 DEF Inventory
  <2>2. found[2] # {}
    BY <1>1, <1>2, <2>1, Zenon
  <2>3. btc # net
    BY <1>6
  <2> QED
    BY <1>3, <2>2, <2>3, Zenon
<1>7. CASE net > 0 /\ btc = net
  <2>1. found = <<"confirmed_legacy_btc", {}>>
    BY <1>3, <1>7 DEF Inventory
  <2>2. found[2] = {}
    BY <1>1, <1>2, <2>1, Zenon
  <2>3. btc = net
    BY <1>7
  <2> QED
    BY <1>3, <2>2, <2>3, Zenon
<1>8. CASE net > 0 /\ btc > net
  <2>1. found = <<"mixed_legacy_and_unattributed_btc", {"unattributed_btc_inventory"}>>
    BY <1>3, <1>8 DEF Inventory
  <2>2. found[2] # {}
    BY <1>1, <1>2, <2>1, Zenon
  <2>3. btc # net
    BY <1>8
  <2> QED
    BY <1>3, <2>2, <2>3, Zenon
<1>9. CASE net > 0 /\ btc < net
  <2>1. found = <<"legacy_btc_balance_shortfall", {"legacy_btc_balance_mismatch"}>>
    BY <1>3, <1>9 DEF Inventory
  <2>2. found[2] # {}
    BY <1>1, <1>2, <2>1, Zenon
  <2>3. btc # net
    BY <1>9
  <2> QED
    BY <1>3, <2>2, <2>3, Zenon
<1>10. \/ net < 0
       \/ net = 0 /\ btc = 0
       \/ net = 0 /\ btc # 0
       \/ net > 0 /\ btc = net
       \/ net > 0 /\ btc > net
       \/ net > 0 /\ btc < net
  OBVIOUS
<1> QED
  BY <1>4, <1>5, <1>6, <1>7, <1>8, <1>9, <1>10, Zenon

LEMMA CleanIsSound ==
  AccountInv => CleanIsASoundAccount
PROOF
<1> SUFFICES ASSUME MarketTyped, LifeFits, Covered, ReportInv, Judged, harm = <<None>>
             PROVE  report.status = "CLEAN" <=> SoundAccount
  BY Zenon DEF AccountInv, MarketInv, CleanIsASoundAccount
<1> PICK given : JudgedOn(harm, hints, given) /\ report = Reconciled(Observed(harm, given))
  BY Zenon DEF ReportInv
<1> PICK ob : ob = Observed(<<None>>, given)
  OBVIOUS
<1>1. JudgedOn(<<None>>, hints, given) /\ report = Reconciled(ob)
  BY Zenon
<1>2. hints \in SUBSET Claims
  BY <1>1 DEF JudgedOn
<1>3. Faithful(ob, hints)
  BY <1>1, NoHarmIsFaithful, Zenon
<1> PICK v : v = Validated(ob)
  OBVIOUS
<1> PICK facts : facts = FactCodes(ob, v)
  OBVIOUS
<1> PICK net : net = LegacyNet(ob, v)
  OBVIOUS
<1> PICK btc : btc = BTC(ob)
  OBVIOUS
<1>4. report.status = "CLEAN" <=> facts \cup Inventory(ob.complete, btc, net, facts)[2] = {}
  <2>1. report.status = Status(facts \cup Inventory(ob.complete, btc, net, facts)[2])
    BY <1>1 DEF Reconciled
  <2> QED
    BY <2>1, CleanIsNoCode, Zenon
<1>5. report.status = "CLEAN" <=> facts = {} /\ Inventory(TRUE, btc, net, {})[2] = {}
  <2>1. ob.complete = TRUE
    BY <1>3 DEF Faithful
  <2>2. \A A, B : A \cup B = {} <=> A = {} /\ B = {}
    OBVIOUS
  <2> QED
    BY <1>4, <2>1, <2>2, Zenon
<1>6. btc = Holding("BTC") /\ btc \in Nat
  <2>1. ob.balances = ObservedBalances
    BY <1>3 DEF Faithful
  <2>2. btc = Holding("BTC")
    BY <2>1, BTCFound
  <2>3. Holding("BTC") \in Int /\ Held("sell") \in Nat
    BY BTCIsANumber, HeldIsForOrders
  <2>4. Held("sell") <= Holding("BTC")
    BY DEF Covered
  <2>5. \A a \in Int, b \in Nat : b <= a => a \in Nat
    OBVIOUS
  <2> QED
    BY <2>2, <2>3, <2>4, <2>5
<1>7. Gained(CreditedBy(hints), "BTC") \in Int
  BY GainsAreNumbers
<1>8. facts = {} => AllPairs /\ OwnClients
  <2>1. facts = {} => OrderCodes(ob) = {}
    BY DEF FactCodes
  <2> QED
    BY <1>3, <2>1, OrderCodesAre
<1>9. SoundAccount => AllPairs /\ OwnClients
  BY DEF SoundAccount, AllPairs, OwnClients
<1> DEFINE Right ==
      /\ \A c \in hints : \E o \in Claimable : NamedBy(c, o)
      /\ \A c, d \in hints : (\E o \in Claimable : NamedBy(c, o) /\ NamedBy(d, o)) => c = d
    Owned ==
      \A o \in Placed : /\ order[o].known \/ o \in Named(hints)
                        /\ life[o] = "open" /\ order[o].owner = "manual" => o \in CreditedBy(hints)
<1>10. ASSUME AllPairs, OwnClients PROVE facts = {} <=> Right /\ Owned
  <2>1. HintCodes(ob, v) = {} <=> Right
    BY <1>2, <1>3, <1>10, HintCodesAre
  <2>2. OwnershipCodes(ob, v) = {} <=> Owned
    BY <1>2, <1>3, <1>10, OwnershipCodesAre
  <2>3. OrderCodes(ob) = {}
    BY <1>3, <1>10, OrderCodesAre
  <2>4. BalanceCodes(ob) = {} /\ LiabilityCodes(ob) = {}
    BY <1>3, <1>10, BalanceCodesAre
  <2>5. TradeCodes(ob) = {}
    BY <1>3, <1>10, TradeCodesAre
  <2>6. FillCodes(v) = {} /\ FeeCodes(ob, v) = {}
    BY <1>3, <1>10, AllIsValid
  <2>7. HeldCodes(ob) = {}
    BY <1>3, HeldIsExplained
  <2> HIDE DEF Right, Owned
  <2>8. facts = HintCodes(ob, v) \cup OwnershipCodes(ob, v)
    BY <2>3, <2>4, <2>5, <2>6, <2>7 DEF FactCodes
  <2> QED
    BY <2>1, <2>2, <2>8
<1>11. ASSUME AllPairs, OwnClients, Right, Owned
       PROVE  Inventory(TRUE, btc, net, {})[2] = {} <=> Holding("BTC") = Gained(CreditedBy(hints), "BTC")
  <2>1. net = Gained(CreditedBy(hints), "BTC")
    BY <1>2, <1>3, <1>11, NetIsGained
  <2>2. net \in Int
    BY <1>7, <2>1
  <2>3. Inventory(TRUE, btc, net, {})[2] = {} <=> btc = net
    BY <1>6, <2>2, InventoryIsExplained, Zenon
  <2> QED
    BY <1>6, <2>1, <2>3, Zenon
<1>12. SoundAccount <=> /\ AllPairs /\ OwnClients /\ Right /\ Owned
                        /\ Holding("BTC") = Gained(CreditedBy(hints), "BTC")
  <2>1. Credited = CreditedBy(hints)
    BY DEF Credited, CreditedBy, Named
  <2>2. \A o \in Placed :
          order[o].known \/ o \in Named(hints) <=> order[o].known \/ \E c \in hints : NamedBy(c, o)
    BY DEF Named, Claimable
  <2> HIDE DEF Right
  <2>3. SoundAccount <=> /\ AllPairs /\ OwnClients /\ Right /\ Owned
                         /\ Holding("BTC") = Gained(Credited, "BTC")
    BY <2>1, <2>2 DEF SoundAccount, AllPairs, OwnClients, Right
  <2> QED
    BY <2>1, <2>3
<1> HIDE DEF Right, Owned
<1> QED
  BY <1>5, <1>8, <1>10, <1>11, <1>12

\* A report on a faithful observation is CLEAN exactly if the account is sound
\* (reconcile_account), for every account and every set of claims: every order has
\* an owner that is known or that a hint names, no other order of a person rests,
\* every hint names an order of its own with every detail right, and the BTC held
\* are those that the orders credited to the legacy program left.
THEOREM CleanReportsAreSoundAccounts ==
  AccountSpec => []CleanIsASoundAccount
PROOF
  BY AccountInvariant, CleanIsSound, PTL

=============================================================================
