------------------------------- MODULE RiskGate -------------------------------
(***************************************************************************)
(* backtest.py: the risk state of run_backtest in precise execution mode,  *)
(* over every path of prices, signals and missing or thin execution        *)
(* references. A candle is one turn of the loop: observe the account,      *)
(* perhaps re-arm, raise or expire the rolling loss gate, perhaps disarm,  *)
(* and then rebalance under whatever gates are up. A candle may be days    *)
(* later than the one before it, which makes the signal stale; its         *)
(* decision and its reference follow the close of the one before.          *)
(*                                                                         *)
(* Amounts are whole: lots of bitcoin, units of cash, prices in units per  *)
(* lot. Fees, slippage, rounding increments and exposure caps are left     *)
(* out; a minimum or a cap on the volume that keeps an order from being    *)
(* filled is the day's fillable quantity.                                  *)
(***************************************************************************)
EXTENDS Integers, Sequences

CONSTANTS
  Mode,            \* DrawdownPolicyMode
  Prices,          \* reference and closing prices
  InitialCash,
  WeightPercents,  \* target weights of long signals
  LossPercent,     \* rolling_24h_loss_threshold
  DrawdownPercent, \* max_drawdown_threshold
  CooldownDays,    \* drawdown_rearm_cooldown_days
  MaxGap,          \* bound of the model: days missing before a candle
  MaxDay           \* bound of the model

ASSUME RiskAssumption ==
  /\ Mode \in {"persistent", "cooldown_rearm", "disabled"}
  /\ Prices \subseteq Nat \ {0} /\ Prices # {}
  /\ {InitialCash, CooldownDays, MaxDay} \subseteq Nat \ {0} /\ MaxGap \in Nat
  /\ WeightPercents \cup {LossPercent, DrawdownPercent} \subseteq 1..99

\* Three instants matter in a day: the close of the day before, the decision a
\* quarter of an hour later, and the execution reference some time after that.
Day == 3
DecisionTime(d)  == Day * d + 1
ReferenceTime(d) == Day * d + 2

NoTime == -1

VARIABLES
  day,           \* the days that have closed
  cash, btc,
  close,         \* the last closing price
  observations,  \* risk_observations: times and equities, oldest first
  highWater,     \* high_water_equity
  disarmed,      \* drawdown_disarmed
  eligibleAt,    \* drawdown_rearm_eligible_at
  blockedUntil,  \* rolling_loss_blocked_until
  epoch,         \* risk_epoch
  liquid,        \* history: the day could have sold every lot it began with
  lossAt,        \* history: the last observation with a rolling loss
  disarmedAt     \* drawdown_disarmed_at, kept when the account is re-armed

risk == <<highWater, disarmed, eligibleAt, blockedUntil, epoch, lossAt, disarmedAt>>
vars == <<day, cash, btc, close, observations, risk, liquid>>

Equity(price) == cash + btc * price

\* A signal is long with some weight, or out of the market, or its data are invalid.
Signals ==
  [usable : {TRUE}, weight : {0} \cup WeightPercents] \cup [usable : {FALSE}, weight : {0}]

\* No reference: nothing can be executed and the last close values the account.
NoReference == 0

\* What a candle brings. A minimum or a volume cap lets none, one or all lots trade.
Inputs ==
  [signal : Signals, gap : 0..MaxGap, reference : Prices, fillable : {0, 1, InitialCash}]
    \cup [signal : Signals, gap : 0..MaxGap, reference : {NoReference}, fillable : {0}]

\* The signal can be relied on, and is of the close that the candle opens with.
Current(i) == i.signal.usable /\ i.gap = 0

Init ==
  /\ day = 0
  /\ cash = InitialCash /\ btc = 0
  /\ close \in Prices
  /\ observations = <<>>
  /\ highWater = InitialCash
  /\ disarmed = FALSE /\ disarmedAt = NoTime /\ eligibleAt = NoTime
  /\ blockedUntil = NoTime /\ lossAt = NoTime
  /\ epoch = 1
  /\ liquid = FALSE

-----------------------------------------------------------------------------
(* One day's observation, given what it brings                             *)

ObservedAt(i)    == IF i.reference = NoReference THEN DecisionTime(day) ELSE ReferenceTime(day)
ObservedPrice(i) == IF i.reference = NoReference THEN close ELSE i.reference
Observed(i)      == Equity(ObservedPrice(i))

MaxOf(m, n) == IF m > n THEN m ELSE n

Observation(t, e) == [time |-> t, equity |-> e]

\* The record starts with the capital, dated like the first day's observation.
Before(i) ==
  IF day = 0 THEN <<Observation(ObservedAt(i), InitialCash)>> ELSE observations

\* can_rearm: decided at the decision time, not at the later reference.
CanRearm_AtObservation(i) ==
  /\ Mode = "cooldown_rearm" /\ disarmed
  /\ btc = 0
  /\ ObservedAt(i) >= eligibleAt
  /\ Current(i) /\ i.signal.weight > 0

CanRearm(i) ==
  /\ Mode = "cooldown_rearm" /\ disarmed
  /\ btc = 0
  /\ DecisionTime(day) >= eligibleAt
  /\ Current(i) /\ i.signal.weight > 0

\* The high-water mark of the observation; a new epoch starts from the cash.
HighWater_NotReset(i) == MaxOf(highWater, Observed(i))

HighWater(i) == IF CanRearm(i) THEN cash ELSE MaxOf(highWater, Observed(i))

\* The newest observation that is at least a day old.
Reference24h(i) ==
  LET old == {n \in DOMAIN Before(i) : Before(i)[n].time <= ObservedAt(i) - Day}
  IN IF old = {} THEN 0
     ELSE Before(i)[CHOOSE n \in old : \A m \in old : m <= n].equity

RollingLoss(i) ==
  LET e == Reference24h(i)
  IN e > 0 /\ 100 * Observed(i) <= (100 - LossPercent) * e

\* The gate is extended by every new loss, and dropped at its end.
BlockedUntil_FirstLoss(i) ==
  IF RollingLoss(i) /\ blockedUntil = NoTime THEN ObservedAt(i) + Day
  ELSE IF ObservedAt(i) >= blockedUntil THEN NoTime
  ELSE blockedUntil

BlockedUntil(i) ==
  IF RollingLoss(i) THEN ObservedAt(i) + Day
  ELSE IF ObservedAt(i) >= blockedUntil THEN NoTime
  ELSE blockedUntil

Blocked(i) == BlockedUntil(i) # NoTime

StillDisarmed(i) == disarmed /\ ~CanRearm(i)

Disarms(i) ==
  /\ Mode # "disabled"
  /\ ~StillDisarmed(i)
  /\ 100 * Observed(i) <= (100 - DrawdownPercent) * HighWater(i)

Disarmed(i) == StillDisarmed(i) \/ Disarms(i)

-----------------------------------------------------------------------------
(* _execute_rebalance                                                      *)

\* The lots the signal asks for, before any gate.
Wanted(i) == (i.signal.weight * Observed(i)) \div (100 * ObservedPrice(i))

\* The early returns. The one for a signal that is invalid or stale passes over
\* a disarmed account; the one for the rolling loss gate comes before anything that
\* a disarmed account does, and takes a stale signal for what it wanted.
Holds(i) ==
  \/ i.reference = NoReference
  \/ ~Current(i) /\ ~Disarmed(i)
  \/ Blocked(i) /\ Wanted(i) > btc

Desired(i) == IF Disarmed(i) THEN 0 ELSE Wanted(i)

\* The lots after the day: none if an early return holds them, otherwise as far
\* towards the desired lots as the day fills and the cash pays for. Inside the
\* rebalancing band nothing moves either, unless risk is to be reduced to cash.
LotsAfter(i) ==
  LET wanted   == Desired(i)
      lower    == MaxOf(wanted, btc - i.fillable)
      upper    == MaxOf(btc, IF wanted < btc + i.fillable THEN wanted ELSE btc + i.fillable)
      traded   == IF wanted < btc THEN lower ELSE upper
      reducing == (Disarmed(i) \/ i.signal.weight = 0) /\ btc > 0
  IN IF Holds(i) THEN {btc} ELSE IF reducing THEN {traded} ELSE {btc, traded}

-----------------------------------------------------------------------------

\* Only the newest observation that is a day old, and later ones, can matter.
Recent(obs, t) ==
  LET old == {n \in DOMAIN obs : obs[n].time <= t - Day}
  IN IF old = {} THEN obs
     ELSE SubSeq(obs, CHOOSE n \in old : \A m \in old : m <= n, Len(obs))

\* One turn of the loop.
NextDay ==
  \E i \in Inputs, price \in Prices :
    /\ day' = day + i.gap + 1 /\ day' <= MaxDay
    /\ liquid' = (i.reference # NoReference /\ i.fillable >= btc)
    /\ btc' \in LotsAfter(i)
    /\ cash' = cash - (btc' - btc) * ObservedPrice(i)
    /\ close' = price
    /\ observations' =
         Recent(Before(i) \o <<Observation(ObservedAt(i), cash' + btc' * ObservedPrice(i)),
                                  Observation(Day * day', cash' + btc' * price)>>,
                Day * day')
    /\ highWater' = MaxOf(HighWater(i), cash' + btc' * price)
    /\ blockedUntil' = BlockedUntil(i)
    /\ lossAt' = IF RollingLoss(i) THEN ObservedAt(i) ELSE lossAt
    /\ epoch' = IF CanRearm(i) THEN epoch + 1 ELSE epoch
    /\ disarmed' = Disarmed(i)
    /\ \/ Disarms(i) /\ disarmedAt' = ObservedAt(i)
          /\ eligibleAt' = IF Mode = "cooldown_rearm" THEN ObservedAt(i) + CooldownDays * Day
                           ELSE NoTime
       \/ ~Disarms(i) /\ StillDisarmed(i) /\ UNCHANGED <<disarmedAt, eligibleAt>>
       \/ ~Disarms(i) /\ ~StillDisarmed(i) /\ UNCHANGED disarmedAt /\ eligibleAt' = NoTime

Next == NextDay

Spec == Init /\ [][Next]_vars

-----------------------------------------------------------------------------
(* Properties                                                              *)

Buys == btc' > btc

\* The type invariant. Holdings are never negative and cash never runs out, only a disarmed account
\* under the re-arming policy waits for a cooldown, and each cooldown that ended
\* in a re-arming began an epoch.
TypeOK ==
  /\ day \in 0..MaxDay
  /\ cash \in Nat \ {0} /\ btc \in Nat
  /\ close \in Prices
  /\ highWater \in Nat /\ highWater >= Equity(close)
  /\ disarmed \in BOOLEAN
  /\ disarmed => Mode # "disabled" /\ disarmedAt # NoTime
  /\ eligibleAt # NoTime <=> disarmed /\ Mode = "cooldown_rearm"
  /\ lossAt <= Day * day /\ disarmedAt <= Day * day
  /\ blockedUntil # NoTime => blockedUntil = lossAt + Day
  /\ epoch \in 1..(day + 1)
  /\ epoch > 1 => Mode = "cooldown_rearm"

\* An account that was disarmed buys nothing before the whole cooldown has
\* passed at a decision time, however many days, losses, thin or missing
\* references and signals lie between; without the re-arming policy it never
\* buys again.
NoPurchaseInCooldown ==
  [][Buys /\ disarmedAt' # NoTime =>
       /\ Mode = "cooldown_rearm"
       /\ DecisionTime(day) >= disarmedAt' + CooldownDays * Day]_vars

\* Nothing is bought within a day of a rolling loss, the newest one counting,
\* whatever a re-arming does to the drawdown state meanwhile.
NoPurchaseAfterLoss ==
  [][Buys /\ lossAt' # NoTime => ReferenceTime(day) >= lossAt' + Day]_vars

\* A new epoch begins with all risk gone and is not ended at once by what the
\* account lost in the epoch before.
RearmStartsAfresh ==
  [][epoch' # epoch => btc = 0 /\ ~disarmed']_vars

\* docs/DRAWDOWN_COUNTERFACTUAL.md:32: the 20% trigger comes with a forced
\* liquidation. With a reference and volume enough for every lot, a day that
\* leaves the account disarmed leaves it without bitcoin.
DisarmLiquidates ==
  [][disarmed' /\ liquid' => btc' = 0]_vars

=============================================================================
