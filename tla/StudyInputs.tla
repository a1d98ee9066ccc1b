------------------------------ MODULE StudyInputs ------------------------------
(***************************************************************************)
(* From a tape of trades to what a replay may see: the daily bars of       *)
(* kraken_archive_csv.py, and of historical_study.py the choice of the     *)
(* clean history, its chronological split and the inputs of a replay.      *)
(*                                                                         *)
(* A tape says of each day what was traded: nothing (Quiet), or a value    *)
(* that stands for the day's trades, in the execution window and out of    *)
(* it. A bar is a day with its value. A set of bars stands for the         *)
(* normalized file, whose bytes it determines, and for its hash.           *)
(***************************************************************************)
EXTENDS Integers, FiniteSets

CONSTANTS
  LastDay,      \* the last day a tape can hold
  Cutoff,       \* cutoff_exclusive, a day
  Warmup        \* WARMUP_DAYS

ASSUME InputsAssumption ==
  /\ LastDay \in Nat /\ Cutoff \in 2..(LastDay + 1)
  /\ Warmup \in Nat \ {0}

Quiet == 0

\* iter_archive_daily_bars: no bar is made up for a day without trades.
Bars(tape) == {<<d, tape[d]>> : d \in {e \in 1..LastDay : tape[e] # Quiet}}

\* The import's checks: every trade is before the cutoff and the tape reaches it.
Complete(tape) ==
  /\ \A d \in Cutoff..LastDay : tape[d] = Quiet
  /\ tape[Cutoff - 1] # Quiet

Days(bars) == {b[1] : b \in bars}

First(bars) == CHOOSE d \in Days(bars) : \A e \in Days(bars) : d <= e
Last(bars)  == CHOOSE d \in Days(bars) : \A e \in Days(bars) : d >= e

-----------------------------------------------------------------------------
(* The clean history                                                       *)

\* Sequences of consecutive days, as their first and last.
Runs(D) == {r \in D \X D : r[1] <= r[2] /\ r[1]..r[2] \subseteq D}

Length(r) == r[2] - r[1] + 1

\* select_longest_contiguous_sequence.
Longest(D) ==
  CHOOSE r \in Runs(D) : \A q \in Runs(D) :
    Length(q) < Length(r) \/ (Length(q) = Length(r) /\ r[1] <= q[1])

Clean(bars) ==
  LET r == Longest(Days(bars)) IN {b \in bars : b[1] \in r[1]..r[2]}

LongEnough(bars) == bars # {} /\ Length(Longest(Days(bars))) > Warmup + 4

-----------------------------------------------------------------------------
(* The split of the evaluated days, and what a replay reads of a history   *)
(* that lasts from day r[1] to day r[2]                                    *)

Evaluated(r) == Length(r) - Warmup

\* _split_boundaries.
Development(n) == (n * 60) \div 100
Validation(n)  == (n * 20) \div 100
Holdout(n)     == n - Development(n) - Validation(n)

PreHoldout(r) == Development(Evaluated(r)) + Validation(Evaluated(r))

FirstHoldoutDay(r) == r[1] + Warmup + PreHoldout(r)

\* bars_to_causal_inputs: the decision after the close of a day is executed on
\* the day after it.
Decision(d) == d - 1

\* The days whose bars a replay of the first n candles reads: the candles, and
\* the execution references up to its last decision, which is of the last but
\* one candle.
Reads(r, n) ==
  (r[1]..(r[1] + n - 1))
    \cup {d \in (r[1] + 1)..r[2] : Decision(d) <= r[1] + n - 2}

\* The replays of the 27 policies and of the cost cases other than the primary one.
TuningReads(r) == Reads(r, Warmup + PreHoldout(r))

=============================================================================
