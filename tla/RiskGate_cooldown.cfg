\* Replay: up to six candles over six days, with gaps, of prices, signals and
\* references. Files: an import of either of two versions of the archive, two
\* studies and a counterfactual.
SPECIFICATION MCSpec
CONSTANTS
  Mode = "cooldown_rearm"
  Prices = {1, 2}
  InitialCash = 8
  WeightPercents = {50, 80}
  LossPercent = 8
  DrawdownPercent = 20
  CooldownDays = 2
  MaxGap = 1
  MaxDay = 6
  LastDay = 7
  Cutoff = 7
  Warmup = 1
  Tapes = {"t1", "t2"}
  Pinned = "t1"
  Trades <- MCTrades
  Studies = {s1, s2}
SYMMETRY StudySymmetry
INVARIANTS
  TypeOK
  StudyIsOfThePinnedTape
  ManifestVouches
  CounterfactualIsOfTheSealedStudy
PROPERTIES
  NoPurchaseInCooldown
  NoPurchaseAfterLoss
  RearmStartsAfresh
\* The replay ends with its last candle.
CHECK_DEADLOCK FALSE
