SPECIFICATION Spec
CONSTANTS
  Mode = "persistent"
  Prices = {1, 2, 3}
  InitialCash = 8
  WeightPercents = {50}
  LossPercent = 8
  DrawdownPercent = 20
  CooldownDays = 2
  MaxGap = 1
  MaxDay = 4
PROPERTY
  DisarmLiquidates
\* The replay ends with its last candle.
CHECK_DEADLOCK FALSE
