\* The comment on the closing fence.
SPECIFICATION Spec
CONSTANTS
  Deposits = {d1}
  Withdrawals = {}
  Orders = {}
  TicksPerSecond = 5
  MaxNow = 20
INVARIANTS
  ActivityBeforeTheFencePreventsClean
CHECK_DEADLOCK FALSE
