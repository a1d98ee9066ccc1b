\* Collection: an order, a deposit and a withdrawal around and between the reads.
\* Judgement: any two orders of eight kinds.
SPECIFICATION MCSpec
CONSTANTS
  Deposits = {d1}
  Withdrawals = {w1}
  Orders = {o1}
  TicksPerSecond = 5
  MaxNow = 18
  OrderIds = {a1, a2}
  Kinds <- MCKinds
  FeeAssets = {"none", "BTC"}
  External = {0, 1}
SYMMETRY Symmetry
INVARIANTS
  TypeOK
  CleanIsTheAccount
  CleanRulesOutOrders
  AccountTypeOK
  OnlyLegacyOrdersCount
  CleanIsASoundAccount
  HarmIsNoticed
CHECK_DEADLOCK FALSE
