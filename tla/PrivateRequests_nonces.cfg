\* Two clients of one key and one budget, one with a nonce source of its own;
\* threads are scheduled fairly. A pacer whose ceiling takes two to four requests.
SPECIFICATION MCSpec
CONSTANTS
  Clients = {c1, c2}
  Injected = {c2}
  NoClient = NoClient
  Costs = {1, 2}
  CostLimit = 4
  MaxNonce = 3
  PrivateCosts = {1, 2}
  Ceiling = 3
  Interval = 3
  Delay = 2
  Leftover = {0, 4}
  MaxClock = 8
INVARIANTS
  TypeOK
  NoNonceIsRefused
  BudgetBoundsRequests
  KrakensLimitsHold
PROPERTIES
  LockIsFreed
