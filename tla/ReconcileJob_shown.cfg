\* What latest_reconciliation says after a run that a gate disarmed.
SPECIFICATION Spec
CONSTANTS
  Procs = {p1, p2}
  Accounts = {main}
  Wallets = {w1, w2}
  NoWallet = NoWallet
  NoProc = NoProc
  NoSnapshot = NoSnapshot
  Skews <- MCSlowSkews
  SkewLimit = 1
  MaxTime = 1
INVARIANTS
  DisarmedIsShown
