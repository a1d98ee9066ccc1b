\* Two processes, two wallets Kraken may report and an operator may pin; fair.
SPECIFICATION FairSpec
CONSTANTS
  Procs = {p1, p2}
  Accounts = {main}
  Wallets = {w1, w2}
  NoWallet = NoWallet
  NoProc = NoProc
  NoSnapshot = NoSnapshot
  Skews <- MCSlowSkews
  SkewLimit = 1
  MaxTime = 1
INVARIANTS
  TypeOK
  BindingContinuity
  OneRun
PROPERTIES
  LeaseIsFreed
