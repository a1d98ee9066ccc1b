\* Two downloads in one directory, killed and rerun; the tape passes the cutoff
\* and trades may share a time across the end of a page.
SPECIFICATION Spec
CONSTANTS
  Procs = {p1, p2}
  PageSize = 3
  MaxAttempts = 2
  Cutoff = 3
  MaxTrades = 5
  Clocks = {1}
INVARIANTS
  TypeOK
  DatasetIsTheTape
  CrashLeavesResumable
