\* What the script says of a saved batch, with a clock that may be set back.
SPECIFICATION Spec
CONSTANTS
  Procs = {p1}
  PageSize = 2
  MaxAttempts = 1
  Cutoff = 4
  MaxTrades = 4
  Clocks = {1, 2}
INVARIANTS
  SavedBatchResumes
