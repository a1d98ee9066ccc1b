SPECIFICATION Spec
CONSTANTS
  Procs = {p1}
  Releases = {r1, r2}
  Modes = {shadow}
  Data = {a, b}
  Day = 2
  Delay = 1
  MaxAge = 0
  Skews = {0, 1}
  MaxTime = 5
  Unknown = Unknown
  SignalLimit = 1
  Observations = {1}
INVARIANTS
  TypeOK
  DecisionIsFinal
  RetryFindsItsDecision
  PublishedIsOneMoment
SYMMETRY Symmetry
