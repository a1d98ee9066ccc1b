\* Two days whose intents may share a client order id; fair scheduling.
SPECIFICATION FairSpec
CONSTANTS
  Procs = {p1, p2}
  NoProc = NoProc
  Scopes = {day1, day2}
  Inputs = {in1}
  Bodies = {body1}
  Terms = {t1}
  Observations = {}
  Reports = {}
  ClientKey <- MCCollidingKey
INVARIANTS
  ClientOrderNamesOneIntent
PROPERTIES
  EveryCallReturns
  EventuallyMigrated
