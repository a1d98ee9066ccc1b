SPECIFICATION Spec
CONSTANTS
  Procs = {p1, p2}
  NoProc = NoProc
  Scopes = {day1}
  Inputs = {in1, in2}
  Bodies = {body1, body2}
  Terms = {t1}
  Observations = {at1}
  Reports = {rep1, rep2}
  ClientKey <- MCDistinctKey
SYMMETRY Symmetry
INVARIANTS
  TypeOK
  OneIntentPerDay
  AckedIsRecorded
  ConflictMeansDifferent
  FailedInitializeIsBenign
PROPERTIES
  AppendOnly
  BookSpec
