CONSTANTS
  Keys = {k1, k2}
  UserVals = {u1, u2}
  EnvWins = {k1}
  EnvFills = {k2}
  LegacyFile = FALSE
  Threads = {t1}
  Ops <- GetAndSet
  MaxItem = 1
  MaxOld = 0
  MaxOps = 1
  MaxCrashes = 0
SPECIFICATION Spec
INVARIANTS
  SetsAreKept
