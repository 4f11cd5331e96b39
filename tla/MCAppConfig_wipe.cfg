CONSTANTS
  Keys = {k1, k2}
  UserVals = {u1, u2}
  EnvWins = {}
  EnvFills = {k2}
  LegacyFile = FALSE
  Threads = {t1, t2}
  Ops <- GetAndSet
  MaxItem = 1
  MaxOld = 0
  MaxOps = 1
  MaxCrashes = 0
SPECIFICATION Spec
INVARIANTS
  SettingsPersist
