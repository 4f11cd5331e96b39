CONSTANTS
  Keys = {k1, k2}
  UserVals = {u1, u2}
  EnvWins = {}
  EnvFills = {k2}
  LegacyFile = TRUE
  Threads = {t1}
  Ops <- AllOps
  MaxItem = 5
  MaxOld = 1
  MaxOps = 4
  MaxCrashes = 1
SPECIFICATION Spec
INVARIANTS
  TypeOK
  SetsAreKept
  ReadsDoNotWrite
  ArchiveKept
