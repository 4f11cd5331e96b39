CONSTANTS
  Profiles = {p1, p2}
  Autos = {a1, a2}
  Manuals = {m1}
  Editors = {e1}
  Custom = Custom
  NoProfile = NoProfile
  NoAgent = NoAgent
  MaxId = 5
  MaxPasses = 3
  MaxManuals = 1
  MaxBeside = 2
  MaxEdits = 1
  MaxCrashes = 1
SPECIFICATION FairSpec
CHECK_DEADLOCK FALSE
INVARIANTS
  TypeOK
  MarkerEndsAutoInstall
  StartersUnique
  MarkerMeansComplete
PROPERTIES
  LockReleased
