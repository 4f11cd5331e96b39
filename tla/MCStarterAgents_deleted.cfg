CONSTANTS
  Profiles = {p1, p2}
  Autos = {a1}
  Manuals = {m1}
  Editors = {e1}
  Custom = Custom
  NoProfile = NoProfile
  NoAgent = NoAgent
  MaxId = 5
  MaxPasses = 1
  MaxManuals = 1
  MaxBeside = 2
  MaxEdits = 0
  MaxCrashes = 0
SPECIFICATION Spec
CHECK_DEADLOCK FALSE
SYMMETRY StarterSymmetry
PROPERTIES
  DeletedStaysDeleted
