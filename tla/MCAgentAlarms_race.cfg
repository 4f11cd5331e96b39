CONSTANTS
  Defs = {d1, d2}
  Editors = {e1, e2}
  NoRow = NoRow
  MaxId = 1
  MaxRuns = 2
  MaxClock = 0
  MaxEdits = 2
  MaxFaults = 1
  MaxCrashes = 1
SPECIFICATION Spec
SYMMETRY EditorSymmetry
INVARIANTS
  TypeOK
  OneLaunchPerArming
  StatusConsistent
  RunIdOwned
  RunningShowsItsLoop
  CompletedIsTrue
  UntrackedOnlyByCrash
PROPERTIES
  CompletedStays
  ImplementsDuty
