CONSTANTS
  Defs = {d1}
  Editors = {e1}
  NoRow = NoRow
  MaxId = 1
  MaxRuns = 1
  MaxClock = 0
  MaxEdits = 1
  MaxFaults = 0
  MaxCrashes = 0
SPECIFICATION Spec
PROPERTIES
  ClearedBoxDisables
