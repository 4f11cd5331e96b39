CONSTANTS
  Defs = {d1}
  Editors = {e1}
  NoRow = NoRow
  MaxId = 2
  MaxRuns = 2
  MaxClock = 1
  MaxEdits = 0
  MaxFaults = 1
  MaxCrashes = 1
SPECIFICATION FairSpec
PROPERTIES
  DueAlarmLeavesQueue
  RunningEnds
