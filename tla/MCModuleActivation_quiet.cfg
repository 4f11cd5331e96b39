CONSTANTS
  Requests = {r1, r2}
  Kinds <- ToggleAndUse
  MaxRequests = 3
  MaxThreads = 6
  MaxBuilds = 6
  MaxFaults = 0
SPECIFICATION FairSpec
CHECK_DEADLOCK FALSE
PROPERTIES
  StableOnlyIsQuiet
