CONSTANTS
  Requests = {r1, r2}
  Kinds <- AllKinds
  MaxRequests = 4
  MaxThreads = 6
  MaxBuilds = 6
  MaxFaults = 1
SPECIFICATION RunSpec
CHECK_DEADLOCK FALSE
INVARIANTS
  TypeOK
  AtMostOneThread
  ActivationMatches
PROPERTIES
  RequestsEnd
  StableStops
