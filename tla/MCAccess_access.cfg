SPECIFICATION Spec
CONSTANTS
  Nothing = Nothing
  Keep = Keep
  Handlers = {h1, h2}
  Names = {n1, n2}
  Passwords = {p}
  People = {1, 2}
  Robots = {1}
  GroupsOf <- OneMember
  MaxUser = 2
  MaxGroup = 2
  MaxMember = 3
  MaxAgent = 2
  MaxPrompt = 2
  MaxTool = 2
  MaxToken = 2
  MaxClock = 1
  Ttl = 1
  MaxRequests = 3
  MaxCalls = 2
  MaxCrashes = 1
  MaxChanges = 1
INVARIANTS TypeOK SessionsDurable RightsNotInherited HalfCreatedExplained ServedWasPublished PromptsSharedOnRequest ExecutedWasAllowed
PROPERTY DeletedStaysDeleted
SYMMETRY Alike
CHECK_DEADLOCK FALSE
