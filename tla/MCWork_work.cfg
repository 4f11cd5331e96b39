SPECIFICATION Spec
CONSTANTS
  Nothing = Nothing
  Handlers = {h1, h2}
  Users = {u1, u2}
  Tabs = {tab1, tab2}
  Keys = {k1}
  MaxRequests = 3
  MaxCalls = 3
  MaxChanges = 1
  MaxId = 2
  MaxRow = 2
  MaxItem = 2
  MaxToken = 2
  MaxCrashes = 1
  MaxParts = 3
  MaxStarts = 2
  MaxFailures = 2
  MaxClicks = 3
  MaxOthers = 1
  MaxTabClicks = 4
INVARIANTS TypeOK WorkspaceKept IdeasKept DoublesAreExcused ConversionsHold ScreensHold
PROPERTY NothingUnasked
SYMMETRY Alike
CHECK_DEADLOCK FALSE
