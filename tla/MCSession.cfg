SPECIFICATION Spec
CONSTANTS
  Requests = {1, 2}
  WindowGroups = 1
  MaxRecords = 1
  FirstBranch <- MCBranch
  None = None
  Bounds <- MCBounds
  InFlight = 2
INVARIANTS
  ExecutedOncePerBinding
  ViewIsHistory
  NothingMissing
  SettledWasGiven
  CacheFollows
CHECK_DEADLOCK FALSE
