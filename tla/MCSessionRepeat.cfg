SPECIFICATION Spec
CONSTANTS
  Requests = {1, 2}
  WindowGroups = 1
  MaxRecords = 1
  FirstBranch <- MCBranch
  None = None
  Bounds <- MCBounds
  InFlight = 2
INVARIANT GivenOncePerGeneration
CHECK_DEADLOCK FALSE
