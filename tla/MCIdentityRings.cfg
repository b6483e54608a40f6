SPECIFICATION Spec
CONSTANTS
  p1 = p1
  p2 = p2
  r1 = r1
  r2 = r2
  Processes <- MCProcesses
  Rings <- MCTwoRings
  Attempts = 2
  MaxKeys = 3
  MaxStarts = 3
  MaxLocks = 2
  MaxCrashes = 1
  MaxRevokes = 1
PROPERTY FreshKeyOnlyUnpaired
CHECK_DEADLOCK FALSE
