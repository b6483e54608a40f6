SPECIFICATION Spec
CONSTANTS
  p1 = p1
  p2 = p2
  r1 = r1
  r2 = r2
  Processes <- MCProcesses
  Rings <- MCOneRing
  Attempts = 3
  MaxKeys = 4
  MaxStarts = 4
  MaxLocks = 2
  MaxCrashes = 1
  MaxRevokes = 1
SYMMETRY Symmetry
INVARIANTS
  
  KeyIsNeverLost
CHECK_DEADLOCK FALSE
