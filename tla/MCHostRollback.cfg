SPECIFICATION Spec
CONSTANTS
  o1 = o1
  o2 = o2
  q1 = q1
  None = None
  Owners <- MCOwners
  Requests <- MCRequests
  Paired <- MCNobody
  MaxStarts = 1
  MaxClients = 2
  MaxTokens = 1
  MaxDeliveries = 3
  MaxFrames = 0
  MaxRevokes = 0
  MaxRefreshes = 0
  MaxFaults = 0
  MaxSwitches = 0
  MaxEvents = 5
INVARIANTS ErrorOpensNothing
CHECK_DEADLOCK FALSE
