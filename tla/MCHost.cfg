SPECIFICATION Spec
CONSTANTS
  o1 = o1
  o2 = o2
  q1 = q1
  None = None
  Owners <- MCOwners
  Requests <- MCRequests
  Paired <- MCPaired
  MaxStarts = 2
  MaxClients = 2
  MaxTokens = 1
  MaxDeliveries = 2
  MaxFrames = 1
  MaxRevokes = 1
  MaxRefreshes = 1
  MaxFaults = 1
  MaxSwitches = 1
  MaxEvents = 4
INVARIANTS NeverStranded OneConnection BindingsAreCurrent TokenPairsOnce PairedUntilRevoked UnpairedIsRolledBack AclFollowsPeers
PROPERTIES PairOkIsDurable AttemptsEnd
CHECK_DEADLOCK FALSE
