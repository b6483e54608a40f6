SPECIFICATION Spec
CONSTANTS
  o1 = o1
  o2 = o2
  None = None
  Owners <- MCOwners
  MaxRequests = 2
  MaxLocals = 2
  MaxAttaches = 3
  MaxLosses = 1
INVARIANTS
  
  OneSwitchPerRun
  OkReachesRequester
  NoStaleBinding
PROPERTIES
  RequestsEnd
CHECK_DEADLOCK FALSE
