SPECIFICATION Spec
CONSTANTS
  RetryBudget = 1
  Confirmations = 2
  MaxRequests = 1
  MaxFaults = 0
  MaxMoves = 0
  None = None
PROPERTIES
  RestartIsCarriedOut
CHECK_DEADLOCK FALSE
