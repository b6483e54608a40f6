SPECIFICATION Spec
CONSTANTS
  RetryBudget = 1
  Confirmations = 2
  MaxRequests = 2
  MaxFaults = 2
  MaxMoves = 1
  None = None
INVARIANTS
  OneProcess
  StoppedStaysDown
  NeverForgotten
PROPERTIES
  OperationsEnd
CHECK_DEADLOCK FALSE
