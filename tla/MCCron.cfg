SPECIFICATION CronSpec
CONSTANTS
  RetryBudget = 1
  Confirmations = 1
  MaxRequests = 1
  MaxFaults = 1
  MaxMoves = 1
  None = None
  Jobs <- MCJobs
  Stored <- MCStored
  MaxEvents = 2
INVARIANTS
  PromptStaysWithItsRuntime
  ArmedFollowsJobs
PROPERTIES
  FiringsEnd
CHECK_DEADLOCK FALSE
