SPECIFICATION Spec
CONSTANTS
  Devices = {"a", "b"}
  Endpoints = {"a1", "a2", "b1"}
  DeviceOf <- MCDeviceOf
  MaxRuntimes = 2
  MaxRetries = 2
  MaxAttempts = 2
  None = None
  Starts <- MCStarts
INVARIANTS
  PresenceFollows
  NoSilentStall
  SessionFollowsEndpoint
  RemovedIsForgotten
  DialogIsAttempt
PROPERTIES
  OneRetryPerLoss
CHECK_DEADLOCK FALSE
