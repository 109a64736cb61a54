CONSTANTS
  c1 = c1
  c2 = c2
  Calls <- MCCalls
  TimeoutMs = 6
  CanCrash = TRUE
  CustomPolicies <- MCPolicies
  MaxRetries = 3
  InitialDelay = 4
  BackoffFactor = 2
  MaxDelay = 20
  Jitter = 20
SPECIFICATION OSpec
INVARIANTS
  OTypeOK
  AtMostOneOutcome
  LeavesByTimeout
  TimeoutOutrunsRetry
PROPERTIES
  QueuedIsDecided
  ImplementsDelivery
