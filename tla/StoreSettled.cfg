SPECIFICATION TrackerSpec
CONSTANTS
  w1 = w1
  Waiters <- OneWaiter
  Operations <- ToolOperations
  MaxRequests = 3
  MaxProposals = 0
CHECK_DEADLOCK FALSE
INVARIANTS
  SettledReflectsPlan
