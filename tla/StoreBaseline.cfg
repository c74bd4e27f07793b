SPECIFICATION Spec
CONSTANTS
  Waiters <- NoWaiter
  Operations <- BusOperations
  MaxRequests = 2
  MaxProposals = 0
CHECK_DEADLOCK FALSE
INVARIANT BaselineIsAPair
