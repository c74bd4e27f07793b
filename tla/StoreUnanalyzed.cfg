SPECIFICATION Spec
CONSTANTS
  Waiters <- NoWaiter
  Operations <- OptimizeOperations
  MaxRequests = 2
  MaxProposals = 0
CHECK_DEADLOCK FALSE
PROPERTY EveryMutationIsAnalyzed
