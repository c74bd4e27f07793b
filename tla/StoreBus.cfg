SPECIFICATION Spec
CONSTANTS
  Waiters <- NoWaiter
  Operations <- BusOperations
  MaxRequests = 4
  MaxProposals = 2
CHECK_DEADLOCK FALSE
INVARIANTS
  CompareNeedsBaseline
  TimelineIsDistinct
PROPERTIES
  HistoryIsKept
  ProposalsSettleOnce
  RejectedIsInert
