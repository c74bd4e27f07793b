SPECIFICATION TrackerSpec
CONSTANTS
  w1 = w1
  Waiters <- OneWaiter
  Operations <- RaceOperations
  MaxRequests = 4
  MaxProposals = 0
CHECK_DEADLOCK FALSE
INVARIANTS
  TrackerTypeOK
  BooksBalance
  GuardIsSound
  NothingWithoutPlan
  SettledIsFresh
PROPERTIES
  ImplementsView
  NothingAfterDispose
  WhenIdleResolves
  EveryPlanIsAnswered
  TrackerCatchesUp
