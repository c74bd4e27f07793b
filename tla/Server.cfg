SPECIFICATION Spec
CONSTANTS
  r1 = r1
  r2 = r2
  r3 = r3
  Requests <- ThreeRequests
  Limit = 1
  MaxDay = 2
  MaxStarts = 2
CHECK_DEADLOCK FALSE
INVARIANTS
  TypeOK
  SpendIsBounded
  OnlyMessagesAreCharged
  RefusedOnlyWhenSpent
PROPERTY EveryRequestEnds
