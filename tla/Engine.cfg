SPECIFICATION Spec
CONSTANTS
  q1 = q1
  q2 = q2
  Requests <- TwoRequests
  MaxCalls = 3
CHECK_DEADLOCK FALSE
INVARIANTS
  TypeOK
  NoneForgotten
  AnswersInOrder
PROPERTIES
  EveryCallSettles
  ImplementsCalls
