SPECIFICATION Spec
CONSTANTS
  r1 = r1
  r2 = r2
  r3 = r3
  Requests <- ThreeRequests
  Limit = 1
  MaxDay = 2
  MaxStarts = 1
CHECK_DEADLOCK FALSE
INVARIANT CapHolds
