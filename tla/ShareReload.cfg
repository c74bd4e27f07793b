SPECIFICATION Spec
CONSTANTS
  MaxBytes = 4
  Storage = TRUE
  MaxLog = 1
  MaxOwn = 1
  MaxToggles = 0
  MaxFlushes = 0
  MaxLoads = 2
CHECK_DEADLOCK FALSE
INVARIANTS
  SeqOrdersTheSession
