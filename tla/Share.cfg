SPECIFICATION Spec
CONSTANTS
  MaxBytes = 4
  Storage = TRUE
  MaxLog = 2
  MaxOwn = 1
  MaxToggles = 2
  MaxFlushes = 1
  MaxLoads = 2
CHECK_DEADLOCK FALSE
INVARIANTS
  TypeOK
  OnceInOrder
  OffIsPrivate
PROPERTIES
  EntriesAreReported
