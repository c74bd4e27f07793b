SPECIFICATION Spec
CONSTANTS
  Plans = {p1, p2}
  MaxMessages = 4
  MaxIterations = 2
  StorageFails = TRUE
  MaxTurns = 2
  MaxChanges = 3
  MaxUpsets = 1
CHECK_DEADLOCK FALSE
INVARIANTS
  TypeOK
  TranscriptsReplay
  TranscriptsStayWithTheirPlan
PROPERTIES
  TrimIsHonest
  EveryTurnEnds
