SPECIFICATION Spec
CONSTANTS
  Requests <- Calls
  EvalBudget = 150
  MaxAssignments = 64
  DescentSeeds = 3
INVARIANTS
  PlannerTypeOK
  AcceptedPlansConserve
  WinnerIsHonest
  ConvergedIsLocalOptimum
  RiskReportIsHonest
PROPERTY CallsEnd
