SPECIFICATION Spec
SYMMETRY Symmetry
CONSTANTS
  Authorized = 6
  SeedSpend = 1
  SeedAmount = 2
  AutoApproveMax = 3
  CumulativeIncreaseMax = 1
  HardDeny = 4
  HardCap = TRUE
  Clients = {c1}
  Inputs <- MCInputs
  MaxCalls = 3
  MaxTrouble = 2
  w1 = w1
  w2 = w2
  Workers = {w1, w2}
  Submissions <- MCSubmissions
  MaxRunningPerPrincipal = 2
  LeaseDuration = 2
  MaxConsecutiveP0 = 1
  MaxConsecutiveNonP2 = 1
  P2Aging = 1
  MaxTime = 2
  MaxAttempts = 2
INVARIANTS
  BudgetMatchesRecords
  ForecastAgreesWithBudget
  CommandTakesEffectOnce
  CompletedWorkWasSeen
  SubmissionsKeepTheirTerms
PROPERTY FailureChangesNothing
CHECK_DEADLOCK FALSE
