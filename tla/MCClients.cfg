SPECIFICATION Spec
SYMMETRY Symmetry
CONSTANTS
  Authorized = 50
  SeedSpend = 12
  SeedAmount = 18
  AutoApproveMax = 25
  CumulativeIncreaseMax = 5
  HardDeny = 100
  HardCap = TRUE
  Companies = {northstar, forge}
  FirstCompany = northstar
  FirstAmount = 21
  SecondAmount = 24
  MaxLoads = 3
  MaxMishaps = 2
  Cap = 100
  RecognizedShare = 56
  CommittedShare = 12
  Drawn = {1, 9}
  MaxTicks = 120
  Calls = {k1, k2}
  Invocations <- MCInvocations
  AllowedTools <- MCAllowedTools
  AllowedScopes = {"granted"}
  Configured <- MCConfigured
  MaxToolDuration = 2
  LeaseDuration = 2
  MaxTime = 4
  MaxGeneration = 3
INVARIANTS
  PageShowsSelection
  StreamStaysInBudget
PROPERTIES
  RefusedApprovalsAreNotRecorded
  ResultsBelongToTheGrant
CHECK_DEADLOCK FALSE
