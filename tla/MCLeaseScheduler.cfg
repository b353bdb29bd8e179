\* Two workers over one job whose deadline comes; crashes and failed calls.
CONSTANTS
  Jobs <- OneJob
  Priority <- OnePriority
  Essential = {1}
  Deadline <- OneDeadline
  Principal <- OneOrigin
  MaxConsecutiveP0 = 1
  MaxConsecutiveNonP2 = 1
  P2Aging = 1
  Workers = {w1, w2}
  MaxRunningPerPrincipal = 2
  LeaseDuration = 2
  MaxAttempts = 2
  BaseDelay = 1
  MaxDelay = 1
  MaxTime = 4
  MaxFaults = 1
SPECIFICATION Spec
INVARIANTS LeaseExclusion
PROPERTIES DisplacedWorkersAreFenced ImplementsJobLeases
