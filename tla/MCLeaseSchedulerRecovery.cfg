\* One worker that crashes or fails, two jobs, one of them without a deadline.
CONSTANTS
  Jobs <- TwoJobs
  Priority <- TwoPriority
  Essential = {1}
  Deadline <- TwoDeadline
  Principal <- TwoOrigin
  MaxConsecutiveP0 = 1
  MaxConsecutiveNonP2 = 1
  P2Aging = 1
  Workers = {w1}
  MaxRunningPerPrincipal = 2
  LeaseDuration = 1
  MaxAttempts = 2
  BaseDelay = 1
  MaxDelay = 1
  MaxTime = 3
  MaxFaults = 1
SPECIFICATION FairSpec
PROPERTIES DeadlinesEnd ExpiredLeasesAreReclaimed
