\* Two processes, whose leases of one job may overlap.
CONSTANTS
  older = older
  younger = younger
  Intents = {older}
  Executors = {w1, w2}
  CreatedAt <- ItsCreation
  ScanLimit = 1
  MaxAttempts = 1
  MaxFaults = 2
  MaxRevision = 6
  MaxOrdinal = 2
SPECIFICATION Spec
INVARIANT CompletedMeansSettled
