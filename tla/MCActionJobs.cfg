\* One process whose scan sees one of two intents; faults of every kind.
CONSTANTS
  older = older
  younger = younger
  Intents = {older, younger}
  Executors = {w1}
  CreatedAt <- TheirCreation
  ScanLimit = 1
  MaxAttempts = 1
  MaxFaults = 2
  MaxRevision = 6
  MaxOrdinal = 2
SPECIFICATION FairSpec
INVARIANT OneOwner
 
