\* Two executors race over one intent; three crashes, thrown calls or failed answers.
\* Recurring jobs of every class; limits small but in the order of the default policy.
CONSTANTS
  Intents = {i1}
  Executors = {w1, w2}
  MaxFaults = 3
  Jobs <- MCJobs
  Priority <- MCPriority
  Essential <- MCEssential
  Deadline <- MCDeadline
  MaxConsecutiveP0 = 2
  MaxConsecutiveNonP2 = 4
  P2Aging = 2
SPECIFICATION MCSpec
INVARIANTS SettledTruthfully RevisionNamesState ReservedCapacity
PROPERTIES ImplementsSettlement EveryIntentSettles AgedWorkIsServed
