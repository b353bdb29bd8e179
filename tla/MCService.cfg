SPECIFICATION Spec
SYMMETRY Symmetry
CONSTANTS
  None = None
  MaxSafeInteger = 1000
  Servers = {s1, s2}
  Commands <- MCCommands
  Requests = {"r1", "r2"}
  Principals = {"eve"}
  PolicyIds = {1, 2}
  Publications <- MCPublications
  FirstDatabase <- MCFirstDatabase
  Purposes <- MCPurposes
  Evidence = {}
  Accounts <- MCAccounts
  Now = 5
  Cases <- MCCases
  CaseRules <- MCCaseRules
  Processes = {server, executor}
  Executors = {executor}
  Provisioning <- MCProvisioning
  Manner <- MCManner
  MaxStarts = 3
  MaxOutages = 1
  Callers = {c1, c2}
  Deliveries <- MCDeliveries
  KnownScopes <- MCKnownScopes
  MappedObjects <- MCMappedObjects
  Postings = {"p1", "p2"}
  Scopes <- MCScopes
  Instances = {"erp"}
  OrganizationScope = "organization"
  NoPosting = NoPosting
  MonthDays = 3
  Organization = "organization"
  NoObligation = NoObligation
  Refreshers = {r1, r2}
  Readers = {g1}
  ForecastInputs <- MCForecastInputs
  Relationships <- MCRelationships
  FirstEntities <- MCFirstEntities
  LaterEntities <- MCLaterEntities
  Asks <- MCAsks
  GraphReaders = {q1, q2}
  MaxSeeds = 2
  FirstEdges <- MCFirstEdges
  FirstPostings <- MCFirstPostings
  LaterPostings <- MCLaterPostings
  RestrictedScopes = {"closed"}
  PageLimits = {1, 2}
  AskedScopes = {"project"}
  AnswerTime = 5
  MaxImports = 3
INVARIANTS
  CurrentIsNewest
  LedgerFollowsImports
  HistoryIsAChain
  PaymentsAreProjectedOnce
  GraphAnswersAreHonest
  PagesMissNothing
  CommandsTakeEffectOnce
  RestrictionsNeverRelax
  StartsAreSound
PROPERTIES
  DecidedUnderActivePolicy
  AllowanceIsSharedOnce
