\* Two requests, one amendment each, a posting that is edited and corrected.
CONSTANTS
  laptop = laptop
  license = license
  company = company
  team = team
  Requests = {laptop, license}
  Accounts = {company, team}
  Postings = {invoice}
  Corrections = {credit}
  Authorized <- Budgets
  HardCaps = {company}
  RequestAccounts <- BothBind
  PostingScopes <- Scopings
  Amounts = {1, 2}
  CorrectionAmounts <- Refund
  MaxRevision = 2
  MaxAmendments = 1
  RequestAmounts = {1, 2}
  Rules <- Policy
SPECIFICATION Spec
INVARIANTS ExposureFollowsRecords ReservedWithinApproval ReservedUnderApproval PolicySpendsOnce
PROPERTY HardCapsBound
CHECK_DEADLOCK FALSE
