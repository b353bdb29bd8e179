\* One request, sent to review on facts that then change.
CONSTANTS
  laptop = laptop
  license = license
  company = company
  team = team
  Requests = {laptop}
  Accounts = {company, team}
  Postings = {invoice}
  Corrections = {credit}
  Authorized <- Budgets
  HardCaps = {company, team}
  RequestAccounts <- LaptopBinds
  PostingScopes <- Scopings
  Amounts = {1, 2}
  CorrectionAmounts <- Refund
  MaxRevision = 1
  MaxAmendments = 1
  RequestAmounts = {1, 2}
  Rules <- Facts
SPECIFICATION Spec
INVARIANT NeverOverReserved
CHECK_DEADLOCK FALSE
