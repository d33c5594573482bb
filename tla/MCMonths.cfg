SPECIFICATION Spec
CONSTANTS
  User = {u1}
  Worker = {w1}
  NumReports = 2
  NumTests = 0
  LastMonth = 2
  LastProvider = 1
  LastPrompt = 1
  MaxWithdrawn = 0
  RecipientOf <- MCNewRecipients
  Cost = 1
  ActualCosts = {}
  Budget = 2
  Quota = 1
  NoUser = NoUser
  NoWorker = NoWorker
  NoCost = NoCost
INVARIANTS ReleasedInOwnMonth
