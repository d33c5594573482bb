SPECIFICATION FairSpec
CONSTANTS
  User = {u1}
  Worker = {w1}
  NumReports = 2
  NumTests = 1
  LastMonth = 1
  LastProvider = 1
  LastPrompt = 1
  MaxWithdrawn = 0
  RecipientOf <- MCNewRecipients
  Cost = 1
  ActualCosts = {}
  Budget = 3
  Quota = 2
  NoUser = NoUser
  NoWorker = NoWorker
  NoCost = NoCost
INVARIANTS CapacityRespected
PROPERTIES CallsEnd JobsEnd
