SPECIFICATION Spec
CONSTANTS
  User = {u1}
  Worker = {w1}
  NumReports = 1
  NumTests = 0
  LastMonth = 1
  LastProvider = 1
  LastPrompt = 2
  MaxWithdrawn = 0
  RecipientOf <- MCNewRecipients
  Cost = 1
  ActualCosts = {}
  Budget = 1
  Quota = 1
  NoUser = NoUser
  NoWorker = NoWorker
  NoCost = NoCost
PROPERTIES PromptPublicationFences
