SPECIFICATION Spec
CONSTANTS
  User = {u1}
  Worker = {w1}
  NumReports = 2
  NumTests = 0
  LastMonth = 2
  LastProvider = 2
  LastPrompt = 1
  MaxWithdrawn = 1
  RecipientOf <- MCNewRecipients
  Cost = 2
  ActualCosts <- MCCosts
  Budget = 4
  Quota = 1
  NoUser = NoUser
  NoWorker = NoWorker
  NoCost = NoCost
PROPERTIES NoPublicationAfterRevocation ImplementsLedger
