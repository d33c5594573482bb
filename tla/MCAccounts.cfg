SPECIFICATION Spec
CONSTANTS
  User = {u1, u2}
  Worker = {w1}
  NumReports = 2
  NumTests = 0
  LastMonth = 1
  LastProvider = 1
  LastPrompt = 2
  MaxWithdrawn = 1
  RecipientOf <- MCNewRecipients
  Cost = 1
  ActualCosts <- MCCosts
  Budget = 2
  Quota = 2
  NoUser = NoUser
  NoWorker = NoWorker
  NoCost = NoCost
SYMMETRY UserSymmetry
INVARIANTS TypeOK RowsWellFormed ReservationsBacked QuotaIsExact
