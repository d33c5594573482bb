SPECIFICATION Spec
CONSTANTS
  User = {u1}
  Worker = {w1, w2}
  NumReports = 2
  NumTests = 1
  LastMonth = 1
  LastProvider = 1
  LastPrompt = 1
  MaxWithdrawn = 0
  RecipientOf <- MCNewRecipients
  Cost = 1
  ActualCosts <- MCCosts
  Budget = 2
  Quota = 2
  NoUser = NoUser
  NoWorker = NoWorker
  NoCost = NoCost
SYMMETRY WorkerSymmetry
INVARIANTS OneActiveJob AttemptMatchesReport OneCallPerReport BillIsExact 
PROPERTIES SettledIsFinal SlotOutlivesCancellation
