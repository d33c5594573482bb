SPECIFICATION Spec
CHECK_DEADLOCK FALSE
CONSTANTS
  Key = {k1, k2, k3}
  Caller = {c1, c2, c3, c4}
  Job = {j1, j2, j3}
  NoJob = NoJob
  Slots = 2
  MaxWaiters = 1
  MaxConsumers = 2
  MaxAttempts = 2
INVARIANTS TypeOK SlotsAreAccounted JobsAreWanted CallersAreHeld
PROPERTIES EverythingEnds ImplementsSharedCalls
