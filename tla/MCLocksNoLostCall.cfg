SPECIFICATION Spec
CONSTANTS
  Owner = {u1, u2}
  Worker = {w1, w2}
  InitialJob <- MCNoLostCall
INVARIANT CannotDeadlock
