SPECIFICATION FairSpec
CONSTANTS
  w1 = w1
  w2 = w2
  d1 = d1
  d2 = d2
  Worker = {w1, w2}
  Delivery = {d1}
  MaxAttempts = 3
  Backoff = 1
  StaleAfter = 1
  LeaseTTL = 1
  Uncoordinated = {}
  Hazards = {"crash", "stall"}
  MaxLosses = 1
  MaxSends = 4
INVARIANT FailureIsEarned
INVARIANT SuccessIsReal
PROPERTY QueuedIsSettled
CHECK_DEADLOCK FALSE
