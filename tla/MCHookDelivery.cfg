SPECIFICATION Spec
CONSTANTS
  w1 = w1
  w2 = w2
  d1 = d1
  d2 = d2
  Worker = {w1, w2}
  Delivery = {d1}
  MaxAttempts = 2
  Backoff = 1
  StaleAfter = 1
  LeaseTTL = 1
  Uncoordinated = {w2}
  Hazards = {"crash", "error", "admin"}
  MaxLosses = 2
  MaxSends = 5
INVARIANT TypeOK
INVARIANT OneOwner
INVARIANT RequestsAreCounted
 
CHECK_DEADLOCK FALSE
