SPECIFICATION UploadSpec
CONSTANTS
  p1 = p1
  p2 = p2
  u1 = u1
  u2 = u2
  Provider = {p1, p2}
  Upload = {u1, u2}
  ReservationID <- MCReservationID
  SizeOf <- MCSizeOf
  Failures = {"unavailable", "permanent"}
  Hazards = {"cancel", "db", "lostreply", "slow"}
  Size = {0, 1, 2, 3}
  Capacity = {2}
  Margin <- MCMargin
  MonthlyLimit <- MCMargin
  Priority <- MCPriority
  Cost <- MCCost
  IdOrder <- MCIdOrder
  QuotaMargin <- MCMargin
  MinFree <- MCMargin
  MaxObjectSize <- MCMaxObjectSize
  Unlimited = 100
  ReservationTTL = 1
  RetryAfter = 1
  MaxBytes = 3
  MaxMonth = 1
 
INVARIANT IndexedIsCharged
CHECK_DEADLOCK FALSE
