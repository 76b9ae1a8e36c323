SPECIFICATION UploadSpec
CONSTANTS
  p1 = p1
  p2 = p2
  u1 = u1
  u2 = u2
  Provider = {p1, p2}
  Upload = {u1, u2}
  ReservationID <- MCReservationID
  SizeOf <- MCSizeOf
  Failures = {"unavailable", "permanent"}
  Hazards = {"admin"}
  Size = {0, 1, 2, 3}
  Capacity = {2}
  Margin <- MCMargin
  MonthlyLimit <- MCMonthlyLimit
  Priority <- MCPriority
  Cost <- MCCost
  IdOrder <- MCIdOrder
  QuotaMargin <- MCMargin
  MinFree <- MCMargin
  MaxObjectSize <- MCMaxObjectSize
  Unlimited = 100
  ReservationTTL = 2
  RetryAfter = 1
  MaxBytes = 3
  MaxMonth = 2
INVARIANT UploadTypeOK
INVARIANT StoredWithinCapacity
INVARIANT ReservationsAreInFlight
PROPERTY Spec
CHECK_DEADLOCK FALSE
