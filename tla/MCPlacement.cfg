SPECIFICATION Spec
CONSTANTS
  p1 = p1
  Provider = {p1}
  ReservationID = {1, 2}
  Size = {0, 1, 2, 4}
  Capacity = {0, 3}
  Margin <- MCMargin
  MonthlyLimit <- MCMonthlyLimit
  Priority <- MCPriority
  Cost <- MCCost
  IdOrder <- MCIdOrder
  QuotaMargin <- MCQuotaMargin
  MinFree <- MCMinFree
  MaxObjectSize <- MCMaxObjectSize
  Unlimited = 100
  ReservationTTL = 1
  RetryAfter = 1
  MaxBytes = 4
  MaxMonth = 2
INVARIANT TypeOK
INVARIANT ReservedIsSumOfRows
INVARIANT RouterIsSound
INVARIANT RouterIsComplete
INVARIANT PlanMatchesRouter
INVARIANT ReportCoversAdmission
PROPERTY CapacityIsHard
PROPERTY MonthlyAllowanceIsHard
CHECK_DEADLOCK FALSE
