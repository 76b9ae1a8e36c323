SPECIFICATION ProtSpec
CONSTANTS
  Account = {a1, a2}
  Request = {r1, r2}
  LockInput <- MCLocks
  DefaultMode = "GOVERNANCE"
  DefaultDays = 1
  ExpireAfter = 1
  TrashDays = 1
  PurgeAfter = 1
  OtherBytes = 1
  Hazards = {"down"}
  MaxStamp = 3
  MaxNow = 1
SYMMETRY MCSymmetry
 
 
PROPERTY LockedIsKept
 
CHECK_DEADLOCK FALSE
