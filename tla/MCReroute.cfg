SPECIFICATION MaintSpec
CONSTANTS
  src = src
  dst = dst
  w1 = w1
  Account = {src, dst}
  Key = {1, 2}
  Worker = {w1}
  Source = src
  Target = dst
  Targets = {dst}
  Foreign = {2}
  JobInput = {"move"}
  MaxAttempts = 2
  Hazards = {"reroute"}
  MaxUpload = 2
  MaxCrash = 0
INVARIANT LatestIsServed
CHECK_DEADLOCK FALSE
