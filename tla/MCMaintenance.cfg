SPECIFICATION MaintSpec
CONSTANTS
  src = src
  dst = dst
  w1 = w1
  Account = {src, dst}
  Key = {1, 2}
  Worker = {w1}
  Source = src
  Target = dst
  Targets = {dst}
  Foreign = {2}
  JobInput = {"copy", "move", "repair", "import", "reconcile"}
  MaxAttempts = 2
  Hazards = {"down", "damage"}
  MaxUpload = 2
  MaxCrash = 1
INVARIANT LatestIsServed
INVARIANT SucceededIsReplicated
PROPERTY CompletedIsDone
PROPERTY WorkIsSettled
CHECK_DEADLOCK FALSE
