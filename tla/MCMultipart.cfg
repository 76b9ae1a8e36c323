SPECIFICATION MultiSpec
CONSTANTS
  r1 = r1
  r2 = r2
  r3 = r3
  Part = {1, 2}
  Request = {r1, r2, r3}
  PartList <- MCPartList
  Hazards = {}
  MaxBody = 3
SYMMETRY MCSymmetry
INVARIANT CompletedIsCurrent
INVARIANT StagingIsOwned
CHECK_DEADLOCK FALSE
