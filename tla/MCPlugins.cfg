SPECIFICATION PipeSpec
CONSTANTS
  k1 = k1
  p1 = p1
  ext = ext
  w1 = w1
  u1 = u1
  Key = {k1}
  Plugin = {p1}
  Producer = ext
  Worker = {w1}
  Uploader = {u1}
  Result <- MCResult
  Maker = {p1, ext}
  Rank <- MCRank
  Indexable = {p1, ext}
  Backends = {"exact", "turso-native", "pgvector"}
  MaxProfiles = 1
  MaxCandidates = 2
  Mixed = FALSE
  Selected <- MCSelected
  Granted <- MCGranted
  MaxAttempts = 2
  Hazards = {}
  MaxUpload = 2
  MaxChange = 1
 
 
PROPERTY JobsSettle
CHECK_DEADLOCK FALSE
