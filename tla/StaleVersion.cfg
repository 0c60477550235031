CONSTANTS
  a = a
  b = b
  d1 = d1
  d2 = d2
  Ids = {a, b}
  Docs = {d1, d2}
  NoDoc = NoDoc
  FlushThreshold = 1
  ClientOps = {"add", "compact"}
  Tears = FALSE
  MaxFaults = 0
  MaxLog = 2
  MaxSegments = 3
  MaxTime = 1
SPECIFICATION Spec
PROPERTIES LatestVersionSurvives
