CONSTANTS
  a = a
  b = b
  d1 = d1
  Ids = {a, b}
  Docs = {d1}
  NoDoc = NoDoc
  FlushThreshold = 0
  ClientOps = {"add"}
  Tears = TRUE
  MaxFaults = 0
  MaxLog = 2
  MaxSegments = 2
  MaxTime = 2
SPECIFICATION Spec
INVARIANTS AlwaysReopens

