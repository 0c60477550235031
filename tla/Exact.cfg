CONSTANTS
  a = a
  b = b
  d1 = d1
  d2 = d2
  Ids = {a, b}
  Docs = {d1, d2}
  NoDoc = NoDoc
  FlushThreshold = 2
  ClientOps = {"add", "delete", "flush", "compact"}
  Tears = FALSE
  MaxFaults = 0
  MaxLog = 3
  MaxSegments = 3
  MaxTime = 1
SPECIFICATION CarefulSpec
INVARIANTS RecoversExactly CarefulInv
PROPERTIES ImplementsStore OperationsEnd
