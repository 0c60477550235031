CONSTANTS
  a = a
  b = b
  d1 = d1
  Ids = {a, b}
  Docs = {d1}
  NoDoc = NoDoc
  FlushThreshold = 1
  ClientOps = {"add", "delete", "flush"}
  Tears = FALSE
  MaxFaults = 0
  MaxLog = 2
  MaxSegments = 2
  MaxTime = 1
SPECIFICATION Spec
PROPERTIES DeletedStayDeleted
