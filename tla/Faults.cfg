CONSTANTS
  a = a
  b = b
  d1 = d1
  Ids = {a, b}
  Docs = {d1}
  NoDoc = NoDoc
  FlushThreshold = 2
  ClientOps = {"add", "delete", "flush", "compact"}
  Tears = TRUE
  MaxFaults = 1
  MaxLog = 3
  MaxSegments = 2
  MaxTime = 1
SPECIFICATION Spec
SYMMETRY IdSymmetry
INVARIANTS TypeOK IInv LiveDocsOnDisk MemoryMatchesDisk
PROPERTIES FlushedDocsStay LiveDocsSurviveRestart
