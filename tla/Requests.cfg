CONSTANTS
  h1 = h1
  h2 = h2
  h3 = h3
  a = a
  default = default
  Handlers = {h1, h2, h3}
  Names = {default}
  Default = default
  Ids = {a}
  Ops = {"index_doc", "flush", "compact", "read", "delete_index"}
  DiskFaults = FALSE
SPECIFICATION FairSpec
PROPERTIES SomeRequestEnds DeletionsEnd
