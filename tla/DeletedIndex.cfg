CONSTANTS
  h1 = h1
  h2 = h2
  a = a
  default = default
  books = books
  Handlers = {h1, h2}
  Names = {default, books}
  Default = default
  Ids = {a}
  Ops = {"index_doc", "delete_index"}
  DiskFaults = FALSE
SPECIFICATION Spec
SYMMETRY ThreadSymmetry
INVARIANTS DeletedFromDisk
