CONSTANTS
  h1 = h1
  h2 = h2
  a = a
  default = default
  books = books
  Handlers = {h1, h2}
  Names = {default, books}
  Default = default
  Ids = {a}
  Ops = {"index_doc", "delete_doc", "compact", "create_index", "delete_index"}
  DiskFaults = TRUE
SPECIFICATION Spec
SYMMETRY ThreadSymmetry
INVARIANTS TypeOK IndexesAreDurable DeletedUnlessStray ManagerInv
PROPERTIES AdditionsAreVisible
