CONSTANTS
  server = server
  command = command
  a = a
  b = b
  Processes = {server, command}
  Ids = {a, b}
  MaxFiles = 2
SPECIFICATION Spec
SYMMETRY Symmetry
INVARIANTS AcknowledgedStays SharedInv
PROPERTIES FlushedStays OpenSeesFlushed
