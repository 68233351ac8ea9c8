SPECIFICATION Spec
CONSTANTS
  a = a
  b = b
  Handlers = {h1, h2}
  Ids = {a, b}
  Short = Short
  Lists <- MCLists
  MaxRequests = 2
  MaxFails = 1
SYMMETRY Symmetry
INVARIANTS TypeOK OneHealer NoOrphanScalers AcceptedIsStored
CHECK_DEADLOCK FALSE
