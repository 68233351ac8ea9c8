SPECIFICATION Spec
CONSTANTS
  a = a
  b = b
  Handlers = {h1, h2}
  Ids = {a, b}
  Short = Short
  Lists <- MCNoLists
  MaxRequests = 2
  MaxFails = 0
PROPERTIES GetReturns
CHECK_DEADLOCK FALSE
