SPECIFICATION Spec
CONSTANTS
  Nodes = {n1, n2}
  Handlers = {h1, h2}
  None = None
  MaxRequests = 3
  MaxFails = 1
INVARIANTS TypeOK AdminKeepsPolicy PoliciesFollowUser
CHECK_DEADLOCK FALSE
