SPECIFICATION ASpec
CONSTANTS
  n1 = n1
  n2 = n2
  k1 = k1
  Nodes <- MCNodes
  Keys <- MCKeys
  Owner <- MCOwner
  MaxJoins = 2
  Ids = {i1, i2}
  NoId = NoId
  MaxChanges <- MCMaxChanges
INVARIANTS ATypeOK OwnerRunsKey RegisteredIsLive ExactWithoutChurn
CHECK_DEADLOCK FALSE
