SPECIFICATION FairSpec
CONSTANTS
  n1 = n1
  n2 = n2
  k1 = k1
  k2 = k2
  Nodes <- MCNodes
  Keys <- MCKeys
  Owner <- MCOwner
  MaxJoins = 3
INVARIANTS TypeOK RingTracksMembership OneWorkerPerKey JoinsOnlyAfresh
PROPERTIES DownNodesForgotten
CHECK_DEADLOCK FALSE
