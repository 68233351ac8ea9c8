SPECIFICATION Spec
CONSTANTS
  k1 = k1
  k2 = k2
  Keys = {k1}
  Interval = 2
  Crons <- MCCrons
  Dates <- MCDates
  MaxTime = 9
  MaxLoad = 2
  MaxMoves = 1
  MaxChanges = 1
  NoScheduler = NoScheduler
INVARIANTS TypeOK AtMostThrice OwnerHasScheduler ExactWithoutMoves
PROPERTIES NothingSkipped
CHECK_DEADLOCK FALSE
