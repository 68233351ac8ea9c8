SPECIFICATION Spec
CONSTANTS
  Instances = {i1, i2}
  MaxInstances = 1
  Duration = 1
  Silenceable = {}
  Slots = {1, 2}
  MayStop = TRUE
INVARIANTS TypeOK AtMostMaxInstances HealedOncePerOutage
PROPERTIES HealsAfterDuration
CHECK_DEADLOCK FALSE
