SPECIFICATION Spec
CONSTANTS
  Askers = {worker}
  Tries = 2
  Cap = 1
  MaxFaults = 2
INVARIANTS TypeOK StopsOnce SavedInTime
PROPERTIES StopIsServed
CHECK_DEADLOCK FALSE
