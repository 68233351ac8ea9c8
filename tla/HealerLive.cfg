SPECIFICATION FairSpec
CONSTANTS
  Instances = {i1}
  MaxInstances = 1
  Duration = 1
  Silenceable = {i1}
  Slots = {1, 2, 3}
  MayStop = FALSE
PROPERTIES DownIsHealed
CHECK_DEADLOCK FALSE
