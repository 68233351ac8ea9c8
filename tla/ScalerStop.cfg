SPECIFICATION FairSpec
CONSTANTS
  Actions = {h1}
  Savers = {save}
  Removers = {watch}
  Duration = 1
  Cooldown = 1
  MaxTime = 2
  MaxRestarts = 0
  NoOne = NoOne
PROPERTIES StopTerminates
CHECK_DEADLOCK FALSE
