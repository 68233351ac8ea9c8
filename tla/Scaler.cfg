SPECIFICATION Spec
CONSTANTS
  Actions = {h1, h2}
  Savers = {save}
  Removers = {watch}
  Duration = 2
  Cooldown = 1
  MaxTime = 4
  MaxRestarts = 1
  NoOne = NoOne
INVARIANTS TypeOK NoDoubleClose StoppedIsQuiet SustainedBreach
PROPERTIES CooldownInBreach ImplementsWorker
CHECK_DEADLOCK FALSE
