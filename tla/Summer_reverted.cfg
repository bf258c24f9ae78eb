SPECIFICATION Spec
CONSTANTS
  Durations = {4, 8}
  NoDuration = NoDuration
  Keep = Keep
  NoSettings = NoSettings
  AppEvents = {"switch"}
  MaxChanges = 1
  MaxCommands = 1
CHECK_DEADLOCK FALSE
PROPERTY ChangeReported
