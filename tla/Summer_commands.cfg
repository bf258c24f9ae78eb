SPECIFICATION Spec
CONSTANTS
  Durations = {4, 8}
  NoDuration = NoDuration
  Keep = Keep
  NoSettings = NoSettings
  AppEvents = {"switch", "summer", "settings", "units"}
  MaxChanges = 1
  MaxCommands = 1
CHECK_DEADLOCK FALSE
INVARIANT TypeOK Effective Stoppable OfferedAccepted
PROPERTY RunStateKept OtherSettingKept
