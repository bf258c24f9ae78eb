SPECIFICATION Spec
CONSTANTS
  Situations = {"awake", "away"}
  Selectable = {"awake", "away"}
  Home = {"awake"}
  Levels = {0, 1, 2}
  Writable = {1, 2}
  NoLevel = NoLevel
  Units = {"u1", "u2"}
  Resettable = {"u1"}
  NoUnit = "no_unit"
  Automatic = "AUTOMATIC"
  Manual = "MANUAL"
  Active = "active"
  AppEvents = {"level", "switch", "panel", "remove", "filter"}
  MaxChanges = 1
  MaxCommands = 2
CHECK_DEADLOCK FALSE
INVARIANT TypeOK Effective VerifiedLevelsKept
PROPERTY OtherAlarmsKept
