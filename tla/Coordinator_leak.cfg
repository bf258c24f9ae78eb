SPECIFICATION Spec
CONSTANTS
  Pollers = {p1, p2}
  Calls = {c1, c2}
  Closer = closer
  NoTask = nobody
  NoData = none
  Off = "OFF"
  Manual = "MANUAL"
  ActiveModes = {"MANUAL", "AUTOMATIC"}
  AppModes = {"OFF"}
  Cancellable = {}
  Services = {"room_level"}
  Events = {"unload"}
  MaxCalls = 2
  MaxVersion = 1
  MaxFailures = 6
  FloatExponentLimit = 1024
INVARIANT UnloadCloses
SYMMETRY TaskSymmetry
