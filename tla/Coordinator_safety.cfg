SPECIFICATION Spec
CONSTANTS
  Pollers = {p1, p2}
  Calls = {c1, c2}
  Closer = closer
  NoTask = nobody
  NoData = none
  Off = "OFF"
  Manual = "MANUAL"
  ActiveModes = {"MANUAL", "AUTOMATIC"}
  AppModes = {"AUTOMATIC", "HOLIDAY"}
  Cancellable = {}
  Services = {"mode", "power_off", "level"}
  Events = {"outage", "unload", "malformed"}
  MaxCalls = 2
  MaxVersion = 1
  MaxFailures = 1
  FloatExponentLimit = 1
INVARIANT TypeOK OneJobAtATime UnloadCloses PollingFollowsLife
PROPERTY ImplementsStore
SYMMETRY TaskSymmetry
