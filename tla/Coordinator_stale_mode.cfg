SPECIFICATION Spec
CONSTANTS
  Pollers = {p1, p2}
  Calls = {c1, c2}
  Closer = closer
  NoTask = nobody
  NoData = none
  Off = "OFF"
  Manual = "MANUAL"
  ActiveModes = {"MANUAL", "AUTOMATIC"}
  AppModes = {"AUTOMATIC"}
  Cancellable = {}
  Services = {"mode", "power_on", "power_off"}
  Events = {}
  MaxCalls = 2
  MaxVersion = 0
  MaxFailures = 6
  FloatExponentLimit = 1024
PROPERTY PowerOnRestores
SYMMETRY TaskSymmetry
