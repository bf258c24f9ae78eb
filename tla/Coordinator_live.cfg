SPECIFICATION FairSpec
CONSTANTS
  Pollers = {p1}
  Calls = {c1}
  Closer = closer
  NoTask = nobody
  NoData = none
  Off = "OFF"
  Manual = "MANUAL"
  ActiveModes = {"MANUAL"}
  AppModes = {}
  Cancellable = {c1}
  Services = {"room_level"}
  Events = {"outage", "unload", "restart"}
  MaxCalls = 2
  MaxVersion = 0
  MaxFailures = 6
  FloatExponentLimit = 1024
PROPERTY EveryTaskEnds Recovery DeadGatewayReported EntitiesCatchUp
