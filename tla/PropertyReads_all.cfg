SPECIFICATION Spec
CONSTANTS
  spot1 = spot1
  spot2 = spot2
  NoSeq = NoSeq
  Devices = {spot1}
  Supported = {spot1}
  Checked = {spot1}
  Stable = {}
  SpecCount <- AllTwo
  MayReject = {}
  Faults = {"lost"}
INVARIANT AllPropertiesRead
