SPECIFICATION FairSpec
CONSTANTS
  spot1 = spot1
  spot2 = spot2
  NoSeq = NoSeq
  Devices = {spot1, spot2}
  Supported = {spot1, spot2}
  Checked = {spot1, spot2}
  Stable = {spot1}
  SpecCount <- TwoAndThree
  MayReject <- SomeRefuse
  Faults = {"lost", "garbled"}
INVARIANT TypeOK SequenceDiscipline NoRetryWhileAttached
PROPERTY TelemetryOptional FanStateServed
