SPECIFICATION EntitySpec
CONSTANTS
  spot = spot
  comfoAir = comfoAir
  NoUnit = NoUnit
  Ids = {1}
  Profiles = {spot, comfoAir}
  Supported = {spot, comfoAir}
  Checked = spot
  Props = {"runtime", "role"}
  Runtime = "runtime"
  CheckedProps = {"role"}
  OptionalProps = {"role"}
  MaxReports = 4
  WithReset = TRUE
INVARIANT TypeOK
INVARIANT NoCrossProfile
INVARIANT NothingFromBefore
INVARIANT ResetForgets
INVARIANT ReadingsHaveEntities
PROPERTY NeverOlder NoDropout
