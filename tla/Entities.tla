-------------------------------- MODULE Entities --------------------------------
(***************************************************************************)
(* The entities of the ventilation units over the client's snapshots       *)
(* (module TelemetryCache).  Each platform has a listener that runs on     *)
(* every published snapshot and adds the entities it has not added yet;    *)
(* entities are never removed, and an entity finds its unit by the device  *)
(* id, whatever unit has that id now.  A filter is reset by pressing a     *)
(* button that the latest snapshot makes available.                        *)
(***************************************************************************)
EXTENDS TelemetryCache

CONSTANTS
  Supported,       \* profiles of supported units
  Checked,         \* the profile whose status values are interpreted
  CheckedProps,    \* properties that are read only for that profile
  OptionalProps    \* properties whose sensor is added with the first reading

ASSUME EntitiesAssumption ==
  /\ Supported \subseteq Profiles /\ Checked \in Supported
  /\ CheckedProps \subseteq Props /\ OptionalProps \subseteq Props

VARIABLES
  units,      \* known ids of the fan and the binary sensor platform
  sensors,    \* known pairs of id and property of the sensor platform
  buttons     \* known ids of the button platform

entityVars == <<units, sensors, buttons>>

EntityInit == Init /\ units = {} /\ sensors = {} /\ buttons = {}

\* What a sensor reads from the values of a snapshot.
Reading(values, k, p) ==
  IF p \in CheckedProps /\ k[2] # Checked THEN NoValue ELSE values[k][p]

\* _supports_filter_reset
SupportsFilterReset(values, k) == k[2] = Checked /\ values[k][Runtime] # NoValue

SupportedUnits(there) == {k \in there : k[2] \in Supported}

\* The sensors a unit has in a snapshot: those without a condition, and those whose
\* reading is there.
SensorsOf(values, k) ==
  {<<k[1], p>> : p \in {q \in Props : q \in OptionalProps => Reading(values, k, q) # NoValue}}

\* Mutant of NewSensors: only a unit that is new is looked at.
NewSensorsOnce(there, values) ==
  UNION {SensorsOf(values, k) : k \in {u \in SupportedUnits(there) : u[1] \notin units}}

NewSensors(there, values) ==
  UNION {SensorsOf(values, k) : k \in SupportedUnits(there)}

\* add_new_entities of each platform.
AddNewEntities(there, values) ==
  /\ sensors' = sensors \cup NewSensors(there, values)
  /\ units' = units \cup {k[1] : k \in SupportedUnits(there)}
  /\ buttons' = buttons \cup {k[1] : k \in {u \in SupportedUnits(there) :
                                              SupportsFilterReset(values, u)}}

\* A snapshot is returned, accepted by the coordinator and published.
Publish ==
  /\ ReturnSnapshot
  /\ AddNewEntities(shown', served')

\* async_press: the button is available, and the coordinator finds the runtime in
\* the latest snapshot.  The client may find another unit at the id, or none.
Press(k) ==
  /\ k[1] \in buttons /\ k \in SupportedUnits(shown) /\ SupportsFilterReset(served, k)
  /\ BeginReset(k)
  /\ UNCHANGED entityVars

Quiet ==
  /\ Gateway \/ BeginSnapshot \/ ReadRooms \/ Fail \/ DropCached
  /\ UNCHANGED entityVars

EntityNext == Publish \/ Quiet \/ \E k \in Keys : Press(k)

EntitySpec == EntityInit /\ [][EntityNext]_<<vars, entityVars>>

------------------------------------------------------------------------------
(* Properties                                                              *)

\* Every value that is known of a supported unit has its entity: whenever it was read
\* first, and whatever unit had the id before, there is a sensor for each reading, a
\* fan, and a button for a filter that can be reset (sensor.py:205, "add newly
\* attached devices or readings dynamically").
ReadingsHaveEntities ==
  \A k \in SupportedUnits(shown) :
    /\ k[1] \in units
    /\ \A p \in Props : Reading(served, k, p) # NoValue => <<k[1], p>> \in sensors
    /\ SupportsFilterReset(served, k) => k[1] \in buttons
=============================================================================
