---------------------------- MODULE TelemetryCache ----------------------------
(***************************************************************************)
(* The last-value cache of device telemetry in ConnectBoxClient.  A value  *)
(* is told apart by when the gateway took it from the unit: 1, 2, ...; an  *)
(* empty value, or none, is NoValue.  Snapshots merge the reported values  *)
(* over the cached ones; a filter reset drops the cached ones of its unit. *)
(* The client is used by one job at a time (module Coordinator).           *)
(***************************************************************************)
EXTENDS Naturals

CONSTANTS
  Ids,         \* device ids
  Profiles,    \* pairs of product type and variant
  Props,       \* property identities
  Runtime,     \* the property a filter reset sets to zero
  MaxReports,  \* bound on the values a gateway takes from its units
  NoUnit,      \* no unit has this id
  WithReset    \* filters are reset

ASSUME PropsAssumption == Runtime \in Props
ASSUME ProfilesAssumption == NoUnit \notin Profiles /\ MaxReports \in Nat
ASSUME ResetAssumption == WithReset \in BOOLEAN

Keys == Ids \X Profiles
NoValue == 0
Blank == [p \in Props |-> NoValue]

VARIABLES
  unit,      \* profile of the unit attached at each id
  report,    \* what the gateway lists for the unit at each id
  clock,     \* number of values taken so far
  origin,    \* history: the unit each value was taken from
  pc,        \* "idle", "reading" (a snapshot), or "reset" (a filter reset)
  target,    \* the unit whose filter is being reset
  rooms,     \* the room state to return: the values listed for each unit in it
  present,   \* the units in it
  readAt,    \* history: clock at the time it was read
  cache,     \* _property_cache; all NoValue for a unit without an entry
  shown,     \* the units of the latest snapshot
  served,    \* their values in it
  gone,      \* history: clock at the time of the latest snapshot without a unit
  dropped,   \* history: units whose entry was dropped since the latest snapshot
  outdated   \* history: values from before a drop of their unit's entry that no
             \* snapshot has listed since

gatewayVars == <<unit, report, clock, origin>>
readVars == <<pc, target, rooms, present, readAt>>
snapshotVars == <<cache, shown, served, gone, dropped, outdated>>
vars == <<gatewayVars, readVars, snapshotVars>>

NoKey == <<>>

Init ==
  /\ unit \in [Ids -> Profiles \cup {NoUnit}]
  /\ report = [i \in Ids |-> Blank]
  /\ clock = 0 /\ origin = [n \in 1..MaxReports |-> NoKey]
  /\ pc = "idle" /\ target = NoKey
  /\ rooms = [k \in Keys |-> Blank] /\ present = {} /\ readAt = 0
  /\ cache = [k \in Keys |-> Blank]
  /\ shown = {} /\ served = [k \in Keys |-> Blank]
  /\ gone = [k \in Keys |-> 0] /\ dropped = {} /\ outdated = {}

------------------------------------------------------------------------------
(* The gateway                                                             *)

Attached == {k \in Keys : unit[k[1]] = k[2]}

\* A value is taken from a unit and listed from now on.
Report(i, p) ==
  /\ unit[i] # NoUnit /\ clock < MaxReports
  /\ clock' = clock + 1
  /\ report' = [report EXCEPT ![i][p] = clock + 1]
  /\ origin' = [origin EXCEPT ![clock + 1] = <<i, unit[i]>>]
  /\ UNCHANGED <<unit, readVars, snapshotVars>>

\* While it is refreshed a value is listed as empty.
Empty(i, p) ==
  /\ report[i][p] # NoValue
  /\ report' = [report EXCEPT ![i][p] = NoValue]
  /\ UNCHANGED <<unit, clock, origin, readVars, snapshotVars>>

\* A unit leaves, or another one takes its id.
Exchange(i, profile) ==
  /\ unit[i] # profile
  /\ unit' = [unit EXCEPT ![i] = profile]
  /\ report' = [report EXCEPT ![i] = Blank]
  /\ UNCHANGED <<clock, origin, readVars, snapshotVars>>

------------------------------------------------------------------------------
(* Merging                                                                 *)

\* Mutant of PropertyCacheKey: the device id alone.
IdOnly(k) == <<k[1], CHOOSE v \in Profiles : TRUE>>

\* _property_cache_key: an identity that tells the profiles of a unit apart.
PropertyCacheKey(k) == k

Usable(values) == \E p \in Props : values[p] # NoValue

\* Mutant of Merge: the listed values are taken as they are.
MergeNothing(listed, cached) == [p \in Props |-> listed[p]]

\* The listed values, and the cached ones where a listed one is empty.
Merge(listed, cached) ==
  [p \in Props |-> IF listed[p] # NoValue THEN listed[p] ELSE cached[p]]

\* _restore_device_properties
Restore ==
  [k \in Keys |-> IF k \in present THEN Merge(rooms[k], cache[PropertyCacheKey(k)])
                  ELSE Blank]

\* Mutant of Forget: the entries of absent units stay.
ForgetNone(c, values) == cache[c]

\* Mutant of Forget: nothing is left that could be merged.
ForgetWholly(c, values) == <<>>

\* The entry of a unit that is absent, or has no usable value at all.
Forget(c, values) ==
  IF \E k \in present : PropertyCacheKey(k) = c THEN cache[c] ELSE Blank

\* Mutant of Remember: an entry that is there is not replaced.
RememberOnce(values) ==
  cache' = [c \in Keys |->
              LET ks == {k \in present : PropertyCacheKey(k) = c /\ Usable(values[k])}
              IN  IF ks # {} /\ ~Usable(cache[c])
                  THEN values[CHOOSE k \in ks : TRUE] ELSE Forget(c, values)]

\* _remember_device_properties
Remember(values) ==
  cache' = [c \in Keys |->
              LET ks == {k \in present : PropertyCacheKey(k) = c /\ Usable(values[k])}
              IN  IF ks # {} THEN values[CHOOSE k \in ks : TRUE] ELSE Forget(c, values)]

------------------------------------------------------------------------------
(* Snapshots                                                               *)

\* read_snapshot begins.
BeginSnapshot ==
  /\ pc = "idle"
  /\ pc' = "reading" /\ target' = NoKey
  /\ UNCHANGED <<gatewayVars, rooms, present, readAt, snapshotVars>>

\* Rooms are read, once or several times (module PropertyReads); the state that
\* is returned is that of any of the readings.
ReadRooms ==
  /\ pc \in {"reading", "read"}
  /\ pc' = "read"
  /\ rooms' = [k \in Keys |-> IF k \in Attached THEN report[k[1]] ELSE Blank]
  /\ present' = Attached
  /\ readAt' = clock
  /\ UNCHANGED <<gatewayVars, target, snapshotVars>>

\* The rooms that were read list the runtime that a filter reset awaits for its
\* device id, whenever it was taken: it may have been zero before the reset.
Verified ==
  target # NoKey =>
    \E k \in present : k[1] = target[1] /\ rooms[k][Runtime] # NoValue

ReturnSnapshot ==
  /\ pc = "read" /\ Verified
  /\ pc' = "idle"
  /\ Remember(Restore)
  /\ served' = Restore /\ shown' = present
  /\ gone' = [k \in Keys |-> IF k \in present THEN gone[k] ELSE readAt]
  /\ dropped' = {}
  /\ outdated' = outdated \ {rooms[k][p] : k \in Keys, p \in Props}
  /\ UNCHANGED <<gatewayVars, target, rooms, present, readAt>>

\* An exception ends the snapshot or the reset: the cache stays as it is.
Fail ==
  /\ pc # "idle"
  /\ pc' = "idle"
  /\ UNCHANGED <<gatewayVars, target, rooms, present, readAt, snapshotVars>>

\* reset_filter_timer finds the unit in the rooms and writes to the gateway ...
BeginReset(k) ==
  /\ WithReset
  /\ pc = "idle" /\ k \in Attached
  /\ pc' = "reset" /\ target' = k
  /\ UNCHANGED <<gatewayVars, rooms, present, readAt, snapshotVars>>

\* The values taken so far from the unit whose filter is reset.
TakenBefore == {n \in 1..clock : origin[n] = target}

\* Mutant of DropCached: the cached values stay.
DropNothing ==
  /\ pc = "reset"
  /\ dropped' = dropped \cup {target} /\ outdated' = outdated \cup TakenBefore
  /\ pc' = "reading"
  /\ UNCHANGED <<gatewayVars, target, rooms, present, readAt, cache, shown, served, gone>>

\* ... and once both writes are confirmed drops the unit's entry and reads a
\* snapshot that lists the awaited runtime.
DropCached ==
  /\ pc = "reset"
  /\ cache' = [cache EXCEPT ![PropertyCacheKey(target)] = Blank]
  /\ dropped' = dropped \cup {target} /\ outdated' = outdated \cup TakenBefore
  /\ pc' = "reading"
  /\ UNCHANGED <<gatewayVars, target, rooms, present, readAt, shown, served, gone>>

Gateway ==
  \/ \E i \in Ids : \E p \in Props : Report(i, p) \/ Empty(i, p)
  \/ \E i \in Ids : \E profile \in Profiles \cup {NoUnit} : Exchange(i, profile)

Next ==
  \/ Gateway
  \/ BeginSnapshot \/ ReadRooms \/ ReturnSnapshot \/ Fail
  \/ \E k \in Keys : BeginReset(k)
  \/ DropCached

Spec == Init /\ [][Next]_vars

------------------------------------------------------------------------------
(* Properties                                                              *)

Values == [Props -> 0..MaxReports]

\* Cached, listed and served values are values the gateway has taken; the cache
\* holds an entry for each unit's identity (client.py:97-99).
TypeOK ==
  /\ unit \in [Ids -> Profiles \cup {NoUnit}]
  /\ report \in [Ids -> Values]
  /\ clock \in 0..MaxReports
  /\ origin \in [1..MaxReports -> Keys \cup {NoKey}]
  /\ pc \in {"idle", "reading", "read", "reset"}
  /\ target \in Keys \cup {NoKey}
  /\ rooms \in [Keys -> Values] /\ present \in SUBSET Keys
  /\ readAt \in 0..MaxReports
  /\ cache \in [Keys -> Values]
  /\ shown \in SUBSET Keys /\ served \in [Keys -> Values]
  /\ gone \in [Keys -> 0..MaxReports] /\ dropped \in SUBSET (Keys \cup {NoKey})
  /\ outdated \in SUBSET (1..MaxReports)

\* A unit is never shown a value that was taken from another unit, or from a
\* unit of another profile that had its id (client.py:694-696).
NoCrossProfile ==
  \A k \in Keys : \A p \in Props :
    served[k][p] # NoValue => origin[served[k][p]] = k

\* A unit that returns after a snapshot without it is not shown values from
\* before (client.py:705-709).
NothingFromBefore ==
  \A k \in Keys : \A p \in Props : served[k][p] # NoValue => served[k][p] > gone[k]

\* No snapshot shows an older value than the one before it, however readings
\* fail, filters are reset and units are exchanged (client.py:719-740).
NeverOlder ==
  [][\A k \in shown \cap shown' : \A p \in Props :
       served'[k][p] # NoValue => served'[k][p] >= served[k][p]]_vars

\* A value that was shown stays until the gateway lists its successor, while the
\* unit stays and no filter reset drops its entry (CHANGELOG.md:88-89, "Keep the
\* last valid device-property value when a refresh temporarily reports an empty
\* value").
NoDropout ==
  [][\A k \in (shown \cap shown') \ dropped : \A p \in Props :
       served[k][p] # NoValue => served'[k][p] # NoValue]_vars

\* Nothing cached outlives a filter reset: once the entry of a unit was dropped, no
\* snapshot, be it the reset's own or any later one after a failure, shows a value
\* from before unless the gateway has listed that value again (client.py:495).  Only
\* the runtime is written; an old remaining time or limit that is listed is shown.
ResetForgets ==
  \A k \in shown \ dropped : \A p \in Props : served[k][p] \notin outdated
=============================================================================
