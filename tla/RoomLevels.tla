------------------------------ MODULE RoomLevels ------------------------------
(***************************************************************************)
(* The commands that set a room's ventilation level, select a situation or *)
(* reset a unit's filter timer, as the executor thread runs them: several  *)
(* requests each, between which the official app, the unit's control panel *)
(* and the units themselves may change what was read.  The room keeps a    *)
(* configured level for its situations; the level its units run at follows *)
(* over the radio.  A write that the gateway has confirmed may take effect *)
(* later, or never.  The client runs one command at a time (module         *)
(* Coordinator).                                                           *)
(***************************************************************************)
EXTENDS Naturals

CONSTANTS
  Situations,     \* temperature modes of the room's values
  Selectable,     \* the situations a command selects by their location
  Home,           \* the situations at home
  Levels,         \* ventilation levels
  Writable,       \* levels the room's units support
  NoLevel,        \* the gateway reports no level
  Units,          \* ventilation units attached to the room
  Resettable,     \* those whose filter timer the client may reset
  NoUnit,         \* the command is not about one unit
  Automatic, Manual,   \* run modes
  Active,         \* argument of set_level: the situation that is active
  AppEvents,      \* what the app, the panel and the units may do
  MaxChanges,     \* bound: changes they make
  MaxCommands     \* bound: commands given

ASSUME SetsAssumption ==
  /\ Selectable \subseteq Situations /\ Home \subseteq Situations
  /\ Writable \subseteq Levels
  /\ NoLevel \notin Levels /\ Active \notin Situations
  /\ Resettable \subseteq Units /\ NoUnit \notin Units
ASSUME BoundsAssumption == MaxChanges \in Nat /\ MaxCommands \in Nat

VARIABLES
  mode,       \* run mode of the system
  situation,  \* active situation of the system
  values,     \* configured levels of the room; NoLevel: none for that situation
  target,     \* level its units run at, as reported
  panel,      \* that level was set at a panel, and the room has not followed yet
  present,    \* the room is known to the gateway
  alarms,     \* units whose filter alarm is raised
  fresh,      \* units whose filter runtime is zero
  dueValues,     \* levels written and not taken up yet: none, or the latest
  dueSituation,  \* the situation likewise
  dueRuntime,    \* units whose filter runtime was written, likewise
  changes,    \* changes made by others so far
  mine,       \* history: levels a command has verified and nobody has changed since
  pc,         \* what the thread does next
  op,         \* the command: [kind, level, sit, unit]
  sit,        \* situation the command applies to
  isActive,   \* it was the active one when the run state was read
  seen,       \* levels and alarms in the rooms that were read first
  commands,   \* commands given so far
  held,       \* history: the command's effect was in place after its write
  outcome     \* how the latest command ended

roomVars == <<mode, situation, values, target, panel, present>>
filterVars == <<alarms, fresh>>
dueVars == <<dueValues, dueSituation, dueRuntime>>
gatewayVars == <<roomVars, filterVars, dueVars>>
opVars == <<op, sit, isActive, seen, commands>>
othersVars == <<changes, mine>>
vars == <<gatewayVars, othersVars, pc, opVars, held, outcome>>

Values == [Situations -> Levels \cup {NoLevel}]
NoOp == [kind |-> "none", level |-> NoLevel, sit |-> Active, unit |-> NoUnit]
Room == [values |-> values, alarms |-> alarms]

Init ==
  /\ mode \in {Automatic, Manual} /\ situation \in Situations
  /\ values \in Values
  /\ target \in {NoLevel, values[situation]}
  /\ panel = FALSE /\ present = TRUE /\ alarms = {} /\ fresh = {}
  /\ dueValues = {} /\ dueSituation = {} /\ dueRuntime = {}
  /\ changes = 0 /\ mine = [s \in Situations |-> NoLevel]
  /\ pc = "idle" /\ op = NoOp /\ sit = Active /\ isActive = FALSE
  /\ seen = Room /\ commands = 0
  /\ held = FALSE /\ outcome = "none"

------------------------------------------------------------------------------
(* set_level                                                               *)

\* The effect of the command is in place at the gateway.
InPlace ==
  CASE op.kind = "level" -> values[sit] = op.level
    [] op.kind = "situation" -> mode = Manual /\ situation = op.sit
    [] op.kind = "reset" -> op.unit \in fresh
    [] OTHER -> FALSE
Waiting == {"wait_level", "wait_configured", "wait_situation", "wait_runtime"}
Held == held' = (held \/ (pc' \in Waiting /\ InPlace'))

End(how) == pc' = "idle" /\ outcome' = how
EndKeeping(how) == End(how) /\ UNCHANGED <<gatewayVars, othersVars, opVars, held>>

Begin(kind, level, which, unit) ==
  /\ pc = "idle" /\ commands < MaxCommands
  /\ commands' = commands + 1
  /\ op' = [kind |-> kind, level |-> level, sit |-> which, unit |-> unit]
  /\ sit' = Active /\ isActive' = FALSE /\ seen' = Room
  /\ held' = FALSE /\ outcome' = "none"
  /\ UNCHANGED <<gatewayVars, othersVars>>

SetLevel(level, which) ==
  /\ Begin("level", level, which, NoUnit)
  /\ pc' = "run_state"

\* The run state tells which situation is active now.
ReadRunState ==
  /\ pc = "run_state"
  /\ sit' = IF op.sit = Active THEN situation ELSE op.sit
  /\ isActive' = (sit' = situation)
  /\ pc' = "rooms"
  /\ UNCHANGED <<gatewayVars, othersVars, op, seen, commands, held, outcome>>

\* The arguments are checked against the rooms that are read: the unit supports the
\* level or the reset, the room has a value for the situation that was named, and
\* it has values at all.
Supported ==
  IF op.kind = "level" THEN op.level \in Writable ELSE op.unit \in Resettable
SituationKnown == op.kind = "level" /\ op.sit # Active => values[op.sit] # NoLevel
ValuesKnown == op.kind = "level" => \E s \in Situations : values[s] # NoLevel

ReadRoom ==
  /\ pc = "rooms" /\ present /\ Supported /\ SituationKnown /\ ValuesKnown
  /\ seen' = Room
  /\ pc' = "write"
  /\ UNCHANGED <<gatewayVars, othersVars, op, sit, isActive, commands, held, outcome>>

\* Mutant of RoomGone: the missing room is not looked for.
RoomGoneUnhandled == pc = "rooms" /\ ~present /\ EndKeeping("stop_iteration")

RoomGone == pc = "rooms" /\ ~present /\ EndKeeping("protocol_error")
LevelRejected ==
  /\ pc = "rooms" /\ present /\ op.kind = "level" /\ ~(Supported /\ SituationKnown)
  /\ EndKeeping("value_error")
NoRoomValues ==
  /\ pc = "rooms" /\ present /\ Supported /\ SituationKnown /\ ~ValuesKnown
  /\ EndKeeping("protocol_error")

\* Mutant of EncodeRoomLevel: the other situations get the new level as well.
EncodeEveryLevel == [s \in Situations |-> op.level]

\* encode_room_level: the values that were read, one of them replaced.
EncodeRoomLevel == [seen.values EXCEPT ![sit] = op.level]

\* The gateway takes written levels up with the confirmation, or they are due; they
\* replace levels that are still due from an earlier write.
TakeLevels(written) ==
  \/ values' = written /\ dueValues' = {}
  \/ values' = values /\ dueValues' = {written}
Unverified == mine' = [mine EXCEPT ![sit] = NoLevel]

WriteLevel ==
  /\ pc = "write" /\ op.kind = "level" /\ present
  /\ TakeLevels(EncodeRoomLevel) /\ Unverified
  /\ pc' = IF isActive THEN "wait_level" ELSE "wait_configured"
  /\ UNCHANGED <<mode, situation, target, panel, present, filterVars, dueSituation,
                 dueRuntime, changes, opVars, outcome>>
  /\ Held

\* _wait_for_room_level: until the reported level is the one written, or the
\* room is gone, or time is up.
LevelSettled ==
  /\ pc = "wait_level"
  /\ ~present \/ target \in {NoLevel, op.level}
  /\ pc' = "snapshot"
  /\ UNCHANGED <<gatewayVars, othersVars, opVars, held, outcome>>
LevelTimeout ==
  /\ pc = "wait_level"
  /\ present /\ target \notin {NoLevel, op.level}
  /\ pc' = "snapshot"
  /\ UNCHANGED <<gatewayVars, othersVars, opVars, held, outcome>>

\* _wait_for_configured_level: until the room shows the level for the situation.
ConfiguredSettled ==
  /\ pc = "wait_configured" /\ present /\ values[sit] = op.level
  /\ mine' = [mine EXCEPT ![sit] = op.level]
  /\ pc' = "snapshot"
  /\ UNCHANGED <<gatewayVars, changes, opVars, held, outcome>>
RoomGoneWaiting == pc = "wait_configured" /\ ~present /\ EndKeeping("protocol_error")

\* Mutant of TimeoutOutcome: a deadline that passes is not an error.
TimeoutIgnored == "ok"

TimeoutOutcome == "protocol_error"
ConfiguredTimeout ==
  /\ pc = "wait_configured" /\ present /\ values[sit] # op.level
  /\ EndKeeping(TimeoutOutcome)

------------------------------------------------------------------------------
(* set_situation                                                           *)

SetSituation(s) ==
  /\ Begin("situation", NoLevel, s, NoUnit)
  /\ pc' = "write"

\* A location only says at home or away: which situation at home it is, the gateway
\* decides (Summer, where the location does not change, lets it stay).
Located(s) == IF s \in Home THEN Home ELSE {s}
Situated(s) == mode' = Manual /\ situation' \in Located(s)

\* The manual mode and the location are written; the gateway takes the new
\* situation up with the confirmation, or it is due.
TakeSituation ==
  \/ Situated(op.sit) /\ dueSituation' = {}
  \/ dueSituation' = {op.sit} /\ UNCHANGED <<mode, situation>>

WriteSituation ==
  /\ pc = "write" /\ op.kind = "situation"
  /\ TakeSituation
  /\ pc' = "wait_situation"
  /\ UNCHANGED <<values, target, panel, present, filterVars, dueValues, dueRuntime,
                 othersVars, opVars, outcome>>
  /\ Held

Reported == mode = Manual /\ situation = op.sit
SituationSettled ==
  /\ pc = "wait_situation" /\ Reported
  /\ pc' = "snapshot"
  /\ UNCHANGED <<gatewayVars, othersVars, opVars, held, outcome>>
SituationTimeout ==
  /\ pc = "wait_situation" /\ ~Reported
  /\ EndKeeping(TimeoutOutcome)

------------------------------------------------------------------------------
(* reset_filter_timer                                                      *)

ResetFilterTimer(u) ==
  /\ Begin("reset", NoLevel, Active, u)
  /\ pc' = "rooms"

\* Not a supported unit with a resettable filter timer.
ResetUnsupported ==
  /\ pc = "rooms" /\ present /\ op.kind = "reset" /\ op.unit \notin Resettable
  /\ EndKeeping("protocol_error")

\* Mutant of AlarmFields: the flags of the other units are echoed as they were read.
AlarmFieldsAsRead == [u \in Units |-> u # op.unit /\ u \in seen.alarms]

\* encode_filter_reset_room: no unit's flag is echoed, the selected unit's is
\* written as false.
AlarmFields == [u \in {op.unit} |-> FALSE]

\* The gateway takes the room that is written: the fields it does not name keep
\* their values, and the levels read before may be taken as well or left.
TakeRoom ==
  /\ TakeLevels(seen.values) \/ UNCHANGED <<values, dueValues>>
  /\ LET fields == AlarmFields
     IN  alarms' = {u \in Units : IF u \in DOMAIN fields THEN fields[u] ELSE u \in alarms}
  /\ UNCHANGED <<mode, situation, target, panel, present, fresh, dueSituation, dueRuntime>>

\* The filter alarm is acknowledged with the room as it was read.
WriteRoom ==
  /\ pc = "write" /\ op.kind = "reset" /\ present
  /\ TakeRoom
  /\ pc' = "write_runtime"
  /\ UNCHANGED <<othersVars, opVars, held, outcome>>

\* A second request sets the runtime; the unit takes it up now, or it is due.
TakeRuntime ==
  \/ fresh' = fresh \cup {op.unit} /\ dueRuntime' = dueRuntime \ {op.unit}
  \/ dueRuntime' = dueRuntime \cup {op.unit} /\ UNCHANGED fresh

WriteRuntime ==
  /\ pc = "write_runtime" /\ present
  /\ TakeRuntime
  /\ pc' = "wait_runtime"
  /\ UNCHANGED <<roomVars, alarms, dueValues, dueSituation, othersVars, opVars, outcome>>
  /\ Held

\* The expected property value, compared with the rooms that are read back.
RuntimeSettled ==
  /\ pc = "wait_runtime" /\ present /\ op.unit \in fresh
  /\ pc' = "snapshot"
  /\ UNCHANGED <<gatewayVars, othersVars, opVars, held, outcome>>
RuntimeTimeout ==
  /\ pc = "wait_runtime" /\ ~(present /\ op.unit \in fresh)
  /\ EndKeeping(TimeoutOutcome)

------------------------------------------------------------------------------
\* read_snapshot ends the command.
ReadBack == pc = "snapshot" /\ EndKeeping("ok")

\* A request is lost or refused before the gateway has it.
RequestFails == pc # "idle" /\ EndKeeping("protocol_error")
\* The confirmation of a write is lost: the gateway takes it up, or it is due.
WriteLost ==
  /\ \/ /\ pc = "write" /\ op.kind = "level" /\ present
        /\ TakeLevels(EncodeRoomLevel) /\ Unverified
        /\ UNCHANGED <<mode, situation, target, panel, present, filterVars, dueSituation,
                       dueRuntime>>
     \/ /\ pc = "write" /\ op.kind = "situation"
        /\ TakeSituation
        /\ UNCHANGED <<values, target, panel, present, filterVars, dueValues, dueRuntime,
                       mine>>
     \/ pc = "write" /\ op.kind = "reset" /\ present /\ TakeRoom /\ UNCHANGED mine
     \/ /\ pc = "write_runtime" /\ present
        /\ TakeRuntime
        /\ UNCHANGED <<roomVars, alarms, dueValues, dueSituation, mine>>
  /\ End("protocol_error")
  /\ UNCHANGED <<changes, opVars, held>>

------------------------------------------------------------------------------
(* The gateway, the app and the units                                      *)

\* What is due is taken up later, if at all; the command may have ended long before.
LevelsTakenUp ==
  /\ present
  /\ \E written \in dueValues : values' = written
  /\ dueValues' = {}
  /\ UNCHANGED <<mode, situation, target, panel, present, filterVars, dueSituation,
                 dueRuntime, othersVars, pc, opVars, outcome>>
  /\ Held
SituationTakenUp ==
  /\ \E s \in dueSituation : Situated(s)
  /\ dueSituation' = {}
  /\ UNCHANGED <<values, target, panel, present, filterVars, dueValues, dueRuntime,
                 othersVars, pc, opVars, outcome>>
  /\ Held
RuntimeTakenUp ==
  /\ present
  /\ \E u \in dueRuntime : fresh' = fresh \cup {u} /\ dueRuntime' = dueRuntime \ {u}
  /\ UNCHANGED <<roomVars, alarms, dueValues, dueSituation, othersVars, pc, opVars,
                 outcome>>
  /\ Held

\* The units take over the level configured for the active situation.
UnitsFollow ==
  /\ target # NoLevel /\ present /\ values[situation] \notin {target, NoLevel}
  /\ target' = values[situation] /\ panel' = FALSE
  /\ UNCHANGED <<mode, situation, values, present, filterVars, dueVars, othersVars, pc,
                 opVars, held, outcome>>
\* The configured value follows a level set at a panel.
RoomFollowsPanel ==
  /\ panel /\ present
  /\ values' = [values EXCEPT ![situation] = target] /\ panel' = FALSE
  /\ mine' = [mine EXCEPT ![situation] = NoLevel]
  /\ UNCHANGED <<mode, situation, target, present, filterVars, dueVars, changes, pc,
                 opVars, outcome>>
  /\ Held

Other ==
  /\ changes < MaxChanges /\ changes' = changes + 1
  /\ UNCHANGED <<pc, opVars, outcome>>

AppSetsLevel ==
  /\ "level" \in AppEvents /\ Other
  /\ \E s \in Situations : \E l \in Levels :
       /\ l # values[s] /\ values' = [values EXCEPT ![s] = l]
       /\ mine' = [mine EXCEPT ![s] = NoLevel]
  /\ UNCHANGED <<mode, situation, target, panel, present, filterVars, dueVars>>
  /\ Held
AppSwitches ==
  /\ "switch" \in AppEvents /\ Other
  /\ \E m \in {Automatic, Manual} : \E s \in Situations :
       <<m, s>> # <<mode, situation>> /\ mode' = m /\ situation' = s
  /\ UNCHANGED <<values, target, panel, present, filterVars, dueVars, mine>>
  /\ Held
PanelSetsLevel ==
  /\ "panel" \in AppEvents /\ Other /\ present /\ target # NoLevel
  /\ \E l \in Levels : l # target /\ target' = l
  /\ panel' = TRUE
  /\ UNCHANGED <<mode, situation, values, present, filterVars, dueVars, mine, held>>
RoomRemoved ==
  /\ "remove" \in AppEvents /\ Other /\ present
  /\ present' = FALSE
  /\ UNCHANGED <<mode, situation, values, target, panel, filterVars, dueVars, mine, held>>

\* A unit's filter is due, or its runtime counts on from zero.
UnitRaisesAlarm ==
  /\ "filter" \in AppEvents /\ Other
  /\ \E u \in Units \ alarms : alarms' = alarms \cup {u}
  /\ UNCHANGED <<roomVars, fresh, dueVars, mine, held>>
UnitRuns ==
  /\ "filter" \in AppEvents /\ Other
  /\ \E u \in fresh : fresh' = fresh \ {u}
  /\ UNCHANGED <<roomVars, alarms, dueVars, mine, held>>

Commands ==
  \/ \E l \in Levels : \E which \in Situations \cup {Active} : SetLevel(l, which)
  \/ \E s \in Selectable : SetSituation(s)
  \/ \E u \in Units : ResetFilterTimer(u)
Thread ==
  \/ ReadRunState \/ ReadRoom \/ RoomGone \/ LevelRejected \/ NoRoomValues
  \/ WriteLevel \/ LevelSettled \/ LevelTimeout
  \/ ConfiguredSettled \/ RoomGoneWaiting \/ ConfiguredTimeout
  \/ WriteSituation \/ SituationSettled \/ SituationTimeout
  \/ ResetUnsupported \/ WriteRoom \/ WriteRuntime \/ RuntimeSettled \/ RuntimeTimeout
  \/ ReadBack
Others ==
  \/ LevelsTakenUp \/ SituationTakenUp \/ RuntimeTakenUp
  \/ UnitsFollow \/ RoomFollowsPanel
  \/ AppSetsLevel \/ AppSwitches \/ PanelSetsLevel \/ RoomRemoved
  \/ UnitRaisesAlarm \/ UnitRuns

Next == Commands \/ Thread \/ RequestFails \/ WriteLost \/ Others

Spec == Init /\ [][Next]_vars

------------------------------------------------------------------------------
(* Properties                                                              *)

\* Only levels and situations that exist are read and written; a command ends
\* with a snapshot, a ProtocolError or a ValueError (client.py:323-400).
TypeOK ==
  /\ mode \in {Automatic, Manual} /\ situation \in Situations
  /\ values \in Values /\ target \in Levels \cup {NoLevel}
  /\ panel \in BOOLEAN /\ present \in BOOLEAN
  /\ dueValues \subseteq Values /\ dueSituation \subseteq Situations
  /\ dueRuntime \subseteq Units
  /\ changes \in 0..MaxChanges /\ mine \in Values /\ commands \in 0..MaxCommands
  /\ pc \in {"idle", "run_state", "rooms", "write", "wait_level", "wait_configured",
             "wait_situation", "write_runtime", "wait_runtime", "snapshot"}
  /\ alarms \subseteq Units /\ fresh \subseteq Units
  /\ op \in [kind : {"none", "level", "situation", "reset"}, level : Levels \cup {NoLevel},
             sit : Situations \cup {Active}, unit : Units \cup {NoUnit}]
  /\ sit \in Situations \cup {Active} /\ isActive \in BOOLEAN
  /\ seen \in [values : Values, alarms : SUBSET Units]
  /\ held \in BOOLEAN
  /\ outcome \in {"none", "ok", "protocol_error", "value_error"}

\* A command that ends without an error has had its effect at the gateway since
\* its write, however late the gateway takes writes up and whatever the app, the panel
\* and the radio do in between: the situation or the level of another situation that
\* was set, or the filter runtime at zero, even if one of the reset's two writes has
\* failed (coordinator.py:114, "Select and confirm a situation of the manual mode", and
\* :155).  The level of the active situation is excepted: the client only waits for the
\* units to report it and returns without an error when they do not (client.py:425-428).
Effective ==
  outcome = "ok" => held \/ (op.kind = "level" /\ isActive)

\* A level that a command has verified stays configured until another command names
\* its situation or somebody else changes it.  Each command writes the levels of all
\* situations, from a reading some requests old, and a write may be lost, late or
\* replaced by the next one: none of them brings an older level of another situation
\* back (protocol.py:363, "Update one active mode while preserving all other room mode
\* values").
VerifiedLevelsKept ==
  \A s \in Situations : mine[s] # NoLevel => values[s] = mine[s]

\* Resetting one unit's filter timer acknowledges no other unit's alarm, although the
\* whole room is written back: also not one that was raised after the room was read
\* (protocol.py:419-421).
OtherAlarmsKept ==
  [][\A u \in alarms \ alarms' : op.kind = "reset" /\ u = op.unit]_vars
=============================================================================
