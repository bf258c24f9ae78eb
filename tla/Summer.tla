-------------------------------- MODULE Summer --------------------------------
(***************************************************************************)
(* The two commands of the gateway-wide summer function, as the executor   *)
(* thread runs them.  Starting or stopping an interval rewrites the run    *)
(* mode and the situation that were read a few requests earlier; changing  *)
(* one of the two settings rewrites the other one.  The official app may   *)
(* act between any two requests.                                           *)
(***************************************************************************)
EXTENDS Naturals

CONSTANTS
  Durations,    \* configured hours that lie in 1..24
  NoDuration,   \* a duration that is missing or out of that range
  NoSettings,   \* the gateway does not support the settings
  Keep,         \* a setting the command does not name
  AppEvents,    \* what the app may change
  MaxChanges,   \* bound: changes it makes
  MaxCommands   \* bound: commands given

ASSUME DurationsAssumption ==
  /\ NoDuration \notin Durations
  /\ NoSettings \notin [enabled : BOOLEAN, hours : Durations \cup {NoDuration}]
  /\ Keep \notin Durations /\ Keep \notin BOOLEAN
ASSUME BoundsAssumption == MaxChanges \in Nat /\ MaxCommands \in Nat

VARIABLES
  run,        \* run state of the gateway: [mode, sit, summer]
  settings,   \* summer settings: [enabled, hours], or NoSettings
  supported,  \* every attached unit is validated and reports the function
  changes,    \* changes made by the app so far
  pc,         \* what the thread does next
  op,         \* the command: [kind, on, enabled, hours], and lit: the switch was on
  before,     \* run state that was read first
  found,      \* settings that were read first
  commands,   \* commands given so far
  offered,    \* the command's entity was available when it was given
  held,       \* history: the effect was in place at a moment of the command
  overtaken,  \* history: the app changed what was read and will be written again
  outcome     \* how the latest command ended

gatewayVars == <<run, settings, supported>>
threadVars == <<op, before, found, commands, offered>>
vars == <<gatewayVars, changes, pc, threadVars, held, overtaken, outcome>>

Active == {"AUTOMATIC", "MANUAL"}
Modes == Active \cup {"STANDBY"}
Home == {"awake", "asleep"}
SituationsOfRun == Home \cup {"away", "frost"}
\* The active flag and the end time: not reported; unset; unset with an end; set
\* without an end; set and not over; set and over.
Summers == {"unknown", "off", "stopping", "starting", "running", "expired"}
RunStates == [mode : Modes, sit : SituationsOfRun, summer : Summers]
Settings == [enabled : BOOLEAN, hours : Durations \cup {NoDuration}]
NoOp == [kind |-> "none", on |-> FALSE, enabled |-> Keep, hours |-> Keep, lit |-> FALSE]

Init ==
  /\ run \in RunStates /\ settings \in Settings \cup {NoSettings}
  /\ supported \in BOOLEAN /\ changes = 0
  /\ pc = "idle" /\ op = NoOp /\ before = run /\ found = settings /\ commands = 0
  /\ offered = FALSE
  /\ held = FALSE /\ overtaken = FALSE /\ outcome = "none"

------------------------------------------------------------------------------
(* The entities that give the commands: what the snapshot they show allows.  *)
(* The snapshot is the gateway's state when the command is given; a later    *)
(* change makes it stale.                                                    *)

Complete(some) == some # NoSettings /\ some.hours # NoDuration
FlagSet(state) == state.summer \in {"starting", "running", "expired"}
Stopped(state) == state.summer \in {"off", "stopping"}

\* Mutant of IntervalOffered: the situation is not asked for.
IntervalOfferedAnywhere ==
  /\ supported /\ settings # NoSettings
  /\ run.mode \in Active /\ run.summer # "unknown"
  /\ FlagSet(run) \/ (Complete(settings) /\ settings.enabled)

\* The interval's switch is available.
IntervalOffered ==
  /\ supported /\ settings # NoSettings
  /\ run.mode \in Active /\ run.sit \in Home \cup {"away"} /\ run.summer # "unknown"
  /\ FlagSet(run) \/ (Complete(settings) /\ settings.enabled)
\* So is the switch of the function.
EnabledOffered == supported /\ settings # NoSettings /\ Stopped(run)
\* And the number of hours.
DurationOffered == supported /\ Complete(settings) /\ Stopped(run)

\* The interval's switch is turned on or off, also to where it is already; a setting
\* is changed by its own entity.
Offered(kind, enabled, hours) ==
  \/ kind = "interval" /\ IntervalOffered
  \/ kind = "configure" /\ hours = Keep /\ EnabledOffered
  \/ kind = "configure" /\ enabled = Keep /\ DurationOffered

------------------------------------------------------------------------------
(* Steps of both commands                                                  *)

Wanted(asked, present) == IF asked = Keep THEN present ELSE asked
Target(from) == [enabled |-> Wanted(op.enabled, from.enabled),
                 hours |-> Wanted(op.hours, from.hours)]

\* What was asked for is in place at the gateway.
InPlace ==
  CASE op.kind = "interval" /\ op.on -> run.summer = "running"
    [] op.kind = "interval" /\ ~op.on -> run.summer = "off"
    [] op.kind = "configure" -> settings # NoSettings /\ settings = Target(settings)
    [] OTHER -> FALSE
Held == held' = (held \/ (pc' # "idle" /\ InPlace'))

Goto(next) ==
  /\ pc' = next
  /\ UNCHANGED <<gatewayVars, changes, op, commands, offered, overtaken, outcome>>
  /\ Held
End(how) ==
  /\ pc' = "idle" /\ outcome' = how
  /\ UNCHANGED <<gatewayVars, changes, threadVars, held, overtaken>>

Begin(kind, on, enabled, hours) ==
  /\ pc = "idle" /\ commands < MaxCommands /\ commands' = commands + 1
  /\ op' = [kind |-> kind, on |-> on, enabled |-> enabled, hours |-> hours,
            lit |-> FlagSet(run)]
  /\ pc' = IF kind = "interval" THEN "run" ELSE "config_units"
  /\ before' = run /\ found' = settings
  /\ offered' = Offered(kind, enabled, hours)
  /\ UNCHANGED <<gatewayVars, changes>>
  /\ held' = InPlace' /\ overtaken' = FALSE /\ outcome' = "none"

\* An exchange fails before the write or after it.
RequestFails == pc # "idle" /\ End("protocol_error")
\* read_snapshot ends the command.
ReadBack == pc = "snapshot" /\ End("ok")

------------------------------------------------------------------------------
(* set_summer_ventilation                                                  *)

Toggle(on) == Begin("interval", on, Keep, Keep)

ReadRun == pc = "run" /\ before' = run /\ UNCHANGED found /\ Goto("units")
ReadUnits ==
  /\ pc = "units" /\ supported
  /\ UNCHANGED <<before, found>> /\ Goto("settings")
UnitsRefuse == pc \in {"units", "config_units"} /\ ~supported /\ End("refused")
ReadSettings ==
  /\ pc = "settings" /\ found' = settings
  /\ UNCHANGED before /\ Goto("decide")

\* Mutant of Startable: stopping an interval asks for the setting as well.
StartableOrStoppable == Complete(found) /\ found.enabled

Startable == op.on => Complete(found) /\ found.enabled
Preservable == before.mode \in Active /\ before.sit \in Home \cup {"away"}
StateKnown == before.summer # "unknown" /\ (op.on => before.summer # "starting")
Allowed == Startable /\ Preservable /\ StateKnown
AlreadyThere == before.summer = (IF op.on THEN "running" ELSE "off")

Refuse == pc = "decide" /\ ~Allowed /\ End("refused")
NothingToDo ==
  /\ pc = "decide" /\ Allowed /\ AlreadyThere
  /\ UNCHANGED <<before, found>> /\ Goto("snapshot")
Decide ==
  /\ pc = "decide" /\ Allowed /\ ~AlreadyThere
  /\ UNCHANGED <<before, found>> /\ Goto("write")

\* Mutant of UserLocation: encode_run_state's default location.
DefaultLocation == "home"

UserLocation == IF before.sit \in Home THEN "home" ELSE "away"
\* Situation the gateway takes on with a location.  A location only says at home or
\* away: who is at home already stays awake or asleep (RoomLevels, which lets the
\* gateway choose whenever a situation is selected, allows that and more).
Situated(location) ==
  IF location = "away" THEN "away" ELSE IF run.sit \in Home THEN run.sit ELSE "awake"

\* The gateway takes the mode and the location on; the interval may lag behind.
Rewritten ==
  [mode |-> before.mode, sit |-> Situated(UserLocation), summer |-> run.summer]
WriteRun ==
  /\ pc = "write"
  /\ \E summer \in {run.summer, IF op.on THEN "running" ELSE "off"} :
       run' = [Rewritten EXCEPT !.summer = summer]
  /\ pc' = "wait"
  /\ UNCHANGED <<settings, supported, changes, threadVars, overtaken, outcome>>
  /\ Held

\* The gateway takes the interval up, in one step or in two.
SummerApplied ==
  /\ pc = "wait" /\ ~held
  /\ \E summer \in IF op.on THEN {"starting", "running"} ELSE {"stopping", "off"} :
       run' = [run EXCEPT !.summer = summer]
  /\ UNCHANGED <<settings, supported, changes, pc, threadVars, overtaken, outcome>>
  /\ Held

SameState == run.mode = before.mode /\ run.sit = before.sit
Confirmed == run.summer = (IF op.on THEN "running" ELSE "off")
SwitchedMeanwhile == pc = "wait" /\ ~SameState /\ End("protocol_error")
IntervalSettled ==
  /\ pc = "wait" /\ SameState /\ Confirmed
  /\ UNCHANGED <<before, found>> /\ Goto("snapshot")

\* Mutant of TimeoutOutcome: a deadline that passes is not an error.
TimeoutIgnored == "ok"

TimeoutOutcome == "protocol_error"
IntervalTimeout == pc = "wait" /\ SameState /\ ~Confirmed /\ End(TimeoutOutcome)

------------------------------------------------------------------------------
(* set_summer_configuration                                                *)

Configure(enabled, hours) ==
  /\ <<enabled, hours>> # <<Keep, Keep>>
  /\ Begin("configure", FALSE, enabled, hours)

ConfigUnits ==
  /\ pc = "config_units" /\ supported
  /\ UNCHANGED <<before, found>> /\ Goto("config_settings")
ConfigSettings ==
  /\ pc = "config_settings" /\ Complete(settings)
  /\ found' = settings /\ UNCHANGED before /\ Goto("config_run")
\* Mutant of ConfigUnavailable: settings that are missing are not looked for.
ConfigUnavailableUnhandled ==
  /\ pc = "config_settings" /\ ~Complete(settings)
  /\ End("attribute_error")

ConfigUnavailable ==
  /\ pc = "config_settings" /\ ~Complete(settings)
  /\ End("refused")
ConfigRun ==
  /\ pc = "config_run" /\ Stopped(run)
  /\ before' = run /\ UNCHANGED found
  /\ Goto(IF Target(found) = found THEN "snapshot" ELSE "config_write")
ConfigActive == pc = "config_run" /\ ~Stopped(run) /\ End("refused")

\* Mutant of EncodeSettings: a setting the command does not name is cleared.
EncodeNamedOnly ==
  [enabled |-> Wanted(op.enabled, FALSE), hours |-> Wanted(op.hours, found.hours)]

EncodeSettings == Target(found)
WriteSettings ==
  /\ pc = "config_write"
  /\ settings' \in {EncodeSettings, settings}
  /\ pc' = "config_settings_after"
  /\ UNCHANGED <<run, supported, changes, threadVars, overtaken, outcome>>
  /\ Held
\* The settings and the run state are read again, in this order, and compared.
ConfigSettingsAfter ==
  /\ pc = "config_settings_after"
  /\ \/ settings = Target(found) /\ UNCHANGED <<before, found>> /\ Goto("config_run_after")
     \/ settings # Target(found) /\ End("protocol_error")
ConfigRunAfter ==
  /\ pc = "config_run_after"
  /\ \/ SameState /\ Stopped(run) /\ UNCHANGED <<before, found>> /\ Goto("snapshot")
     \/ ~(SameState /\ Stopped(run)) /\ End("protocol_error")

------------------------------------------------------------------------------
(* The gateway and the app                                                 *)

\* An interval comes to its end.
IntervalEnds ==
  /\ run.summer \in {"running", "expired"}
  /\ run' = [run EXCEPT !.summer = IF run.summer = "running" THEN "expired" ELSE "off"]
  /\ UNCHANGED <<settings, supported, changes, pc, threadVars, overtaken, outcome>>
  /\ Held

App ==
  /\ changes < MaxChanges /\ changes' = changes + 1
  /\ UNCHANGED <<pc, threadVars, outcome>>
\* No command is going on, or it has not read what it will write again.
BeforeReading == {"idle", "run", "config_units", "config_settings", "snapshot"}

AppSwitches ==
  /\ "switch" \in AppEvents /\ App
  /\ \E m \in Modes : \E s \in SituationsOfRun :
       <<m, s>> # <<run.mode, run.sit>> /\ run' = [run EXCEPT !.mode = m, !.sit = s]
  /\ overtaken' = (overtaken \/ (op.kind = "interval" /\ pc \notin BeforeReading))
  /\ UNCHANGED <<settings, supported>>
  /\ Held
AppToggles ==
  /\ "summer" \in AppEvents /\ App
  /\ run' = [run EXCEPT !.summer = IF run.summer = "running" THEN "off" ELSE "running"]
  /\ UNCHANGED <<settings, supported, overtaken>>
  /\ Held
AppConfigures ==
  /\ "settings" \in AppEvents /\ App /\ settings # NoSettings
  /\ \E s \in Settings : s # settings /\ settings' = s
  /\ overtaken' = (overtaken \/ (op.kind = "configure" /\ pc \notin BeforeReading))
  /\ UNCHANGED <<run, supported>>
  /\ Held
UnitsChange ==
  /\ "units" \in AppEvents /\ App
  /\ supported' = ~supported
  /\ UNCHANGED <<run, settings, overtaken>>
  /\ Held

Commands ==
  \/ \E on \in BOOLEAN : Toggle(on)
  \/ \E e \in BOOLEAN \cup {Keep} : \E h \in Durations \cup {Keep} : Configure(e, h)
Thread ==
  \/ ReadRun \/ ReadUnits \/ UnitsRefuse \/ ReadSettings
  \/ Refuse \/ NothingToDo \/ Decide \/ WriteRun
  \/ SwitchedMeanwhile \/ IntervalSettled \/ IntervalTimeout
  \/ ConfigUnits \/ ConfigSettings \/ ConfigUnavailable \/ ConfigRun \/ ConfigActive
  \/ WriteSettings \/ ConfigSettingsAfter \/ ConfigRunAfter
  \/ ReadBack \/ RequestFails
Others ==
  \/ SummerApplied \/ IntervalEnds
  \/ AppSwitches \/ AppToggles \/ AppConfigures \/ UnitsChange

Next == Commands \/ Thread \/ Others

Spec == Init /\ [][Next]_vars

------------------------------------------------------------------------------
(* Properties                                                              *)

\* A command ends with a snapshot or a ProtocolError (client.py:192-321), and run
\* state and settings stay in the ranges the gateway reports.
TypeOK ==
  /\ run \in RunStates /\ before \in RunStates
  /\ settings \in Settings \cup {NoSettings} /\ found \in Settings \cup {NoSettings}
  /\ supported \in BOOLEAN /\ held \in BOOLEAN /\ overtaken \in BOOLEAN
  /\ offered \in BOOLEAN
  /\ changes \in 0..MaxChanges /\ commands \in 0..MaxCommands
  /\ pc \in {"idle", "run", "units", "settings", "decide", "write", "wait",
             "config_units", "config_settings", "config_run", "config_write",
             "config_settings_after", "config_run_after", "snapshot"}
  /\ op \in [kind : {"none", "interval", "configure"}, on : BOOLEAN,
             enabled : BOOLEAN \cup {Keep}, hours : Durations \cup {Keep}, lit : BOOLEAN]
  /\ outcome \in {"none", "ok", "refused", "protocol_error"}

\* A command that ends without an error has seen its effect at the gateway while
\* it ran (coordinator.py:128, "Set and confirm the gateway-wide summer
\* ventilation interval", and :138).
Effective == outcome = "ok" => held

\* An interval that runs in the automatic or manual mode, at home or away, can be
\* stopped whatever the settings say (CHANGELOG.md:41, "Keep an already running
\* summer interval visible and stoppable when its global function setting is
\* disabled in the official app").
Stoppable ==
  outcome = "refused" /\ op.kind = "interval" /\ ~op.on /\ Preservable
    => ~supported \/ changes > 0 \/ before.summer = "unknown"

\* What an available entity asks for is not refused unless the app has changed
\* something: the conditions under which the switch can be turned and the hours be
\* entered (switch.py:104, number.py:67) agree with the ones the client applies to its
\* own reading.  The code has two exceptions.  The switch of the function is offered
\* with a duration that the client then finds missing or out of range (switch.py:166,
\* client.py:282-285); and the interval's switch, which stays available while it is on,
\* is refused when it is turned on once more although the function is disabled or the
\* interval has no end (switch.py:115, client.py:201-202, 218-219).
OfferedAccepted ==
  outcome = "refused" /\ offered
    => \/ changes > 0
       \/ op.kind = "configure" /\ op.hours = Keep /\ ~Complete(found)
       \/ op.kind = "interval" /\ op.on /\ op.lit /\ ~(Startable /\ StateKnown)

\* Starting or stopping an interval leaves the run mode and the situation as they
\* are at the gateway when it takes the write on, unless the app changes them after
\* they have been read (client.py:208-215, "current situation cannot be preserved
\* safely").
RunStateKept ==
  [][pc = "write" /\ pc' = "wait" /\ ~overtaken
       => run'.mode = run.mode /\ run'.sit = run.sit]_vars

\* Changing one setting leaves the other one as it is, unless the app changes it
\* after the settings have been read (client.py:264, "Change one global summer
\* setting while preserving the other").
OtherSettingKept ==
  [][pc = "config_write" /\ pc' = "config_settings_after" /\ ~overtaken
       => /\ op.enabled = Keep => settings'.enabled = settings.enabled
          /\ op.hours = Keep => settings'.hours = settings.hours]_vars

\* A change of the mode or the situation while an interval is started or stopped
\* keeps the command from being confirmed (client.py:245, "run mode or situation
\* changed during summer ventilation").
ChangeReported == [][pc = "wait" /\ pc' = "snapshot" => ~overtaken]_vars
=============================================================================
