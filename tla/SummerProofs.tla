----------------------------- MODULE SummerProofs -----------------------------
(***************************************************************************)
(* What the summer commands guarantee for any durations and any number of  *)
(* commands and of changes by the app: a command that ends without an      *)
(* error has seen its effect, what an available entity asks for is not     *)
(* refused, and a write keeps what the command does not name.              *)
(***************************************************************************)
EXTENDS Summer, TLAPS

Pcs == {"idle", "run", "units", "settings", "decide", "write", "wait",
        "config_units", "config_settings", "config_run", "config_write",
        "config_settings_after", "config_run_after", "snapshot"}
Ops == [kind : {"none", "interval", "configure"}, on : BOOLEAN,
        enabled : BOOLEAN \cup {Keep}, hours : Durations \cup {Keep}, lit : BOOLEAN]

\* The steps each command goes through.
OpInv ==
  /\ pc \in {"run", "units", "settings", "decide", "write", "wait"} => op.kind = "interval"
  /\ pc \in {"config_units", "config_settings", "config_run", "config_write",
             "config_settings_after", "config_run_after"} => op.kind = "configure"

\* What was read allows the write, and is outdated only by what the app has changed.
ReadInv ==
  /\ pc = "write" => Preservable
  /\ pc \in {"config_run", "config_write", "config_settings_after", "config_run_after"}
       => Complete(found)
  /\ pc \in {"units", "settings", "decide", "write"} /\ ~overtaken => SameState
  /\ pc \in {"config_run", "config_write"} /\ ~overtaken => settings = found

\* Where a command finds that nothing is left to do, its effect has been in place.
HeldInv ==
  /\ outcome = "ok" => held
  /\ pc # "idle" => outcome = "none"
  /\ pc \in {"snapshot", "config_run_after"} => held
  /\ pc \in {"units", "settings", "decide"} /\ AlreadyThere => held
  /\ pc = "config_run" /\ Target(found) = found => held

\* A run state in which the interval's switch is available.
Switchable(state) ==
  /\ state.mode \in Active /\ state.sit \in Home \cup {"away"}
  /\ state.summer # "unknown" /\ (op.on /\ ~op.lit => Stopped(state))

\* While the app changes nothing, the client finds what the entity has shown.
OfferInv ==
  changes = 0 /\ offered =>
    /\ pc \in {"run", "units", "settings", "decide"} =>
         /\ supported /\ Switchable(run)
         /\ op.on /\ ~op.lit => Complete(settings) /\ settings.enabled
    /\ pc \in {"units", "settings", "decide"} => Switchable(before)
    /\ pc = "decide" /\ op.on /\ ~op.lit => Complete(found) /\ found.enabled
    /\ pc \in {"config_units", "config_settings", "config_run"} => supported /\ Stopped(run)
    /\ pc \in {"config_units", "config_settings"} =>
         found = settings /\ (op.hours # Keep => Complete(settings))

Inv == /\ TypeOK /\ OpInv /\ ReadInv /\ HeldInv /\ OfferInv
       /\ Stoppable /\ OfferedAccepted

LEMMA InitInv == Init => Inv
<1>. SUFFICES ASSUME Init PROVE Inv
  OBVIOUS
<1>1. TypeOK
  <2>1. op \in Ops
    BY DEF Init, NoOp, Ops
  <2>2. /\ run \in RunStates /\ before \in RunStates
        /\ settings \in Settings \cup {NoSettings} /\ found \in Settings \cup {NoSettings}
        /\ changes \in 0..MaxChanges /\ commands \in 0..MaxCommands
        /\ pc = "idle" /\ outcome = "none"
    BY BoundsAssumption DEF Init
  <2>3. supported \in BOOLEAN /\ held \in BOOLEAN /\ overtaken \in BOOLEAN /\ offered \in BOOLEAN
    BY DEF Init
  <2>. QED
    BY <2>1, <2>2, <2>3 DEF TypeOK, Ops
<1>2. /\ OpInv /\ ReadInv /\ HeldInv /\ OfferInv
      /\ Stoppable /\ OfferedAccepted
  BY DEF Init, OpInv, ReadInv, HeldInv, OfferInv, Stoppable, OfferedAccepted
<1>. QED
  BY <1>1, <1>2 DEF Inv

\* A command is given.
LEMMA BeginInv ==
  ASSUME Inv, NEW kind \in {"interval", "configure"}, NEW on \in BOOLEAN,
         NEW enabled \in BOOLEAN \cup {Keep}, NEW hours \in Durations \cup {Keep},
         Begin(kind, on, enabled, hours)
  PROVE  Inv'
<1>1. /\ op' \in Ops /\ op'.kind = kind /\ op'.on = on /\ op'.enabled = enabled
      /\ op'.hours = hours /\ op'.lit = FlagSet(run)
  BY DEF Begin, Ops, FlagSet
<1>2. /\ pc' = IF kind = "interval" THEN "run" ELSE "config_units"
      /\ before' = run /\ found' = settings /\ outcome' = "none" /\ commands' \in 0..MaxCommands
      /\ UNCHANGED <<run, settings, supported, changes>>
  BY BoundsAssumption DEF Begin, gatewayVars, Inv, TypeOK
<1>3. held' \in BOOLEAN /\ overtaken' \in BOOLEAN /\ offered' \in BOOLEAN
  BY DEF Begin, InPlace, Offered, IntervalOffered, EnabledOffered, DurationOffered
<1>4. TypeOK'
  BY <1>1, <1>2, <1>3 DEF Inv, TypeOK, Ops
<1>5. OpInv' /\ ReadInv' /\ HeldInv' /\ Stoppable' /\ OfferedAccepted'
  BY <1>1, <1>2 DEF OpInv, ReadInv, HeldInv, Stoppable, OfferedAccepted
<1>6. OfferInv'
  <2>1. ASSUME offered', kind = "interval"
        PROVE  /\ supported /\ run.mode \in Active /\ run.sit \in Home \cup {"away"}
               /\ run.summer # "unknown"
               /\ on /\ ~FlagSet(run) => Stopped(run) /\ Complete(settings) /\ settings.enabled
    <3>0. Offered("interval", enabled, hours)
      BY <2>1 DEF Begin
    <3>1. IntervalOffered
      BY <3>0 DEF Offered
    <3>2. run.summer \in Summers
      BY DEF Inv, TypeOK, RunStates
    <3>. QED
      BY <3>1, <3>2 DEF IntervalOffered, FlagSet, Stopped, Summers
  <2>2. ASSUME offered', kind = "configure"
        PROVE  supported /\ Stopped(run) /\ (hours # Keep => Complete(settings))
    <3>1. Offered("configure", enabled, hours)
      BY <2>2 DEF Begin
    <3>2. (hours = Keep /\ EnabledOffered) \/ DurationOffered
      BY <3>1 DEF Offered
    <3>. QED
      BY <3>2 DEF EnabledOffered, DurationOffered
  <2>3. CASE kind = "interval"
    BY <1>1, <1>2, <2>1, <2>3 DEF OfferInv, Switchable, Stopped, Complete
  <2>4. CASE kind = "configure"
    BY <1>1, <1>2, <2>2, <2>4 DEF OfferInv, Stopped, Complete
  <2>. QED
    BY <2>3, <2>4
<1>. QED
  BY <1>4, <1>5, <1>6 DEF Inv

\* A command ends.
LEMMA EndInv ==
  ASSUME Inv, NEW how \in {"ok", "refused", "protocol_error"}, End(how),
         how = "ok" => held,
         how = "refused" =>
           /\ op.kind = "interval" /\ ~op.on /\ Preservable
                => ~supported \/ before.summer = "unknown"
           /\ offered => \/ changes > 0
                         \/ op.kind = "configure" /\ op.hours = Keep /\ ~Complete(found)
                         \/ /\ op.kind = "interval" /\ op.on /\ op.lit
                            /\ ~(Startable /\ StateKnown)
  PROVE  Inv'
<1>1. /\ pc' = "idle" /\ outcome' = how
      /\ UNCHANGED <<run, settings, supported, changes, op, before, found, commands, offered,
                     held, overtaken>>
  BY DEF End, gatewayVars, threadVars
<1>2. TypeOK'
  BY <1>1 DEF Inv, TypeOK
<1>3. OpInv' /\ ReadInv' /\ HeldInv' /\ OfferInv'
  BY <1>1 DEF OpInv, ReadInv, HeldInv, OfferInv
<1>4. Stoppable'
  BY <1>1 DEF Stoppable, Preservable
<1>5. OfferedAccepted'
  BY <1>1 DEF OfferedAccepted, Complete, Startable, StateKnown
<1>. QED
  BY <1>2, <1>3, <1>4, <1>5 DEF Inv

\* A request is answered and the command goes on.
LEMMA GotoStep ==
  ASSUME Inv, NEW next \in Pcs \ {"idle"}, Goto(next),
         before' \in RunStates, found' \in Settings \cup {NoSettings}
  PROVE  /\ pc' = next
         /\ UNCHANGED <<run, settings, supported, changes, op, commands, offered, overtaken,
                        outcome>>
         /\ held => held'
         /\ InPlace => held'
         /\ TypeOK'
<1>1. /\ pc' = next
      /\ UNCHANGED <<run, settings, supported, changes, op, commands, offered, overtaken,
                     outcome>>
  BY DEF Goto, gatewayVars
<1>2. held' \in BOOLEAN /\ (held => held') /\ (InPlace => held')
  BY <1>1 DEF Goto, Held, InPlace, Target, Wanted, Inv, TypeOK
<1>3. TypeOK'
  BY <1>1, <1>2 DEF Inv, TypeOK, Pcs
<1>. QED
  BY <1>1, <1>2, <1>3

\* The steps of both commands that read and decide.
LEMMA IntervalReadsInv ==
  ASSUME Inv, ReadRun \/ ReadUnits \/ ReadSettings
  PROVE  Inv'
<1>1. CASE ReadRun
  <2>1. before' = run /\ found' = found /\ pc = "run"
    BY <1>1 DEF ReadRun
  <2>2. /\ pc' = "units" /\ (InPlace => held') /\ TypeOK'
        /\ UNCHANGED <<run, settings, supported, changes, op, commands, offered, overtaken,
                       outcome>>
    BY <1>1, <2>1, GotoStep DEF ReadRun, Pcs, Inv, TypeOK
  <2>3. OpInv' /\ ReadInv' /\ Stoppable' /\ OfferedAccepted'
    BY <2>1, <2>2 DEF Inv, OpInv, ReadInv, SameState, HeldInv, Stoppable, OfferedAccepted
  <2>4. HeldInv'
    BY <2>1, <2>2 DEF Inv, OpInv, HeldInv, AlreadyThere, InPlace
  <2>5. OfferInv'
    BY <2>1, <2>2 DEF Inv, OfferInv, Switchable, Stopped, Complete
  <2>. QED
    BY <2>2, <2>3, <2>4, <2>5 DEF Inv
<1>2. CASE ReadUnits
  <2>1. before' = before /\ found' = found /\ pc = "units"
    BY <1>2 DEF ReadUnits
  <2>2. /\ pc' = "settings" /\ (held => held') /\ TypeOK'
        /\ UNCHANGED <<run, settings, supported, changes, op, commands, offered, overtaken,
                       outcome>>
    BY <1>2, <2>1, GotoStep DEF ReadUnits, Pcs, Inv, TypeOK
  <2>3. OpInv' /\ ReadInv' /\ Stoppable' /\ OfferedAccepted'
    BY <2>1, <2>2 DEF Inv, OpInv, ReadInv, SameState, HeldInv, Stoppable, OfferedAccepted
  <2>4. HeldInv'
    BY <2>1, <2>2 DEF Inv, HeldInv, AlreadyThere
  <2>5. OfferInv'
    BY <2>1, <2>2 DEF Inv, OfferInv, Switchable, Stopped, Complete
  <2>. QED
    BY <2>2, <2>3, <2>4, <2>5 DEF Inv
<1>3. CASE ReadSettings
  <2>1. before' = before /\ found' = settings /\ pc = "settings"
    BY <1>3 DEF ReadSettings
  <2>2. /\ pc' = "decide" /\ (held => held') /\ TypeOK'
        /\ UNCHANGED <<run, settings, supported, changes, op, commands, offered, overtaken,
                       outcome>>
    BY <1>3, <2>1, GotoStep DEF ReadSettings, Pcs, Inv, TypeOK
  <2>3. OpInv' /\ ReadInv' /\ Stoppable' /\ OfferedAccepted'
    BY <2>1, <2>2 DEF Inv, OpInv, ReadInv, SameState, HeldInv, Stoppable, OfferedAccepted
  <2>4. HeldInv'
    BY <2>1, <2>2 DEF Inv, HeldInv, AlreadyThere
  <2>5. OfferInv'
    BY <2>1, <2>2 DEF Inv, OfferInv, Switchable, Stopped, Complete
  <2>. QED
    BY <2>2, <2>3, <2>4, <2>5 DEF Inv
<1>. QED
  BY <1>1, <1>2, <1>3

LEMMA IntervalDecidesInv ==
  ASSUME Inv, NothingToDo \/ Decide \/ IntervalSettled
  PROVE  Inv'
<1>1. UNCHANGED <<before, found>> /\ op.kind = "interval" /\ pc \in {"decide", "wait"}
  BY DEF NothingToDo, Decide, IntervalSettled, Inv, OpInv
<1>2. /\ pc' \in {"snapshot", "write"} /\ (held => held') /\ (InPlace => held') /\ TypeOK'
      /\ UNCHANGED <<run, settings, supported, changes, op, commands, offered, overtaken,
                     outcome>>
  BY <1>1, GotoStep DEF NothingToDo, Decide, IntervalSettled, Pcs, Inv, TypeOK
<1>3. pc' = "write" => pc = "decide" /\ Preservable
  BY DEF NothingToDo, Decide, IntervalSettled, Goto, Allowed
<1>4. pc' = "snapshot" => held'
  <2>1. CASE NothingToDo
    BY <1>2, <2>1 DEF NothingToDo, Inv, HeldInv
  <2>2. CASE IntervalSettled
    BY <1>1, <1>2, <2>2 DEF IntervalSettled, Confirmed, InPlace
  <2>3. CASE Decide
    BY <2>3 DEF Decide, Goto
  <2>. QED
    BY <2>1, <2>2, <2>3
<1>5. OpInv' /\ HeldInv' /\ OfferInv' /\ Stoppable' /\ OfferedAccepted'
  BY <1>1, <1>2, <1>4 DEF Inv, OpInv, HeldInv, OfferInv, Stoppable, OfferedAccepted
<1>6. ReadInv'
  BY <1>1, <1>2, <1>3 DEF Inv, ReadInv, Preservable, SameState
<1>. QED
  BY <1>2, <1>5, <1>6 DEF Inv

\* What a complete setting turns into.
LEMMA TargetOfTarget ==
  ASSUME Inv, NEW from \in Settings
  PROVE  Target(from) \in [enabled : BOOLEAN, hours : Durations \cup {NoDuration}]
         /\ Target(Target(from)) = Target(from)
<1>1. op \in Ops
  BY DEF Inv, TypeOK, Ops
<1>2. from.enabled \in BOOLEAN /\ from.hours \in Durations \cup {NoDuration}
  BY DEF Settings
<1>3. /\ Wanted(op.enabled, from.enabled) \in BOOLEAN
      /\ Wanted(op.hours, from.hours) \in Durations \cup {NoDuration}
  BY <1>1, <1>2 DEF Wanted, Ops
<1>4. /\ Wanted(op.enabled, Wanted(op.enabled, from.enabled)) = Wanted(op.enabled, from.enabled)
      /\ Wanted(op.hours, Wanted(op.hours, from.hours)) = Wanted(op.hours, from.hours)
  BY DEF Wanted
<1>. QED
  BY <1>3, <1>4 DEF Target

LEMMA SettingsInPlace ==
  ASSUME Inv, op.kind = "configure", found \in Settings, settings = Target(found)
  PROVE  InPlace
BY TargetOfTarget, DurationsAssumption DEF InPlace, Settings

LEMMA ConfigReadsInv ==
  ASSUME Inv, ConfigUnits \/ ConfigSettings \/ ConfigRun
  PROVE  Inv'
<1>1. CASE ConfigUnits
  <2>1. before' = before /\ found' = found /\ pc = "config_units"
    BY <1>1 DEF ConfigUnits
  <2>2. /\ pc' = "config_settings" /\ TypeOK'
        /\ UNCHANGED <<run, settings, supported, changes, op, commands, offered, overtaken,
                       outcome>>
    BY <1>1, <2>1, GotoStep DEF ConfigUnits, Pcs, Inv, TypeOK
  <2>. QED
    BY <2>1, <2>2 DEF Inv, OpInv, ReadInv, HeldInv, OfferInv, Switchable, Stopped, Complete,
         Stoppable, OfferedAccepted
<1>2. CASE ConfigSettings
  <2>1. before' = before /\ found' = settings /\ pc = "config_settings" /\ Complete(settings)
    BY <1>2 DEF ConfigSettings
  <2>2. /\ pc' = "config_run" /\ (InPlace => held') /\ TypeOK'
        /\ UNCHANGED <<run, settings, supported, changes, op, commands, offered, overtaken,
                       outcome>>
    BY <1>2, <2>1, GotoStep DEF ConfigSettings, Pcs, Inv, TypeOK
  <2>3. HeldInv'
    BY <2>1, <2>2 DEF Inv, OpInv, HeldInv, InPlace, Complete, Target
  <2>4. OpInv' /\ ReadInv' /\ OfferInv' /\ Stoppable' /\ OfferedAccepted'
    BY <2>1, <2>2 DEF Inv, OpInv, ReadInv, HeldInv, OfferInv, Stopped, Complete,
         Stoppable, OfferedAccepted
  <2>. QED
    BY <2>2, <2>3, <2>4 DEF Inv
<1>3. CASE ConfigRun
  <2>1. /\ before' = run /\ found' = found /\ pc = "config_run"
        /\ Goto(IF Target(found) = found THEN "snapshot" ELSE "config_write")
    BY <1>3 DEF ConfigRun
  <2>2. /\ pc' = (IF Target(found) = found THEN "snapshot" ELSE "config_write")
        /\ (held => held') /\ TypeOK'
        /\ UNCHANGED <<run, settings, supported, changes, op, commands, offered, overtaken,
                       outcome>>
    BY <2>1, GotoStep DEF Pcs, Inv, TypeOK
  <2>3. HeldInv'
    BY <2>1, <2>2 DEF Inv, HeldInv
  <2>4. OpInv' /\ ReadInv' /\ OfferInv' /\ Stoppable' /\ OfferedAccepted'
    BY <2>1, <2>2 DEF Inv, OpInv, ReadInv, HeldInv, OfferInv, Stopped, Complete,
         Stoppable, OfferedAccepted
  <2>. QED
    BY <2>2, <2>3, <2>4 DEF Inv
<1>. QED
  BY <1>1, <1>2, <1>3

LEMMA ConfigAfterInv ==
  ASSUME Inv,
         \/ /\ pc = "config_settings_after" /\ settings = Target(found)
            /\ UNCHANGED <<before, found>> /\ Goto("config_run_after")
         \/ pc = "config_run_after" /\ UNCHANGED <<before, found>> /\ Goto("snapshot")
  PROVE  Inv'
<1>1. UNCHANGED <<before, found>> /\ op.kind = "configure"
  BY DEF Inv, OpInv
<1>2. /\ pc' \in {"config_run_after", "snapshot"} /\ (held => held') /\ (InPlace => held')
      /\ TypeOK'
      /\ UNCHANGED <<run, settings, supported, changes, op, commands, offered, overtaken,
                     outcome>>
  BY <1>1, GotoStep DEF Pcs, Inv, TypeOK
<1>3. held'
  <2>1. CASE pc = "config_settings_after" /\ settings = Target(found)
    <3>1. found \in Settings
      BY <2>1 DEF Inv, TypeOK, ReadInv, Complete
    <3>. QED
      BY <1>1, <1>2, <2>1, <3>1, SettingsInPlace
  <2>2. CASE pc = "config_run_after"
    BY <1>2, <2>2 DEF Inv, HeldInv
  <2>. QED
    BY <2>1, <2>2
<1>4. pc' = "config_run_after" => Complete(found)
  BY DEF Goto, Inv, ReadInv
<1>. QED
  BY <1>1, <1>2, <1>3, <1>4 DEF Inv, OpInv, ReadInv, HeldInv, OfferInv, Complete,
       Stoppable, OfferedAccepted

\* The run state that is written keeps the mode and the situation that were read.
LEMMA RewrittenState ==
  ASSUME Inv, pc = "write"
  PROVE  /\ Rewritten \in RunStates
         /\ SameState => Rewritten.mode = run.mode /\ Rewritten.sit = run.sit
<1>1. before.mode \in Active /\ before.sit \in Home \cup {"away"}
  BY DEF Inv, ReadInv, Preservable
<1>2. run \in RunStates
  BY DEF Inv, TypeOK
<1>3. /\ Situated(UserLocation) \in SituationsOfRun
      /\ run.sit = before.sit => Situated(UserLocation) = run.sit
  BY <1>1, <1>2 DEF Situated, UserLocation, Home, SituationsOfRun, RunStates
<1>. QED
  BY <1>1, <1>2, <1>3 DEF Rewritten, RunStates, Modes, SameState

LEMMA WriteRunStep ==
  ASSUME Inv, WriteRun
  PROVE  /\ run' \in RunStates
         /\ SameState => run'.mode = run.mode /\ run'.sit = run.sit
<1>1. PICK summer \in {run.summer, IF op.on THEN "running" ELSE "off"} :
        run' = [Rewritten EXCEPT !.summer = summer]
  BY DEF WriteRun
<1>2. summer \in Summers
  BY DEF Inv, TypeOK, RunStates, Summers
<1>. QED
  BY <1>1, <1>2, RewrittenState DEF WriteRun, RunStates

\* The requests that write.
LEMMA WriteInv ==
  ASSUME Inv, WriteRun \/ WriteSettings
  PROVE  Inv'
<1>1. CASE WriteRun
  <2>1. /\ pc = "write" /\ pc' = "wait"
        /\ UNCHANGED <<settings, supported, changes, op, before, found, commands, offered,
                       overtaken, outcome>>
    BY <1>1 DEF WriteRun, threadVars
  <2>2. held' \in BOOLEAN
    BY <1>1 DEF WriteRun, Held, InPlace, Inv, TypeOK
  <2>3. TypeOK'
    BY <1>1, <2>1, <2>2, WriteRunStep DEF Inv, TypeOK
  <2>. QED
    BY <2>1, <2>3 DEF Inv, OpInv, ReadInv, HeldInv, OfferInv, Stoppable, OfferedAccepted
<1>2. CASE WriteSettings
  <2>1. /\ pc = "config_write" /\ pc' = "config_settings_after"
        /\ UNCHANGED <<run, supported, changes, op, before, found, commands, offered,
                       overtaken, outcome>>
    BY <1>2 DEF WriteSettings, threadVars
  <2>2. held' \in BOOLEAN
    BY <1>2 DEF WriteSettings, Held, InPlace, Inv, TypeOK
  <2>3. settings' \in Settings \cup {NoSettings}
    <3>1. found \in Settings
      BY <2>1 DEF Inv, TypeOK, ReadInv, Complete
    <3>. QED
      BY <1>2, <3>1, TargetOfTarget DEF WriteSettings, EncodeSettings, Inv, TypeOK, Settings
  <2>4. TypeOK'
    BY <2>1, <2>2, <2>3 DEF Inv, TypeOK
  <2>. QED
    BY <2>1, <2>4 DEF Inv, OpInv, ReadInv, HeldInv, OfferInv, Complete, Stoppable,
         OfferedAccepted
<1>. QED
  BY <1>1, <1>2

\* The interval is taken up, or comes to its end.
LEMMA GatewayInv ==
  ASSUME Inv, SummerApplied \/ IntervalEnds
  PROVE  Inv'
<1>1. UNCHANGED <<settings, supported, changes, pc, op, before, found, commands, offered,
                  overtaken, outcome>>
  BY DEF SummerApplied, IntervalEnds, threadVars
<1>2. held' \in BOOLEAN /\ (held => held')
  BY DEF SummerApplied, IntervalEnds, Held, InPlace, Inv, TypeOK
<1>3. run' \in RunStates /\ run'.mode = run.mode /\ run'.sit = run.sit
  BY DEF SummerApplied, IntervalEnds, Inv, TypeOK, RunStates, Summers
<1>4. TypeOK'
  BY <1>1, <1>2, <1>3 DEF Inv, TypeOK
<1>5. OpInv' /\ ReadInv'
  BY <1>1, <1>3 DEF Inv, OpInv, ReadInv, SameState, Preservable, Complete
<1>6. HeldInv' /\ Stoppable' /\ OfferedAccepted'
  <2>1. HeldInv'
    BY <1>1, <1>2 DEF Inv, HeldInv, AlreadyThere, Target, Wanted
  <2>2. Stoppable' /\ OfferedAccepted'
    BY <1>1 DEF Inv, Stoppable, Preservable, OfferedAccepted, Complete,
          Startable, StateKnown
  <2>. QED
    BY <2>1, <2>2
<1>7. OfferInv'
  <2>1. CASE pc = "wait"
    BY <1>1, <2>1 DEF OfferInv
  <2>2. CASE IntervalEnds
    <3>1. run.summer \in {"running", "expired"} /\ run'.summer # "unknown"
      BY <2>2 DEF IntervalEnds, Inv, TypeOK, RunStates
    <3>. QED
      BY <1>1, <1>3, <3>1 DEF Inv, OfferInv, Switchable, Stopped, Complete
  <2>. QED
    BY <2>1, <2>2 DEF SummerApplied
<1>. QED
  BY <1>4, <1>5, <1>6, <1>7 DEF Inv

\* The app changes something.
LEMMA AppInv ==
  ASSUME Inv, AppSwitches \/ AppToggles \/ AppConfigures \/ UnitsChange
  PROVE  Inv'
<1>1. /\ changes' \in 0..MaxChanges /\ changes' > 0
      /\ UNCHANGED <<pc, op, before, found, commands, offered, outcome>>
  <2>1. App
    BY DEF AppSwitches, AppToggles, AppConfigures, UnitsChange
  <2>2. changes \in 0..MaxChanges
    BY DEF Inv, TypeOK
  <2>. QED
    BY <2>1, <2>2, BoundsAssumption DEF App, threadVars
<1>2. held' \in BOOLEAN /\ (held => held')
  BY DEF AppSwitches, AppToggles, AppConfigures, UnitsChange, Held, InPlace, Inv, TypeOK
<1>3. overtaken' \in BOOLEAN /\ supported' \in BOOLEAN
  BY DEF AppSwitches, AppToggles, AppConfigures, UnitsChange, Inv, TypeOK
<1>4. run' \in RunStates /\ settings' \in Settings \cup {NoSettings}
  <2>1. CASE AppSwitches
    BY <2>1 DEF AppSwitches, Inv, TypeOK, RunStates
  <2>2. CASE AppToggles
    BY <2>2 DEF AppToggles, Inv, TypeOK, RunStates, Summers
  <2>3. CASE AppConfigures \/ UnitsChange
    BY <2>3 DEF AppConfigures, UnitsChange, Inv, TypeOK
  <2>. QED
    BY <2>1, <2>2, <2>3
<1>5. TypeOK'
  BY <1>1, <1>2, <1>3, <1>4 DEF Inv, TypeOK
<1>6. ReadInv'
  <2>1. CASE AppSwitches
    <3>1. /\ pc \in {"units", "settings", "decide", "write"} => overtaken'
          /\ settings' = settings /\ (~overtaken' => ~overtaken)
      BY <2>1 DEF AppSwitches, BeforeReading, Inv, OpInv
    <3>. QED
      BY <1>1, <3>1 DEF Inv, ReadInv, Preservable, Complete
  <2>2. CASE AppToggles
    <3>1. run'.mode = run.mode /\ run'.sit = run.sit /\ UNCHANGED <<settings, overtaken>>
      BY <2>2 DEF AppToggles, Inv, TypeOK, RunStates
    <3>. QED
      BY <1>1, <3>1 DEF Inv, ReadInv, SameState, Preservable, Complete
  <2>3. CASE AppConfigures
    <3>1. /\ pc \in {"config_run", "config_write"} => overtaken'
          /\ run' = run /\ (~overtaken' => ~overtaken)
      BY <2>3 DEF AppConfigures, BeforeReading, Inv, OpInv
    <3>. QED
      BY <1>1, <3>1 DEF Inv, ReadInv, SameState, Preservable, Complete
  <2>4. CASE UnitsChange
    BY <1>1, <2>4 DEF UnitsChange, Inv, ReadInv, SameState, Preservable, Complete
  <2>. QED
    BY <2>1, <2>2, <2>3, <2>4
<1>7. OpInv' /\ HeldInv' /\ OfferInv'
  BY <1>1, <1>2 DEF Inv, OpInv, HeldInv, OfferInv, AlreadyThere, Target, Wanted
<1>8. Stoppable' /\ OfferedAccepted'
  BY <1>1 DEF Stoppable, OfferedAccepted
<1>. QED
  BY <1>5, <1>6, <1>7, <1>8 DEF Inv

\* A command is refused only for a reason.
LEMMA RefuseInv ==
  ASSUME Inv, UnitsRefuse \/ Refuse \/ ConfigUnavailable \/ ConfigActive
  PROVE  Inv'
<1>1. CASE UnitsRefuse
  <2>1. ~supported /\ End("refused") /\ pc \in {"units", "config_units"}
    BY <1>1 DEF UnitsRefuse
  <2>2. offered => changes > 0
    BY <2>1, BoundsAssumption DEF Inv, TypeOK, OfferInv
  <2>. QED
    BY <2>1, <2>2, EndInv
<1>2. CASE Refuse
  <2>1. pc = "decide" /\ ~Allowed /\ End("refused") /\ op.kind = "interval"
    BY <1>2 DEF Refuse, Inv, OpInv
  <2>2. ~op.on /\ Preservable => before.summer = "unknown"
    BY <2>1 DEF Allowed, Startable, StateKnown
  <2>3. offered => changes > 0 \/ (op.on /\ op.lit /\ ~(Startable /\ StateKnown))
    BY <2>1, BoundsAssumption
       DEF Inv, TypeOK, OfferInv, Allowed, Startable, Preservable, StateKnown, Switchable, Stopped
  <2>. QED
    BY <2>1, <2>2, <2>3, EndInv
<1>3. CASE ConfigUnavailable
  <2>1. /\ pc = "config_settings" /\ ~Complete(settings) /\ End("refused")
        /\ op.kind = "configure"
    BY <1>3 DEF ConfigUnavailable, Inv, OpInv
  <2>2. offered => changes > 0 \/ (op.hours = Keep /\ ~Complete(found))
    BY <2>1, BoundsAssumption DEF Inv, TypeOK, OfferInv
  <2>. QED
    BY <2>1, <2>2, EndInv
<1>4. CASE ConfigActive
  <2>1. pc = "config_run" /\ ~Stopped(run) /\ End("refused") /\ op.kind = "configure"
    BY <1>4 DEF ConfigActive, Inv, OpInv
  <2>2. offered => changes > 0
    BY <2>1, BoundsAssumption DEF Inv, TypeOK, OfferInv
  <2>. QED
    BY <2>1, <2>2, EndInv
<1>. QED
  BY <1>1, <1>2, <1>3, <1>4

\* Every step keeps the invariant.
LEMMA NextInv ==
  ASSUME Inv, [Next]_vars
  PROVE  Inv'
<1>1. ASSUME NEW on \in BOOLEAN, Toggle(on) PROVE Inv'
  BY <1>1, BeginInv DEF Toggle
<1>2. ASSUME NEW e \in BOOLEAN \cup {Keep}, NEW h \in Durations \cup {Keep}, Configure(e, h)
      PROVE  Inv'
  BY <1>2, BeginInv DEF Configure
<1>3. CASE RequestFails \/ SwitchedMeanwhile \/ IntervalTimeout
  BY <1>3, EndInv DEF RequestFails, SwitchedMeanwhile, IntervalTimeout, TimeoutOutcome
<1>4. CASE ReadBack
  BY <1>4, EndInv DEF ReadBack, Inv, HeldInv
<1>5. CASE ConfigSettingsAfter \/ ConfigRunAfter
  BY <1>5, EndInv, ConfigAfterInv DEF ConfigSettingsAfter, ConfigRunAfter
<1>6. CASE UNCHANGED vars
  BY <1>6 DEF vars, gatewayVars, threadVars, Inv, TypeOK, OpInv, ReadInv, HeldInv, OfferInv,
       Stoppable, OfferedAccepted, Switchable, Stopped, Complete, SameState, Preservable,
       AlreadyThere, Target, Wanted, Startable, StateKnown
<1>. QED
  BY <1>1, <1>2, <1>3, <1>4, <1>5, <1>6, IntervalReadsInv, IntervalDecidesInv, ConfigReadsInv,
     WriteInv, GatewayInv, AppInv, RefuseInv DEF Next, Commands, Thread, Others

LEMMA Invariant == Spec => []Inv
<1>1. Inv /\ [Next]_vars => Inv'
  BY NextInv
<1>. QED
  BY InitInv, <1>1, PTL DEF Spec

\* Type correctness, for any durations.
THEOREM TypeCorrect == Spec => []TypeOK
<1>1. Inv => TypeOK
  BY DEF Inv
<1>. QED
  BY <1>1, Invariant, PTL

\* A command that ends without an error has seen its effect while it ran.
THEOREM EffectiveHolds == Spec => []Effective
<1>1. Inv => Effective
  BY DEF Inv, HeldInv, Effective
<1>. QED
  BY <1>1, Invariant, PTL

\* An interval can be stopped whatever the settings say.
THEOREM StoppableHolds == Spec => []Stoppable
<1>1. Inv => Stoppable
  BY DEF Inv
<1>. QED
  BY <1>1, Invariant, PTL

\* What an available entity asks for is not refused unless the app changes something.
THEOREM OfferedAcceptedHolds == Spec => []OfferedAccepted
<1>1. Inv => OfferedAccepted
  BY DEF Inv
<1>. QED
  BY <1>1, Invariant, PTL

\* Starting or stopping an interval keeps the run mode and the situation.
THEOREM RunStateKeptHolds == Spec => RunStateKept
<1>1. ASSUME Inv, Next, pc = "write", pc' = "wait", ~overtaken
      PROVE  run'.mode = run.mode /\ run'.sit = run.sit
  <2>1. SameState
    BY <1>1 DEF Inv, ReadInv
  <2>2. WriteRun
    BY <1>1 DEF Next, Commands, Toggle, Configure, Begin, Thread, Others, ReadRun, ReadUnits,
         UnitsRefuse, ReadSettings, Refuse, NothingToDo, Decide, SwitchedMeanwhile,
         IntervalSettled, IntervalTimeout, ConfigUnits, ConfigSettings, ConfigUnavailable,
         ConfigRun, ConfigActive, WriteSettings, ConfigSettingsAfter, ConfigRunAfter, ReadBack,
         RequestFails, End, SummerApplied, IntervalEnds, AppSwitches, AppToggles,
         AppConfigures, UnitsChange, App
  <2>. QED
    BY <1>1, <2>1, <2>2, WriteRunStep
<1>2. Inv /\ [Next]_vars
      => [pc = "write" /\ pc' = "wait" /\ ~overtaken
            => run'.mode = run.mode /\ run'.sit = run.sit]_vars
  BY <1>1
<1>. QED
  BY <1>2, Invariant, PTL DEF Spec, RunStateKept

\* Changing one setting keeps the other one.
THEOREM OtherSettingKeptHolds == Spec => OtherSettingKept
<1>1. ASSUME Inv, Next, pc = "config_write", pc' = "config_settings_after", ~overtaken
      PROVE  /\ op.enabled = Keep => settings'.enabled = settings.enabled
             /\ op.hours = Keep => settings'.hours = settings.hours
  <2>1. settings = found
    BY <1>1 DEF Inv, ReadInv
  <2>2. settings' \in {Target(found), settings}
    BY <1>1 DEF Next, Commands, Toggle, Configure, Begin, Thread, Others, ReadRun, ReadUnits,
         UnitsRefuse, ReadSettings, Refuse, NothingToDo, Decide, WriteRun, SwitchedMeanwhile,
         IntervalSettled, IntervalTimeout, ConfigUnits, ConfigSettings, ConfigUnavailable,
         ConfigRun, ConfigActive, WriteSettings, EncodeSettings, ConfigSettingsAfter,
         ConfigRunAfter, ReadBack, RequestFails, End, SummerApplied, IntervalEnds, AppSwitches,
         AppToggles, AppConfigures, UnitsChange, App
  <2>. QED
    BY <2>1, <2>2 DEF Target, Wanted
<1>2. Inv /\ [Next]_vars
      => [pc = "config_write" /\ pc' = "config_settings_after" /\ ~overtaken
            => /\ op.enabled = Keep => settings'.enabled = settings.enabled
               /\ op.hours = Keep => settings'.hours = settings.hours]_vars
  BY <1>1
<1>. QED
  BY <1>2, Invariant, PTL DEF Spec, OtherSettingKept
=============================================================================
