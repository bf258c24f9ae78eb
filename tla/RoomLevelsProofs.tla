--------------------------- MODULE RoomLevelsProofs ---------------------------
(***************************************************************************)
(* What the room commands guarantee for any situations, levels and units,  *)
(* and for any number of commands and of changes by others: a command that *)
(* ends without an error has had its effect, levels that were verified and *)
(* the other units' alarms stay as they are.                               *)
(***************************************************************************)
EXTENDS RoomLevels, TLAPS

\* The command's arguments, and the steps each command goes through.
OpInv ==
  /\ op.kind = "level" => op.level \in Levels
  /\ op.kind = "situation" => op.sit \in Situations
  /\ op.kind = "reset" => op.unit \in Units
  /\ pc \in {"run_state", "wait_level", "wait_configured"} => op.kind = "level"
  /\ pc = "rooms" => op.kind \in {"level", "reset"}
  /\ pc = "wait_situation" => op.kind = "situation"
  /\ pc \in {"write_runtime", "wait_runtime"} => op.kind = "reset"
  /\ op.kind = "level" /\ pc \notin {"idle", "run_state"} => sit \in Situations

\* The client does not verify the level of the active situation.
Unchecked == op.kind = "level" /\ isActive

\* A command waits for its effect; where it shows, it has been in place.
HeldInv ==
  /\ outcome = "ok" => pc = "idle" /\ (held \/ Unchecked)
  /\ pc = "snapshot" => held \/ Unchecked
  /\ pc = "wait_level" => isActive
  /\ pc \in Waiting /\ InPlace => held

\* Levels that leave every verified level as it is.
Agrees(levels) == \A s \in Situations : mine[s] # NoLevel => levels[s] = mine[s]

\* So do the configured ones, those that are due, and those that will be written again.
KeptInv ==
  /\ Agrees(values)
  /\ \A v \in dueValues : Agrees(v)
  /\ pc = "write" /\ op.kind \in {"level", "reset"} => Agrees(seen.values)
  /\ pc = "wait_configured" => \A v \in dueValues : v[sit] = op.level

Inv == TypeOK /\ OpInv /\ HeldInv /\ KeptInv

LEMMA InitInv == Init => Inv
<1>. SUFFICES ASSUME Init PROVE Inv
  OBVIOUS
<1>1. values \in Values /\ target \in Levels \cup {NoLevel}
  BY DEF Init, Values
<1>2. seen \in [values : Values, alarms : SUBSET Units]
  BY <1>1 DEF Init, Room
<1>3. op \in [kind : {"none", "level", "situation", "reset"}, level : Levels \cup {NoLevel},
              sit : Situations \cup {Active}, unit : Units \cup {NoUnit}]
  BY DEF Init, NoOp
<1>4. mine \in Values
  BY DEF Init, Values
<1>5. TypeOK
  <2>1. /\ changes \in 0..MaxChanges /\ commands \in 0..MaxCommands
        /\ alarms \subseteq Units /\ fresh \subseteq Units
        /\ dueValues = {} /\ dueSituation = {} /\ dueRuntime = {}
        /\ sit \in Situations \cup {Active} /\ pc = "idle" /\ outcome = "none"
        /\ present = TRUE /\ panel = FALSE /\ isActive = FALSE /\ held = FALSE
        /\ mode \in {Automatic, Manual} /\ situation \in Situations
    BY BoundsAssumption DEF Init
  <2>. QED
    BY <1>1, <1>2, <1>3, <1>4, <2>1 DEF TypeOK
<1>6. OpInv
  BY DEF Init, OpInv, NoOp
<1>7. HeldInv /\ KeptInv
  BY DEF Init, HeldInv, KeptInv, Agrees, Waiting
<1>. QED
  BY <1>5, <1>6, <1>7 DEF Inv

\* A command is given.
LEMMA BeginInv ==
  ASSUME Inv, NEW kind \in {"level", "situation", "reset"}, NEW level, NEW which, NEW u,
         Begin(kind, level, which, u),
         \/ kind = "level" /\ level \in Levels /\ which \in Situations \cup {Active}
              /\ u = NoUnit /\ pc' = "run_state"
         \/ kind = "situation" /\ level = NoLevel /\ which \in Situations
              /\ u = NoUnit /\ pc' = "write"
         \/ kind = "reset" /\ level = NoLevel /\ which = Active
              /\ u \in Units /\ pc' = "rooms"
  PROVE  Inv'
<1>1. TypeOK'
  <2>1. op' \in [kind : {"none", "level", "situation", "reset"}, level : Levels \cup {NoLevel},
                 sit : Situations \cup {Active}, unit : Units \cup {NoUnit}]
    BY DEF Begin
  <2>2. seen' \in [values : Values, alarms : SUBSET Units]
    BY DEF Begin, Room, Inv, TypeOK
  <2>3. /\ commands' \in 0..MaxCommands
        /\ pc' \in {"run_state", "rooms", "write"}
        /\ sit' = Active /\ isActive' = FALSE /\ held' = FALSE /\ outcome' = "none"
        /\ UNCHANGED <<gatewayVars, othersVars>>
    BY BoundsAssumption DEF Begin, Inv, TypeOK
  <2>. QED
    BY <2>1, <2>2, <2>3
       DEF Inv, TypeOK, gatewayVars, roomVars, filterVars, dueVars, othersVars
<1>2. OpInv'
  BY DEF Begin, OpInv
<1>3. HeldInv'
  BY DEF Begin, HeldInv, Waiting
<1>4. KeptInv'
  BY DEF Begin, Inv, KeptInv, Agrees, gatewayVars, roomVars, dueVars, othersVars
<1>. QED
  BY <1>1, <1>2, <1>3, <1>4 DEF Inv

\* A command ends, or goes on to its snapshot, without any change of the gateway.
LEMMA QuietInv ==
  ASSUME Inv, UNCHANGED <<gatewayVars, othersVars, opVars, held>>,
         \/ /\ pc' = "idle"
            /\ \/ outcome' \in {"protocol_error", "value_error"}
               \/ outcome' = "ok" /\ (held \/ Unchecked)
         \/ /\ pc' = "snapshot" /\ outcome' = outcome /\ pc # "idle"
            /\ held \/ Unchecked
            /\ op.kind = "level" => sit \in Situations
  PROVE  Inv'
<1>1. TypeOK'
  BY DEF Inv, TypeOK, gatewayVars, roomVars, filterVars, dueVars, othersVars, opVars
<1>2. OpInv'
  BY DEF Inv, OpInv, opVars
<1>3. HeldInv'
  BY DEF Inv, HeldInv, Unchecked, Waiting, opVars
<1>4. KeptInv'
  BY DEF Inv, KeptInv, Agrees, gatewayVars, roomVars, dueVars, othersVars
<1>. QED
  BY <1>1, <1>2, <1>3, <1>4 DEF Inv

\* Changes of the gateway while the command stays where it is: types.
LEMMA OthersType ==
  ASSUME Inv, Others
  PROVE  TypeOK'
<1>. USE DEF Inv
<1>0. held' \in BOOLEAN
  BY DEF TypeOK, Others, LevelsTakenUp, SituationTakenUp, RuntimeTakenUp, UnitsFollow,
         RoomFollowsPanel, AppSetsLevel, AppSwitches, PanelSetsLevel, RoomRemoved,
         UnitRaisesAlarm, UnitRuns, Held
<1>1. CASE LevelsTakenUp
  <2>1. values' \in Values /\ dueValues' \subseteq Values
    BY <1>1 DEF LevelsTakenUp, TypeOK
  <2>. QED
    BY <1>0, <1>1, <2>1 DEF LevelsTakenUp, TypeOK, filterVars, othersVars, opVars
<1>2. CASE SituationTakenUp
  <2>1. /\ mode' = Manual /\ situation' \in Situations /\ dueSituation' \subseteq Situations
    BY <1>2, SetsAssumption DEF SituationTakenUp, Situated, Located, TypeOK
  <2>. QED
    BY <1>0, <1>2, <2>1 DEF SituationTakenUp, TypeOK, filterVars, othersVars, opVars
<1>3. CASE RuntimeTakenUp
  <2>1. fresh' \subseteq Units /\ dueRuntime' \subseteq Units
    BY <1>3 DEF RuntimeTakenUp, TypeOK
  <2>. QED
    BY <1>0, <1>3, <2>1 DEF RuntimeTakenUp, TypeOK, roomVars, othersVars, opVars
<1>4. CASE UnitsFollow
  <2>1. target' \in Levels \cup {NoLevel}
    BY <1>4 DEF UnitsFollow, TypeOK, Values
  <2>2. panel' \in BOOLEAN
    BY <1>4 DEF UnitsFollow
  <2>. QED
    BY <1>0, <1>4, <2>1, <2>2 DEF UnitsFollow, TypeOK, filterVars, dueVars, othersVars, opVars
<1>5. CASE RoomFollowsPanel
  <2>1. values' \in Values /\ mine' \in Values
    BY <1>5 DEF RoomFollowsPanel, TypeOK, Values
  <2>2. panel' \in BOOLEAN
    BY <1>5 DEF RoomFollowsPanel
  <2>. QED
    BY <1>0, <1>5, <2>1, <2>2 DEF RoomFollowsPanel, TypeOK, filterVars, dueVars, opVars
<1>6. CASE AppSetsLevel
  <2>1. values' \in Values /\ mine' \in Values
    BY <1>6 DEF AppSetsLevel, TypeOK, Values
  <2>. QED
    BY <1>0, <1>6, <2>1, BoundsAssumption
       DEF AppSetsLevel, Other, TypeOK, filterVars, dueVars, opVars
<1>7. CASE AppSwitches
  <2>1. mode' \in {Automatic, Manual} /\ situation' \in Situations
    BY <1>7 DEF AppSwitches
  <2>. QED
    BY <1>0, <1>7, <2>1, BoundsAssumption
       DEF AppSwitches, Other, TypeOK, filterVars, dueVars, opVars
<1>8. CASE PanelSetsLevel
  BY <1>8, BoundsAssumption DEF PanelSetsLevel, Other, TypeOK, filterVars, dueVars, opVars
<1>9. CASE RoomRemoved
  <2>1. present' \in BOOLEAN
    BY <1>9 DEF RoomRemoved
  <2>. QED
    BY <1>0, <1>9, <2>1, BoundsAssumption
       DEF RoomRemoved, Other, TypeOK, filterVars, dueVars, opVars
<1>10. CASE UnitRaisesAlarm \/ UnitRuns
  BY <1>10, BoundsAssumption
     DEF UnitRaisesAlarm, UnitRuns, Other, TypeOK, roomVars, dueVars, opVars
<1>. QED
  BY <1>1, <1>2, <1>3, <1>4, <1>5, <1>6, <1>7, <1>8, <1>9, <1>10 DEF Others

\* Others change the gateway while the command stays where it is.
LEMMA OthersInv ==
  ASSUME Inv, Others
  PROVE  Inv'
<1>1. UNCHANGED <<pc, opVars, outcome>>
  BY DEF Others, LevelsTakenUp, SituationTakenUp, RuntimeTakenUp, UnitsFollow,
         RoomFollowsPanel, AppSetsLevel, AppSwitches, PanelSetsLevel, RoomRemoved,
         UnitRaisesAlarm, UnitRuns, Other
<1>2. OpInv'
  BY <1>1 DEF Inv, OpInv, opVars
<1>3. HeldInv'
  <2>1. CASE Held
    BY <1>1, <2>1 DEF Held, Inv, HeldInv, Unchecked, opVars
  <2>2. CASE held' = held /\ UNCHANGED <<values, mode, situation>> /\ fresh' \subseteq fresh
    BY <1>1, <2>2 DEF Inv, HeldInv, InPlace, Unchecked, opVars
  <2>. QED
    BY <2>1, <2>2
       DEF Others, LevelsTakenUp, SituationTakenUp, RuntimeTakenUp, UnitsFollow,
           RoomFollowsPanel, AppSetsLevel, AppSwitches, PanelSetsLevel, RoomRemoved,
           UnitRaisesAlarm, UnitRuns, roomVars, filterVars
<1>4. KeptInv'
  <2>1. CASE UNCHANGED <<values, dueValues, mine>>
    BY <1>1, <2>1 DEF Inv, KeptInv, Agrees, opVars
  <2>2. CASE LevelsTakenUp
    BY <1>1, <2>2 DEF LevelsTakenUp, Inv, KeptInv, Agrees, othersVars, opVars
  <2>3. ASSUME NEW s \in Situations, NEW l, values' = [values EXCEPT ![s] = l],
               mine' = [mine EXCEPT ![s] = NoLevel], dueValues' = dueValues
        PROVE  KeptInv'
    <3>1. /\ \A q \in Situations : mine'[q] # NoLevel => q # s /\ mine'[q] = mine[q]
          /\ \A q \in Situations \ {s} : values'[q] = values[q]
      BY <2>3 DEF Inv, TypeOK, Values
    <3>. QED
      BY <1>1, <2>3, <3>1 DEF Inv, KeptInv, Agrees, opVars
  <2>4. CASE RoomFollowsPanel
    BY <2>3, <2>4 DEF RoomFollowsPanel, dueVars, Inv, TypeOK
  <2>5. CASE AppSetsLevel
    BY <2>3, <2>5 DEF AppSetsLevel, dueVars
  <2>. QED
    BY <2>1, <2>2, <2>4, <2>5
       DEF Others, SituationTakenUp, RuntimeTakenUp, UnitsFollow, AppSwitches,
           PanelSetsLevel, RoomRemoved, UnitRaisesAlarm, UnitRuns, roomVars, dueVars,
           othersVars
<1>. QED
  BY <1>2, <1>3, <1>4, OthersType DEF Inv

\* The requests that read.
LEMMA ReadInv ==
  ASSUME Inv, ReadRunState \/ ReadRoom
  PROVE  Inv'
<1>1. TypeOK'
  <2>1. CASE ReadRunState
    BY <2>1 DEF ReadRunState, Inv, TypeOK, gatewayVars, roomVars, filterVars, dueVars,
         othersVars
  <2>2. CASE ReadRoom
    <3>1. seen' \in [values : Values, alarms : SUBSET Units]
      BY <2>2 DEF ReadRoom, Room, Inv, TypeOK
    <3>. QED
      BY <2>2, <3>1 DEF ReadRoom, Inv, TypeOK, gatewayVars, roomVars, filterVars, dueVars,
           othersVars
  <2>. QED
    BY <2>1, <2>2
<1>2. OpInv'
  <2>1. CASE ReadRunState
    BY <2>1 DEF ReadRunState, Inv, TypeOK, OpInv
  <2>2. CASE ReadRoom
    BY <2>2 DEF ReadRoom, Inv, OpInv
  <2>. QED
    BY <2>1, <2>2
<1>3. HeldInv'
  BY DEF ReadRunState, ReadRoom, Inv, HeldInv, Unchecked, Waiting
<1>4. KeptInv'
  BY DEF ReadRunState, ReadRoom, Room, Inv, KeptInv, Agrees, gatewayVars, roomVars, dueVars,
         othersVars
<1>. QED
  BY <1>1, <1>2, <1>3, <1>4 DEF Inv

\* The room's values with the command's level written.
LEMMA EncodedValues ==
  ASSUME Inv, pc = "write", op.kind = "level"
  PROVE  /\ EncodeRoomLevel \in Values
         /\ EncodeRoomLevel[sit] = op.level
         /\ \A s \in Situations \ {sit} : EncodeRoomLevel[s] = seen.values[s]
<1>1. /\ seen.values \in [Situations -> Levels \cup {NoLevel}]
      /\ sit \in Situations /\ op.level \in Levels
  BY DEF Inv, TypeOK, OpInv, Values
<1>2. EncodeRoomLevel = [seen.values EXCEPT ![sit] = op.level]
  BY DEF EncodeRoomLevel
<1>. QED
  BY <1>1, <1>2 DEF Values

\* What a written level leaves at the gateway, taken up or due.
LEMMA LevelTaken ==
  ASSUME Inv, pc = "write", op.kind = "level", TakeLevels(EncodeRoomLevel), Unverified
  PROVE  /\ values' \in Values /\ dueValues' \subseteq Values /\ mine' \in Values
         /\ Agrees(values)' /\ \A v \in dueValues' : Agrees(v)' /\ v[sit] = op.level
<1>1. /\ mine' \in Values
      /\ \A q \in Situations : mine'[q] # NoLevel => q # sit /\ mine'[q] = mine[q]
  BY DEF Inv, TypeOK, OpInv, Values, Unverified
<1>2. Agrees(seen.values) /\ Agrees(values)
  BY DEF Inv, KeptInv
<1>3. \A q \in Situations : mine'[q] # NoLevel => EncodeRoomLevel[q] = mine'[q]
  BY <1>1, <1>2, EncodedValues DEF Agrees
<1>4. \A q \in Situations : mine'[q] # NoLevel => values[q] = mine'[q]
  BY <1>1, <1>2 DEF Agrees
<1>5. CASE values' = EncodeRoomLevel /\ dueValues' = {}
  BY <1>1, <1>3, <1>5, EncodedValues DEF Agrees
<1>6. CASE values' = values /\ dueValues' = {EncodeRoomLevel}
  BY <1>1, <1>3, <1>4, <1>6, EncodedValues DEF Agrees, Inv, TypeOK
<1>. QED
  BY <1>5, <1>6 DEF TakeLevels

\* What a written situation leaves.
LEMMA SituationTaken ==
  ASSUME Inv, op.kind = "situation", TakeSituation
  PROVE  /\ mode' \in {Automatic, Manual} /\ situation' \in Situations
         /\ dueSituation' \subseteq Situations
BY SetsAssumption DEF TakeSituation, Situated, Located, Inv, TypeOK, OpInv

\* What the room that a reset writes leaves.
LEMMA TakenRoom ==
  ASSUME Inv, pc = "write", op.kind = "reset", TakeRoom
  PROVE  /\ values' \in Values /\ dueValues' \subseteq Values /\ alarms' \subseteq Units
         /\ alarms \ alarms' \subseteq {op.unit}
         /\ Agrees(values') /\ \A v \in dueValues' : Agrees(v)
         /\ UNCHANGED <<mode, situation, target, panel, present, fresh, dueSituation,
                        dueRuntime>>
<1>1. alarms' \subseteq Units /\ alarms \ alarms' \subseteq {op.unit}
  BY DEF Inv, TypeOK, TakeRoom, AlarmFields
<1>2. Agrees(seen.values) /\ Agrees(values) /\ \A v \in dueValues : Agrees(v)
  BY DEF Inv, KeptInv
<1>3. /\ values' \in {values, seen.values}
      /\ dueValues' \in {dueValues, {}, {seen.values}}
  BY DEF TakeRoom, TakeLevels
<1>4. seen.values \in Values /\ values \in Values /\ dueValues \subseteq Values
  BY DEF Inv, TypeOK
<1>. QED
  BY <1>1, <1>2, <1>3, <1>4 DEF TakeRoom

\* What a written runtime leaves.
LEMMA RuntimeTaken ==
  ASSUME Inv, op.kind = "reset", TakeRuntime
  PROVE  fresh' \subseteq Units /\ dueRuntime' \subseteq Units
BY DEF TakeRuntime, Inv, TypeOK, OpInv

\* The requests that write a level or a situation.
LEMMA WriteInv ==
  ASSUME Inv, WriteLevel \/ WriteSituation
  PROVE  Inv'
<1>0. Held /\ held' \in BOOLEAN
  BY DEF WriteLevel, WriteSituation, Held, Inv, TypeOK
<1>1. CASE WriteLevel
  <2>1. /\ op.kind = "level" /\ pc = "write"
        /\ pc' = IF isActive THEN "wait_level" ELSE "wait_configured"
        /\ UNCHANGED <<mode, situation, target, panel, present, alarms, fresh, dueSituation,
                       dueRuntime, changes, op, sit, isActive, seen, commands, outcome>>
    BY <1>1 DEF WriteLevel, filterVars, opVars
  <2>2. /\ values' \in Values /\ dueValues' \subseteq Values /\ mine' \in Values
        /\ Agrees(values)' /\ \A v \in dueValues' : Agrees(v)' /\ v[sit] = op.level
    BY <1>1, LevelTaken DEF WriteLevel
  <2>3. TypeOK'
    BY <1>0, <2>1, <2>2 DEF Inv, TypeOK
  <2>4. OpInv'
    BY <2>1 DEF Inv, OpInv
  <2>5. HeldInv'
    BY <1>0, <2>1 DEF Held, Inv, HeldInv, Unchecked
  <2>6. KeptInv'
    BY <2>1, <2>2 DEF KeptInv
  <2>. QED
    BY <2>3, <2>4, <2>5, <2>6 DEF Inv
<1>2. CASE WriteSituation
  <2>1. /\ op.kind = "situation" /\ pc = "write" /\ pc' = "wait_situation"
        /\ UNCHANGED <<values, target, panel, present, alarms, fresh, dueValues, dueRuntime,
                       changes, mine, op, sit, isActive, seen, commands, outcome>>
    BY <1>2 DEF WriteSituation, filterVars, othersVars, opVars
  <2>2. /\ mode' \in {Automatic, Manual} /\ situation' \in Situations
        /\ dueSituation' \subseteq Situations
    BY <1>2, <2>1, SituationTaken DEF WriteSituation
  <2>3. TypeOK'
    BY <1>0, <2>1, <2>2 DEF Inv, TypeOK
  <2>4. OpInv'
    BY <2>1 DEF Inv, OpInv
  <2>5. HeldInv'
    BY <1>0, <2>1 DEF Held, Inv, HeldInv, Unchecked
  <2>6. KeptInv'
    BY <2>1 DEF Inv, KeptInv, Agrees
  <2>. QED
    BY <2>3, <2>4, <2>5, <2>6 DEF Inv
<1>. QED
  BY <1>1, <1>2

\* The requests that reset a filter timer.
LEMMA ResetInv ==
  ASSUME Inv, WriteRoom \/ WriteRuntime
  PROVE  Inv'
<1>1. CASE WriteRoom
  <2>1. /\ op.kind = "reset" /\ pc = "write" /\ pc' = "write_runtime" /\ TakeRoom
        /\ UNCHANGED <<changes, mine, op, sit, isActive, seen, commands, held, outcome>>
    BY <1>1 DEF WriteRoom, othersVars, opVars
  <2>2. TypeOK'
    BY <2>1, TakenRoom DEF Inv, TypeOK
  <2>3. OpInv'
    BY <2>1 DEF Inv, OpInv
  <2>4. HeldInv'
    BY <2>1 DEF Inv, HeldInv, Unchecked, Waiting
  <2>5. KeptInv'
    BY <2>1, TakenRoom DEF KeptInv, Agrees
  <2>. QED
    BY <2>2, <2>3, <2>4, <2>5 DEF Inv
<1>2. CASE WriteRuntime
  <2>1. /\ op.kind = "reset" /\ pc = "write_runtime" /\ pc' = "wait_runtime"
        /\ UNCHANGED <<mode, situation, values, target, panel, present, alarms, dueValues,
                       dueSituation, changes, mine, op, sit, isActive, seen, commands,
                       outcome>>
    BY <1>2 DEF WriteRuntime, Inv, OpInv, roomVars, othersVars, opVars
  <2>2. fresh' \subseteq Units /\ dueRuntime' \subseteq Units
    BY <1>2, <2>1, RuntimeTaken DEF WriteRuntime
  <2>3. Held /\ held' \in BOOLEAN
    BY <1>2 DEF WriteRuntime, Held, Inv, TypeOK
  <2>4. TypeOK'
    BY <2>1, <2>2, <2>3 DEF Inv, TypeOK
  <2>5. OpInv'
    BY <2>1 DEF Inv, OpInv
  <2>6. HeldInv'
    BY <2>1, <2>3 DEF Held, Inv, HeldInv, Unchecked
  <2>7. KeptInv'
    BY <2>1 DEF Inv, KeptInv, Agrees
  <2>. QED
    BY <2>4, <2>5, <2>6, <2>7 DEF Inv
<1>. QED
  BY <1>1, <1>2

\* A write whose confirmation is lost.
LEMMA LostInv ==
  ASSUME Inv, WriteLost
  PROVE  Inv'
<1>1. /\ mode' \in {Automatic, Manual} /\ situation' \in Situations
      /\ values' \in Values /\ alarms' \subseteq Units /\ fresh' \subseteq Units
      /\ dueValues' \subseteq Values /\ dueSituation' \subseteq Situations
      /\ dueRuntime' \subseteq Units /\ mine' \in Values
      /\ Agrees(values)' /\ \A v \in dueValues' : Agrees(v)'
      /\ UNCHANGED <<target, panel, present>>
  <2>1. CASE /\ pc = "write" /\ op.kind = "level"
             /\ TakeLevels(EncodeRoomLevel) /\ Unverified
             /\ UNCHANGED <<mode, situation, target, panel, present, filterVars,
                            dueSituation, dueRuntime>>
    BY <2>1, LevelTaken DEF Inv, TypeOK, filterVars
  <2>2. CASE /\ pc = "write" /\ op.kind = "situation" /\ TakeSituation
             /\ UNCHANGED <<values, target, panel, present, filterVars, dueValues,
                            dueRuntime, mine>>
    BY <2>2, SituationTaken DEF Inv, TypeOK, KeptInv, Agrees, filterVars
  <2>3. CASE pc = "write" /\ op.kind = "reset" /\ TakeRoom /\ UNCHANGED mine
    BY <2>3, TakenRoom DEF Inv, TypeOK, Agrees
  <2>4. CASE /\ pc = "write_runtime" /\ TakeRuntime
             /\ UNCHANGED <<roomVars, alarms, dueValues, dueSituation, mine>>
    BY <2>4, RuntimeTaken DEF Inv, TypeOK, OpInv, KeptInv, Agrees, roomVars
  <2>. QED
    BY <2>1, <2>2, <2>3, <2>4 DEF WriteLost
<1>2. /\ pc' = "idle" /\ outcome' = "protocol_error"
      /\ UNCHANGED <<changes, op, sit, isActive, seen, commands, held>>
  BY DEF WriteLost, End, opVars
<1>3. TypeOK'
  BY <1>1, <1>2 DEF Inv, TypeOK
<1>4. OpInv' /\ HeldInv'
  BY <1>2 DEF Inv, OpInv, HeldInv, Waiting
<1>5. KeptInv'
  BY <1>1, <1>2 DEF KeptInv
<1>. QED
  BY <1>3, <1>4, <1>5 DEF Inv

\* The room shows the level that was configured.
LEMMA ConfirmInv ==
  ASSUME Inv, ConfiguredSettled
  PROVE  Inv'
<1>1. /\ pc = "wait_configured" /\ values[sit] = op.level /\ pc' = "snapshot"
      /\ mine' = [mine EXCEPT ![sit] = op.level]
      /\ UNCHANGED <<mode, situation, values, target, panel, present, alarms, fresh,
                     dueValues, dueSituation, dueRuntime, changes, op, sit, isActive, seen,
                     commands, held, outcome>>
  BY DEF ConfiguredSettled, gatewayVars, roomVars, filterVars, dueVars, opVars
<1>2. op.kind = "level" /\ op.level \in Levels /\ sit \in Situations
  BY <1>1 DEF Inv, OpInv
<1>3. /\ mine' \in Values /\ mine'[sit] = op.level
      /\ \A q \in Situations \ {sit} : mine'[q] = mine[q]
  BY <1>1, <1>2 DEF Inv, TypeOK, Values
<1>4. TypeOK'
  BY <1>1, <1>3 DEF Inv, TypeOK
<1>5. OpInv'
  BY <1>1, <1>2 DEF Inv, OpInv
<1>6. held
  BY <1>1, <1>2 DEF Inv, HeldInv, InPlace, Waiting
<1>7. HeldInv'
  BY <1>1, <1>6 DEF Inv, HeldInv, Waiting
<1>8. KeptInv'
  BY <1>1, <1>3 DEF Inv, KeptInv, Agrees
<1>. QED
  BY <1>4, <1>5, <1>7, <1>8 DEF Inv

\* Every step keeps the invariant.
LEMMA NextInv ==
  ASSUME Inv, [Next]_vars
  PROVE  Inv'
<1>1. ASSUME NEW l \in Levels, NEW which \in Situations \cup {Active}, SetLevel(l, which)
      PROVE  Inv'
  BY <1>1, BeginInv DEF SetLevel
<1>2. ASSUME NEW s \in Selectable, SetSituation(s) PROVE Inv'
  BY <1>2, BeginInv, SetsAssumption DEF SetSituation
<1>3. ASSUME NEW u \in Units, ResetFilterTimer(u) PROVE Inv'
  BY <1>3, BeginInv DEF ResetFilterTimer
<1>4. CASE \/ RoomGone \/ LevelRejected \/ NoRoomValues \/ RoomGoneWaiting
           \/ ConfiguredTimeout \/ SituationTimeout \/ ResetUnsupported \/ RuntimeTimeout
           \/ RequestFails
  <2>1. /\ pc' = "idle" /\ outcome' \in {"protocol_error", "value_error"}
        /\ UNCHANGED <<gatewayVars, othersVars, opVars, held>>
    BY <1>4 DEF RoomGone, LevelRejected, NoRoomValues, RoomGoneWaiting, ConfiguredTimeout,
         SituationTimeout, ResetUnsupported, RuntimeTimeout, RequestFails, TimeoutOutcome,
         EndKeeping, End
  <2>. QED
    BY <2>1, QuietInv
<1>5. CASE LevelSettled \/ LevelTimeout \/ SituationSettled \/ RuntimeSettled
  <2>1. /\ pc' = "snapshot" /\ outcome' = outcome /\ pc # "idle"
        /\ UNCHANGED <<gatewayVars, othersVars, opVars, held>>
    BY <1>5 DEF LevelSettled, LevelTimeout, SituationSettled, RuntimeSettled
  <2>2. held \/ Unchecked
    <3>1. CASE LevelSettled \/ LevelTimeout
      BY <3>1 DEF LevelSettled, LevelTimeout, Inv, OpInv, HeldInv, Unchecked
    <3>2. CASE SituationSettled
      BY <3>2 DEF SituationSettled, Reported, Inv, OpInv, HeldInv, InPlace, Waiting
    <3>3. CASE RuntimeSettled
      BY <3>3 DEF RuntimeSettled, Inv, OpInv, HeldInv, InPlace, Waiting
    <3>. QED
      BY <1>5, <3>1, <3>2, <3>3
  <2>3. op.kind = "level" => sit \in Situations
    BY <1>5 DEF LevelSettled, LevelTimeout, SituationSettled, RuntimeSettled, Inv, OpInv
  <2>. QED
    BY <2>1, <2>2, <2>3, QuietInv
<1>6. CASE ReadBack
  <2>1. /\ pc' = "idle" /\ outcome' = "ok"
        /\ UNCHANGED <<gatewayVars, othersVars, opVars, held>>
    BY <1>6 DEF ReadBack, EndKeeping, End
  <2>2. held \/ Unchecked
    BY <1>6 DEF ReadBack, Inv, HeldInv
  <2>. QED
    BY <2>1, <2>2, QuietInv
<1>7. CASE UNCHANGED vars
  BY <1>7 DEF Inv, TypeOK, OpInv, HeldInv, KeptInv, Agrees, InPlace, Unchecked, vars,
       gatewayVars, roomVars, filterVars, dueVars, othersVars, opVars
<1>. QED
  BY <1>1, <1>2, <1>3, <1>4, <1>5, <1>6, <1>7, OthersInv, ReadInv, WriteInv, ResetInv,
     LostInv, ConfirmInv
     DEF Next, Commands, Thread

LEMMA Invariant == Spec => []Inv
<1>1. Inv /\ [Next]_vars => Inv'
  BY NextInv
<1>. QED
  BY InitInv, <1>1, PTL DEF Spec

\* Type correctness, for any situations, levels and units.
THEOREM TypeCorrect == Spec => []TypeOK
<1>1. Inv => TypeOK
  BY DEF Inv
<1>. QED
  BY <1>1, Invariant, PTL

\* A command that ends without an error has had its effect since its write, however
\* late writes are taken up, unless it set the level of the active situation.
THEOREM EffectiveHolds == Spec => []Effective
<1>1. Inv => Effective
  BY DEF Inv, HeldInv, Unchecked, Effective
<1>. QED
  BY <1>1, Invariant, PTL

\* No command, lost, late or confirmed, takes back a level that another one has verified.
THEOREM VerifiedLevelsKeptHolds == Spec => []VerifiedLevelsKept
<1>1. Inv => VerifiedLevelsKept
  BY DEF Inv, KeptInv, Agrees, VerifiedLevelsKept
<1>. QED
  BY <1>1, Invariant, PTL

\* A reset acknowledges no other unit's alarm.
THEOREM OtherAlarmsKeptHolds == Spec => OtherAlarmsKept
<1>1. ASSUME Inv, Next, NEW u \in alarms \ alarms'
      PROVE  op.kind = "reset" /\ u = op.unit
  <2>1. alarms' # alarms /\ ~(alarms \subseteq alarms')
    OBVIOUS
  <2>2. pc = "write" /\ op.kind = "reset" /\ TakeRoom
    <3>1. ~Commands
      BY <2>1 DEF Commands, SetLevel, SetSituation, ResetFilterTimer, Begin,
           gatewayVars, filterVars
    <3>2. ~Others
      BY <2>1 DEF Others, LevelsTakenUp, SituationTakenUp, RuntimeTakenUp, UnitsFollow,
           RoomFollowsPanel, AppSetsLevel, AppSwitches, PanelSetsLevel, RoomRemoved,
           UnitRaisesAlarm, UnitRuns, filterVars
    <3>3. ~RequestFails
      BY <2>1 DEF RequestFails, EndKeeping, gatewayVars, filterVars
    <3>4. CASE WriteLost
      BY <2>1, <3>4 DEF WriteLost, filterVars
    <3>5. CASE Thread
      BY <2>1, <3>5 DEF Thread, ReadRunState, ReadRoom, RoomGone, LevelRejected,
           NoRoomValues, WriteLevel, LevelSettled, LevelTimeout, ConfiguredSettled,
           RoomGoneWaiting, ConfiguredTimeout, WriteSituation, SituationSettled,
           SituationTimeout, ResetUnsupported, WriteRoom, WriteRuntime, RuntimeSettled,
           RuntimeTimeout, ReadBack, EndKeeping, gatewayVars, filterVars
    <3>. QED
      BY <1>1, <3>1, <3>2, <3>3, <3>4, <3>5 DEF Next
  <2>. QED
    BY <1>1, <2>2, TakenRoom
<1>2. Inv /\ [Next]_vars => [\A u \in alarms \ alarms' : op.kind = "reset" /\ u = op.unit]_vars
  BY <1>1
<1>. QED
  BY <1>2, Invariant, PTL DEF Spec, OtherAlarmsKept
=============================================================================
