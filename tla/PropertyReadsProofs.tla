------------------------- MODULE PropertyReadsProofs -------------------------
(***************************************************************************)
(* Type correctness of PropertyReads, the agreement of the client and the  *)
(* gateway on the sequence under way, that a refused sequence is not asked *)
(* for again while its unit stays attached, that telemetry costs no rooms, *)
(* and that no unit is passed over for its fan state.                      *)
(***************************************************************************)
EXTENDS PropertyReads, TLAPS

\* The sequences of the current phase are those of units still to be read.
CurInv ==
  cur # NoSeq => /\ pc \in Phases /\ cur.dev \in todo[pc]
                 /\ IF pc = "core" THEN cur.kind \notin Extras ELSE cur.kind = pc
                 /\ cur.pos # 0

\* What a refusal leaves behind: the unit is remembered, it is not in a list of
\* units to ask, and the room states read so far show every unit that stays.
KnownInv ==
  /\ Stable \subseteq attached
  /\ pc \notin {"idle", "rooms"} => Stable \subseteq first
  /\ pc \in {"fan", "optional", "settle"} => Stable \subseteq core
  /\ \A k \in Extras :
       /\ todo[k] \cap rejected[k] = {}
       /\ \A d \in Stable : <<d, k>> \in refused => d \in rejected[k]

TypeInv == TypeOK /\ (cur # NoSeq => pc \in Phases)
------------------------------------------------------------------------------
(* Types                                                                   *)

\* The request that is due is one of a sequence of this unit and phase.
LEMMA DueType ==
  ASSUME TypeInv, NEW s \in Due
  PROVE  s \in Sequences /\ pc \in Phases
<1>1. pc \in Phases
  BY DEF Due
<1>2. CASE cur # NoSeq
  BY <1>1, <1>2 DEF Due, TypeInv, TypeOK
<1>3. CASE cur = NoSeq
  <2>1. PICK d \in todo[pc] : s = [dev |-> d, kind |-> KindFor(d), pos |-> 0]
    BY <1>1, <1>3 DEF Due
  <2>2. d \in Devices
    BY <1>1, <2>1 DEF TypeInv, TypeOK
  <2>3. KindFor(d) \in Kinds
    BY <1>1 DEF KindFor, Phases, Kinds
  <2>4. 0 < SpecCount[KindFor(d)]
    BY <2>3, SpecAssumption
  <2> QED BY <1>1, <2>1, <2>2, <2>3, <2>4 DEF Sequences
<1> QED BY <1>2, <1>3

\* What every end of a snapshot leaves in the variables it changes.
EndTyped ==
  /\ pc' = "idle" /\ cur' = NoSeq /\ todo' \in [Phases -> SUBSET Devices]
  /\ fully' \in SUBSET Devices /\ rejected' \in [Extras -> SUBSET Devices]
  /\ optAsked' \in SUBSET Devices
  /\ outcome' \in {"none", "snapshot", "error", "garbled"}

\* Returning a snapshot of some units keeps the memory within the units.
LEMMA ReturnType ==
  ASSUME TypeInv, NEW present \in SUBSET Devices,
         NEW turnedDown \in [Extras -> SUBSET Devices], Return(present, turnedDown)
  PROVE  EndTyped
BY DEF EndTyped, Return, ClientDone, Remember, NothingToDo, TypeInv, TypeOK, Extras

\* So does raising an error.
LEMMA RaiseType ==
  ASSUME TypeInv, NEW error \in {"error", "garbled"}, Raise(error)
  PROVE  EndTyped
BY DEF EndTyped, Raise, ClientDone, NothingToDo, memoryVars, TypeInv, TypeOK

\* And a failure of the telemetry part, which closes the session besides.
LEMMA TelemetryFailsType ==
  ASSUME TypeInv, TelemetryFails
  PROVE  EndTyped /\ CloseSession
<1>1. first \in SUBSET Devices /\ rejected \in [Extras -> SUBSET Devices]
  BY DEF TypeInv, TypeOK
<1> QED BY <1>1, ReturnType, RaiseType DEF TelemetryFails

\* The history of a start stays within the units and kinds.
LEMMA NoteType ==
  ASSUME TypeInv, NEW s \in Sequences, NoteStart(s)
  PROVE  again' \in SUBSET (Devices \X Kinds) /\ fanRead' \in SUBSET Devices
BY DEF NoteStart, Sequences, TypeInv, TypeOK

\* The initial state.
LEMMA InitType == Init => TypeInv
<1> SUFFICES ASSUME Init PROVE TypeInv
  OBVIOUS
<1>1. attached \in SUBSET Devices
  BY DEF Init
<1> QED BY <1>1 DEF Init, TypeInv, TypeOK, Flags, NothingToDo, Phases, Extras

\* The readings of rooms and the ends they lead to.
LEMMA RoomsType ==
  ASSUME TypeInv, Rooms \/ Failures
  PROVE  TypeInv'
<1> USE DEF TypeInv
<1>1. CASE ReadRooms
  <2>1. CASE flags.props /\ attached \cap Supported # {}
    BY <1>1, <2>1 DEF ReadRooms, TypeOK, KeepSession, NothingToDo, Phases, memoryVars
  <2>2. CASE ~(flags.props /\ attached \cap Supported # {})
    <3>1. EndTyped
      BY <1>1, <2>2, ReturnType DEF ReadRooms, TypeOK
    <3> QED BY <1>1, <3>1 DEF EndTyped, ReadRooms, TypeOK, KeepSession
  <2> QED BY <2>1, <2>2
<1>2. CASE ReadCoreRooms
  BY <1>2 DEF ReadCoreRooms, TypeOK, KeepSession, memoryVars, historyVars, Phases
<1>3. CASE FanDone
  BY <1>3 DEF FanDone, TypeOK, memoryVars, historyVars, Phases
<1>4. CASE ReadFinalRooms
  <2>1. EndTyped
    BY <1>4, ReturnType DEF ReadFinalRooms, TypeOK
  <2> QED BY <1>4, <2>1 DEF EndTyped, ReadFinalRooms, TypeOK, KeepSession
<1>5. CASE Settle
  <2>1. EndTyped
    BY <1>5, ReturnType DEF Settle, TypeOK
  <2> QED BY <1>5, <2>1 DEF EndTyped, Settle, TypeOK, KeepSession
<1>6. CASE ReadSettleRooms
  BY <1>6 DEF ReadSettleRooms, TypeOK, KeepSession, memoryVars, historyVars
<1>7. CASE SettleTimeout
  <2>1. EndTyped
    BY <1>7, RaiseType DEF SettleTimeout
  <2> QED BY <1>7, <2>1 DEF EndTyped, SettleTimeout, TypeOK, CloseSession
<1>8. CASE LoseRooms
  <2>1. EndTyped
    BY <1>8, RaiseType DEF LoseRooms
  <2> QED BY <1>8, <2>1 DEF EndTyped, LoseRooms, TypeOK, CloseSession
<1>9. CASE LoseLaterRooms
  <2>1. EndTyped /\ CloseSession
    BY <1>9, TelemetryFailsType DEF LoseLaterRooms
  <2> QED BY <1>9, <2>1 DEF EndTyped, LoseLaterRooms, TypeOK, CloseSession
<1>10. CASE GarbledRooms
  <2>1. EndTyped
    BY <1>10, RaiseType DEF GarbledRooms
  <2> QED BY <1>10, <2>1 DEF EndTyped, GarbledRooms, TypeOK, KeepSession
<1> QED BY <1>1, <1>2, <1>3, <1>4, <1>5, <1>6, <1>7, <1>8, <1>9, <1>10
        DEF Rooms, Failures

\* A confirmed request moves on by one, within its sequence.
LEMMA ConfirmedType ==
  ASSUME TypeInv, RequestConfirmed
  PROVE  TypeInv'
<1> USE DEF TypeInv
<1> PICK s \in Due :
      /\ conn' = TRUE
      /\ NoteStart(s) /\ NoteOptional(s)
      /\ IF IsLast(s)
         THEN /\ gwSeq' = NoSeq /\ cur' = NoSeq
              /\ IF pc = "core" THEN CoreDone(s.dev, s.kind)
                 ELSE todo' = [todo EXCEPT ![pc] = @ \ {s.dev}] /\ UNCHANGED fully
         ELSE /\ gwSeq' = [s EXCEPT !.pos = @ + 1]
              /\ cur' = [s EXCEPT !.pos = @ + 1]
              /\ UNCHANGED <<todo, fully>>
      /\ UNCHANGED <<attached, pc, flags, first, core, extra, rejected, refused, outcome>>
  BY DEF RequestConfirmed
<1>1. s \in Sequences /\ pc \in Phases
  BY DueType
<1>2. again' \in SUBSET (Devices \X Kinds) /\ fanRead' \in SUBSET Devices
  BY <1>1, NoteType
<1>3. optAsked' \in SUBSET Devices
  BY <1>1 DEF NoteOptional, Sequences, TypeOK
<1>4. gwSeq' \in Sequences \cup {NoSeq} /\ cur' \in Sequences \cup {NoSeq}
  <2>1. CASE IsLast(s)
    BY <2>1
  <2>2. CASE ~IsLast(s)
    <3>1. [s EXCEPT !.pos = @ + 1] \in Sequences
      BY <1>1, <2>2, SpecAssumption DEF IsLast, Sequences
    <3> QED BY <2>2, <3>1
  <2> QED BY <2>1, <2>2
<1>5. todo' \in [Phases -> SUBSET Devices] /\ fully' \in SUBSET Devices
  <2>1. CASE IsLast(s) /\ pc = "core"
    BY <1>1, <2>1 DEF CoreDone, Sequences, TypeOK, Phases
  <2>2. CASE IsLast(s) /\ pc # "core"
    BY <1>1, <2>2 DEF TypeOK
  <2>3. CASE ~IsLast(s)
    BY <2>3 DEF TypeOK
  <2> QED BY <2>1, <2>2, <2>3
<1> QED BY <1>1, <1>2, <1>3, <1>4, <1>5 DEF TypeOK

\* A refused or lost request ends the snapshot.
LEMMA EndedRequestType ==
  ASSUME TypeInv, RequestRejected \/ RequestLost
  PROVE  TypeInv'
<1> USE DEF TypeInv
<1>1. CASE RequestRejected
  <2> PICK s \in Due :
        /\ <<s.dev, s.kind>> \in MayReject
        /\ NoteStart(s)
        /\ refused' = refused \cup {<<s.dev, s.kind>>}
        /\ IF pc = "core" THEN TelemetryFails
           ELSE CloseSession /\ Return(core, [rejected EXCEPT ![pc] = @ \cup {s.dev}])
        /\ UNCHANGED <<attached, flags, first, core, extra>>
    BY <1>1 DEF RequestRejected
  <2>1. s \in Sequences /\ pc \in Phases
    BY DueType
  <2>2. again' \in SUBSET (Devices \X Kinds) /\ fanRead' \in SUBSET Devices
    BY <2>1, NoteType
  <2>3. EndTyped /\ CloseSession
    <3>1. CASE pc = "core"
      BY <3>1, TelemetryFailsType
    <3>2. CASE pc # "core"
      <4>1. [rejected EXCEPT ![pc] = @ \cup {s.dev}] \in [Extras -> SUBSET Devices]
        BY <2>1, <3>2 DEF TypeOK, Sequences, Phases, Extras
      <4>2. core \in SUBSET Devices
        BY DEF TypeOK
      <4> QED BY <3>2, <4>1, <4>2, ReturnType
    <3> QED BY <3>1, <3>2
  <2>4. refused' \in SUBSET (Devices \X Kinds)
    BY <2>1 DEF Sequences, TypeOK
  <2> QED BY <2>2, <2>3, <2>4 DEF EndTyped, CloseSession, TypeOK
<1>2. CASE RequestLost
  <2> PICK s \in Due :
        NoteStart(s) /\ TelemetryFails
        /\ UNCHANGED <<attached, flags, first, core, extra, refused>>
    BY <1>2 DEF RequestLost
  <2>1. s \in Sequences
    BY DueType
  <2>2. EndTyped /\ CloseSession
    BY TelemetryFailsType
  <2> QED BY <2>1, <2>2, NoteType DEF EndTyped, CloseSession, TypeOK
<1> QED BY <1>1, <1>2

\* Every step keeps the types.
LEMMA NextType == TypeInv /\ [Next]_vars => TypeInv'
<1> SUFFICES ASSUME TypeInv, [Next]_vars PROVE TypeInv'
  OBVIOUS
<1>1. ASSUME NEW props \in BOOLEAN, NEW filters \in BOOLEAN, NEW reset \in BOOLEAN,
             Begin(props, filters, reset)
      PROVE  TypeInv'
  BY <1>1 DEF Begin, TypeInv, TypeOK, Flags, memoryVars, Phases
<1>2. ASSUME NEW d \in Devices, Attach(d) \/ Detach(d)
      PROVE  TypeInv'
  BY <1>2 DEF Attach, Detach, clientVars, memoryVars, historyVars, TypeInv, TypeOK
<1>3. CASE UNCHANGED vars
  BY <1>3 DEF vars, clientVars, memoryVars, historyVars, TypeInv, TypeOK
<1> QED BY <1>1, <1>2, <1>3, RoomsType, ConfirmedType, EndedRequestType
        DEF Next, Requests

\* Every reachable state is of the declared types (the state of ConnectBoxClient
\* at client.py:100-102 and the progress of read_snapshot).
THEOREM TypeCorrect == Spec => []TypeOK
<1>1. TypeInv => TypeOK
  BY DEF TypeInv
<1> QED BY <1>1, InitType, NextType, PTL DEF Spec

------------------------------------------------------------------------------
(* The sequence under way                                                  *)

\* Nothing is under way at first.
LEMMA InitDiscipline == Init => SequenceDiscipline
BY DEF Init, SequenceDiscipline

\* An end of the snapshot that closes the session, or that is reached between
\* sequences, leaves no sequence open.
LEMMA EndDiscipline ==
  ASSUME TypeInv, SequenceDiscipline, EndTyped,
         CloseSession \/ (KeepSession /\ cur = NoSeq)
  PROVE  SequenceDiscipline'
BY DEF EndTyped, CloseSession, KeepSession, SequenceDiscipline

\* Each reading of rooms takes place between sequences.
LEMMA RoomsDiscipline ==
  ASSUME TypeInv, SequenceDiscipline, Rooms \/ Failures
  PROVE  SequenceDiscipline'
<1> USE DEF SequenceDiscipline
<1>0. /\ first \in SUBSET Devices /\ core \in SUBSET Devices
      /\ attached \in SUBSET Devices /\ rejected \in [Extras -> SUBSET Devices]
  BY DEF TypeInv, TypeOK
<1>1. CASE ReadRooms
  <2>1. cur = NoSeq
    BY <1>1 DEF ReadRooms, Phases
  <2>2. cur' = NoSeq
    BY <1>1, <2>1 DEF ReadRooms, Return, ClientDone
  <2> QED BY <1>1, <2>1, <2>2 DEF ReadRooms, KeepSession
<1>2. CASE ReadCoreRooms
  BY <1>2 DEF ReadCoreRooms, KeepSession
<1>3. CASE FanDone
  BY <1>3 DEF FanDone
<1>4. CASE ReadFinalRooms \/ Settle \/ SettleTimeout \/ LoseRooms
  BY <1>4 DEF ReadFinalRooms, Settle, SettleTimeout, LoseRooms, Return, Raise,
              ClientDone, KeepSession, CloseSession, Phases
<1>5. CASE ReadSettleRooms
  BY <1>5 DEF ReadSettleRooms, KeepSession, Phases
<1>6. CASE LoseLaterRooms
  BY <1>6, TelemetryFailsType, EndDiscipline DEF LoseLaterRooms
<1>7. CASE GarbledRooms
  BY <1>7 DEF GarbledRooms, RoomsDue, Raise, ClientDone, KeepSession, Phases
<1> QED BY <1>1, <1>2, <1>3, <1>4, <1>5, <1>6, <1>7 DEF Rooms, Failures

\* A request opens, continues or ends the one sequence, or closes the session.
LEMMA RequestsDiscipline ==
  ASSUME TypeInv, SequenceDiscipline, Requests
  PROVE  SequenceDiscipline'
<1>1. CASE RequestConfirmed
  <2>1. pc \in Phases
    BY <1>1 DEF RequestConfirmed, Due
  <2> QED BY <1>1, <2>1 DEF RequestConfirmed, SequenceDiscipline
<1>2. CASE RequestRejected \/ RequestLost
  <2>1. CloseSession /\ cur' = NoSeq
    BY <1>2 DEF RequestRejected, RequestLost, TelemetryFails, Return, Raise, ClientDone
  <2> QED BY <2>1 DEF CloseSession, SequenceDiscipline
<1> QED BY <1>1, <1>2 DEF Requests

\* Every step keeps the discipline.
LEMMA NextDiscipline ==
  TypeInv /\ SequenceDiscipline /\ [Next]_vars => SequenceDiscipline'
<1> SUFFICES ASSUME TypeInv, SequenceDiscipline, [Next]_vars
             PROVE  SequenceDiscipline'
  OBVIOUS
<1>1. ASSUME NEW props \in BOOLEAN, NEW filters \in BOOLEAN, NEW reset \in BOOLEAN,
             Begin(props, filters, reset)
      PROVE  SequenceDiscipline'
  BY <1>1 DEF Begin, SequenceDiscipline, Phases
<1>2. ASSUME NEW d \in Devices, Attach(d) \/ Detach(d)
      PROVE  SequenceDiscipline'
  BY <1>2 DEF Attach, Detach, clientVars, SequenceDiscipline
<1>3. CASE UNCHANGED vars
  BY <1>3 DEF vars, clientVars, SequenceDiscipline
<1> QED BY <1>1, <1>2, <1>3, RoomsDiscipline, RequestsDiscipline DEF Next

\* The client and the gateway agree on the property sequence under way, whatever
\* requests are refused or lost and however units come and go
\* (client.py:612-634, 664-670: every refusal closes the session).
THEOREM DisciplineHolds == Spec => []SequenceDiscipline
BY InitType, NextType, InitDiscipline, NextDiscipline, PTL DEF Spec

------------------------------------------------------------------------------
(* Refused sequences                                                       *)

RefusalInv == CurInv /\ KnownInv /\ NoRetryWhileAttached

\* Nothing has been refused at first.
LEMMA InitRefusal == Init => RefusalInv
<1> SUFFICES ASSUME Init PROVE RefusalInv
  OBVIOUS
<1>1. Stable \subseteq attached
  BY DEF Init
<1> QED BY <1>1 DEF Init, RefusalInv, CurInv, KnownInv, NoRetryWhileAttached,
                    NothingToDo, Phases, Extras

\* What every end of a snapshot preserves: the lists are empty, and a unit that
\* stays is remembered if it has refused a sequence.
RefusalKept ==
  /\ cur' = NoSeq /\ pc' = "idle" /\ todo' = NothingToDo
  /\ \A k \in Extras : \A d \in Stable : <<d, k>> \in refused' => d \in rejected'[k]

\* Returning a snapshot that shows every unit that stays keeps the memory of them.
LEMMA ReturnRefusal ==
  ASSUME NEW present, NEW turnedDown, Stable \subseteq present, Return(present, turnedDown),
         \A k \in Extras : \A d \in Stable : <<d, k>> \in refused' => d \in turnedDown[k]
  PROVE  RefusalKept
BY DEF RefusalKept, Return, ClientDone, Remember

\* Raising an error leaves the memory alone.
LEMMA RaiseRefusal ==
  ASSUME NEW error, KnownInv, Raise(error),
         \A k \in Extras : \A d \in Stable : <<d, k>> \in refused' => <<d, k>> \in refused
  PROVE  RefusalKept
BY DEF RefusalKept, Raise, ClientDone, memoryVars, KnownInv

\* A failure of the telemetry part keeps the memory either way.
LEMMA TelemetryFailsRefusal ==
  ASSUME KnownInv, pc \notin {"idle", "rooms"}, TelemetryFails,
         \A k \in Extras : \A d \in Stable : <<d, k>> \in refused' => <<d, k>> \in refused
  PROVE  RefusalKept
<1>1. CASE flags.reset
  BY <1>1, RaiseRefusal DEF TelemetryFails
<1>2. CASE ~flags.reset
  <2>1. Stable \subseteq first
    BY DEF KnownInv
  <2>2. \A k \in Extras : \A d \in Stable : <<d, k>> \in refused' => d \in rejected[k]
    BY DEF KnownInv
  <2> QED BY <1>2, <2>1, <2>2, ReturnRefusal DEF TelemetryFails
<1> QED BY <1>1, <1>2

\* An end of the snapshot keeps the invariant.
LEMMA EndRefusal ==
  ASSUME RefusalInv, RefusalKept, UNCHANGED attached,
         again' \cap (Stable \X Extras) = {}
  PROVE  RefusalInv'
BY DEF RefusalInv, RefusalKept, CurInv, KnownInv, NoRetryWhileAttached, NothingToDo,
       Phases, Extras

\* The readings of rooms refuse nothing.
LEMMA RoomsRefusal ==
  ASSUME TypeInv, RefusalInv, Rooms \/ Failures
  PROVE  RefusalInv'
<1>0. Stable \subseteq attached /\ KnownInv /\ again \cap (Stable \X Extras) = {}
      /\ \A k \in Extras : \A d \in Stable : <<d, k>> \in refused => d \in rejected[k]
  BY DEF RefusalInv, KnownInv, NoRetryWhileAttached
<1>1. CASE ReadRooms
  <2>1. CASE flags.props /\ attached \cap Supported # {}
    <3>1. cur = NoSeq
      BY <1>1 DEF ReadRooms, RefusalInv, CurInv, Phases
    <3>2. todo'.fan = {} /\ todo'.optional = {}
      BY <1>1, <2>1 DEF ReadRooms, NothingToDo, Phases
    <3> QED BY <1>0, <1>1, <2>1, <3>1, <3>2
            DEF ReadRooms, RefusalInv, CurInv, KnownInv, NoRetryWhileAttached,
                memoryVars, Extras
  <2>2. CASE ~(flags.props /\ attached \cap Supported # {})
    <3>1. Return(attached, rejected)
      BY <1>1, <2>2 DEF ReadRooms
    <3>2. RefusalKept
      BY <1>0, <1>1, <3>1, ReturnRefusal DEF ReadRooms
    <3> QED BY <1>0, <1>1, <3>2, EndRefusal DEF ReadRooms
  <2> QED BY <2>1, <2>2
<1>2. CASE ReadCoreRooms
  BY <1>0, <1>2 DEF ReadCoreRooms, RefusalInv, CurInv, KnownInv, NoRetryWhileAttached,
                    memoryVars, historyVars, Phases
<1>3. CASE FanDone
  BY <1>0, <1>3 DEF FanDone, RefusalInv, CurInv, KnownInv, NoRetryWhileAttached,
                    memoryVars, historyVars, Phases
<1>4. CASE ReadFinalRooms
  <2>1. Stable \subseteq (IF extra THEN attached ELSE core)
    BY <1>0, <1>4 DEF ReadFinalRooms, KnownInv
  <2>2. RefusalKept
    BY <1>0, <1>4, <2>1, ReturnRefusal DEF ReadFinalRooms
  <2> QED BY <1>0, <1>4, <2>2, EndRefusal DEF ReadFinalRooms
<1>5. CASE Settle
  <2>1. Stable \subseteq core
    BY <1>0, <1>5 DEF Settle, KnownInv
  <2>2. RefusalKept
    BY <1>0, <1>5, <2>1, ReturnRefusal DEF Settle
  <2> QED BY <1>0, <1>5, <2>2, EndRefusal DEF Settle
<1>6. CASE ReadSettleRooms
  BY <1>0, <1>6 DEF ReadSettleRooms, RefusalInv, CurInv, KnownInv, NoRetryWhileAttached,
                    memoryVars, historyVars
<1>7. CASE SettleTimeout
  <2>1. RefusalKept
    BY <1>0, <1>7, RaiseRefusal DEF SettleTimeout
  <2> QED BY <1>0, <1>7, <2>1, EndRefusal DEF SettleTimeout
<1>8. CASE LoseRooms
  <2>1. RefusalKept
    BY <1>0, <1>8, RaiseRefusal DEF LoseRooms
  <2> QED BY <1>0, <1>8, <2>1, EndRefusal DEF LoseRooms
<1>9. CASE LoseLaterRooms
  <2>1. RefusalKept
    BY <1>0, <1>9, TelemetryFailsRefusal DEF LoseLaterRooms, RoomsDue
  <2> QED BY <1>0, <1>9, <2>1, EndRefusal DEF LoseLaterRooms
<1>10. CASE GarbledRooms
  <2>1. RefusalKept
    BY <1>0, <1>10, RaiseRefusal DEF GarbledRooms
  <2> QED BY <1>0, <1>10, <2>1, EndRefusal DEF GarbledRooms
<1> QED BY <1>1, <1>2, <1>3, <1>4, <1>5, <1>6, <1>7, <1>8, <1>9, <1>10
        DEF Rooms, Failures

\* A sequence that is started now was not refused by a unit that stays.
LEMMA StartsNew ==
  ASSUME TypeInv, RefusalInv, NEW s \in Due, NoteStart(s)
  PROVE  /\ again' \cap (Stable \X Extras) = {}
         /\ s.dev \in todo[pc] /\ pc \in Phases
         /\ pc \in Extras => s.kind = pc
         /\ pc = "core" => s.kind \notin Extras
<1>1. pc \in Phases
  BY DEF Due
<1>2. CASE cur # NoSeq
  <2>1. s = cur
    BY <1>1, <1>2 DEF Due
  <2>2. again' = again
    BY <1>2, <2>1 DEF NoteStart, RefusalInv, CurInv
  <2>3. pc = "core" => s.kind \notin Extras
    BY <1>1, <1>2, <2>1 DEF RefusalInv, CurInv
  <2> QED BY <1>1, <1>2, <2>1, <2>2, <2>3 DEF RefusalInv, CurInv, NoRetryWhileAttached, Extras
<1>3. CASE cur = NoSeq
  <2>1. PICK d \in todo[pc] : s = [dev |-> d, kind |-> KindFor(d), pos |-> 0]
    BY <1>1, <1>3 DEF Due
  <2>2. pc = "core" => s.kind \notin Extras
    BY <2>1 DEF KindFor, Extras
  <2>3. pc # "core" => s.kind = pc
    BY <2>1 DEF KindFor
  <2>4. <<s.dev, s.kind>> \in refused => <<s.dev, s.kind>> \notin Stable \X Extras
    BY <1>1, <2>1, <2>2, <2>3 DEF RefusalInv, KnownInv, Phases, Extras
  <2>5. again' \cap (Stable \X Extras) = {}
    BY <2>4 DEF NoteStart, RefusalInv, NoRetryWhileAttached
  <2> QED BY <1>1, <2>1, <2>2, <2>3, <2>5 DEF Extras
<1> QED BY <1>2, <1>3

\* A confirmed request asks a unit whose refusal is not remembered, and puts no
\* such unit on a list.
LEMMA ConfirmedRefusal ==
  ASSUME TypeInv, RefusalInv, RequestConfirmed
  PROVE  RefusalInv'
<1> PICK s \in Due :
      /\ NoteStart(s)
      /\ IF IsLast(s)
         THEN /\ cur' = NoSeq
              /\ IF pc = "core" THEN CoreDone(s.dev, s.kind)
                 ELSE todo' = [todo EXCEPT ![pc] = @ \ {s.dev}]
         ELSE /\ cur' = [s EXCEPT !.pos = @ + 1]
              /\ UNCHANGED todo
      /\ UNCHANGED <<attached, pc, first, core, rejected, refused>>
  BY DEF RequestConfirmed
<1>1. /\ again' \cap (Stable \X Extras) = {}
      /\ s.dev \in todo[pc] /\ pc \in Phases
      /\ pc \in Extras => s.kind = pc
      /\ pc = "core" => s.kind \notin Extras
  BY StartsNew
<1>2. \A k \in Extras : todo'[k] \cap rejected[k] = {}
  <2>0. todo \in [Phases -> SUBSET Devices]
        /\ \A k \in Extras : todo[k] \cap rejected[k] = {}
    BY DEF RefusalInv, KnownInv, TypeInv, TypeOK
  <2>1. CASE IsLast(s) /\ pc = "core"
    BY <2>0, <2>1 DEF CoreDone, Extras
  <2>2. CASE IsLast(s) /\ pc # "core"
    BY <1>1, <2>0, <2>2 DEF Phases, Extras
  <2>3. CASE ~IsLast(s)
    BY <2>0, <2>3
  <2> QED BY <2>1, <2>2, <2>3
<1>3. CurInv'
  <2>1. CASE IsLast(s)
    BY <2>1 DEF CurInv
  <2>2. CASE ~IsLast(s)
    <3>1. s \in Sequences
      BY DueType
    <3>2. cur'.dev = s.dev /\ cur'.kind = s.kind /\ cur'.pos = s.pos + 1 /\ s.pos \in Nat
      BY <2>2, <3>1 DEF Sequences
    <3> QED BY <1>1, <2>2, <3>2 DEF CurInv, Phases, Extras
  <2> QED BY <2>1, <2>2
<1>4. KnownInv'
  BY <1>2 DEF RefusalInv, KnownInv
<1> QED BY <1>1, <1>3, <1>4 DEF RefusalInv, NoRetryWhileAttached

\* A refused extra sequence is remembered with the snapshot it ends.
LEMMA EndedRequestRefusal ==
  ASSUME TypeInv, RefusalInv, RequestRejected \/ RequestLost
  PROVE  RefusalInv'
<1>0. /\ KnownInv
      /\ \A k \in Extras : \A d \in Stable : <<d, k>> \in refused => d \in rejected[k]
  BY DEF RefusalInv, KnownInv
<1>1. CASE RequestRejected
  <2> PICK s \in Due :
        /\ NoteStart(s)
        /\ refused' = refused \cup {<<s.dev, s.kind>>}
        /\ IF pc = "core" THEN TelemetryFails
           ELSE CloseSession /\ Return(core, [rejected EXCEPT ![pc] = @ \cup {s.dev}])
        /\ UNCHANGED <<attached, flags, first, core, extra>>
    BY <1>1 DEF RequestRejected
  <2>1. /\ again' \cap (Stable \X Extras) = {}
        /\ pc \in Phases
        /\ pc \in Extras => s.kind = pc
        /\ pc = "core" => s.kind \notin Extras
    BY StartsNew
  <2>2. RefusalKept
    <3>1. CASE pc = "core"
      <4>1. \A k \in Extras : \A d \in Stable : <<d, k>> \in refused' => <<d, k>> \in refused
        BY <2>1, <3>1
      <4> QED BY <1>0, <3>1, <4>1, TelemetryFailsRefusal
    <3>2. CASE pc # "core"
      <4>1. pc \in Extras
        BY <2>1, <3>2 DEF Phases, Extras
      <4>2. Stable \subseteq core
        BY <1>0, <4>1 DEF KnownInv, Extras
      <4>3. rejected \in [Extras -> SUBSET Devices]
        BY DEF TypeInv, TypeOK
      <4>4. \A k \in Extras : \A d \in Stable :
              <<d, k>> \in refused' => d \in [rejected EXCEPT ![pc] = @ \cup {s.dev}][k]
        BY <1>0, <2>1, <4>1, <4>3
      <4> QED BY <3>2, <4>2, <4>4, ReturnRefusal
    <3> QED BY <3>1, <3>2
  <2> QED BY <2>1, <2>2, EndRefusal
<1>2. CASE RequestLost
  <2> PICK s \in Due :
        NoteStart(s) /\ TelemetryFails
        /\ UNCHANGED <<attached, flags, first, core, extra, refused>>
    BY <1>2 DEF RequestLost
  <2>1. again' \cap (Stable \X Extras) = {} /\ pc \in Phases
    BY StartsNew
  <2>2. RefusalKept
    BY <1>0, <2>1, TelemetryFailsRefusal DEF Phases
  <2> QED BY <2>1, <2>2, EndRefusal
<1> QED BY <1>1, <1>2

\* Every step keeps what a refusal leaves behind.
LEMMA NextRefusal == TypeInv /\ RefusalInv /\ [Next]_vars => RefusalInv'
<1> SUFFICES ASSUME TypeInv, RefusalInv, [Next]_vars PROVE RefusalInv'
  OBVIOUS
<1> USE DEF RefusalInv, CurInv, KnownInv, NoRetryWhileAttached
<1>1. ASSUME NEW props \in BOOLEAN, NEW filters \in BOOLEAN, NEW reset \in BOOLEAN,
             Begin(props, filters, reset)
      PROVE  RefusalInv'
  BY <1>1 DEF Begin, Phases, memoryVars
<1>2. ASSUME NEW d \in Devices, Attach(d) \/ Detach(d)
      PROVE  RefusalInv'
  BY <1>2 DEF Attach, Detach, clientVars, memoryVars, historyVars
<1>3. CASE UNCHANGED vars
  BY <1>3 DEF vars, clientVars, memoryVars, historyVars
<1> QED BY <1>1, <1>2, <1>3, RoomsRefusal, ConfirmedRefusal, EndedRequestRefusal
        DEF Next, Requests

\* A unit that stays attached is never asked again for its fan state or its
\* optional settings once it has refused them, whatever other units come,
\* go, refuse or fail to answer (client.py:595, 603, 618, 631 and 710-712).
THEOREM NoRetryHolds == Spec => []NoRetryWhileAttached
<1>1. RefusalInv => NoRetryWhileAttached
  BY DEF RefusalInv
<1> QED BY <1>1, InitType, NextType, InitRefusal, NextRefusal, PTL DEF Spec

------------------------------------------------------------------------------
(* Optional telemetry                                                      *)

\* Only a filter reset waits for its values to settle.
SettleInv == pc = "settle" => flags.reset

\* No step but the reading after the core values starts to wait.
LEMMA NextSettle == SettleInv /\ [Next]_vars => SettleInv'
<1> SUFFICES ASSUME SettleInv, [Next]_vars PROVE SettleInv'
  OBVIOUS
<1> USE DEF SettleInv
<1>1. ASSUME NEW props \in BOOLEAN, NEW filters \in BOOLEAN, NEW reset \in BOOLEAN,
             Begin(props, filters, reset)
      PROVE  SettleInv'
  BY <1>1 DEF Begin
<1>2. CASE Rooms
  BY <1>2 DEF Rooms, ReadRooms, ReadCoreRooms, FanDone, ReadFinalRooms, Settle,
              ReadSettleRooms, SettleTimeout, Return, Raise, ClientDone
<1>3. CASE Failures
  BY <1>3 DEF Failures, LoseRooms, LoseLaterRooms, GarbledRooms, TelemetryFails,
              Return, Raise, ClientDone
<1>4. CASE Requests
  <2>1. CASE RequestConfirmed
    BY <2>1 DEF RequestConfirmed
  <2>2. CASE RequestRejected \/ RequestLost
    BY <2>2 DEF RequestRejected, RequestLost, TelemetryFails, Return, Raise, ClientDone
  <2> QED BY <1>4, <2>1, <2>2 DEF Requests
<1>5. ASSUME NEW d \in Devices, Attach(d) \/ Detach(d)
      PROVE  SettleInv'
  BY <1>5 DEF Attach, Detach, clientVars
<1>6. CASE UNCHANGED vars
  BY <1>6 DEF vars, clientVars
<1> QED BY <1>1, <1>2, <1>3, <1>4, <1>5, <1>6 DEF Next

\* What one step may do to a snapshot that has its rooms.
SnapshotKept ==
  pc \notin {"idle", "rooms"} /\ pc' = "idle" /\ ~flags.reset
    => outcome' \in {"snapshot", "garbled"}

\* An end in an error is that of a filter reset or of the first rooms.
LEMMA StepOptional ==
  ASSUME SettleInv, [Next]_vars
  PROVE  SnapshotKept
<1> SUFFICES ASSUME pc \notin {"idle", "rooms"}, pc' = "idle", ~flags.reset
             PROVE  outcome' \in {"snapshot", "garbled"}
  BY DEF SnapshotKept
<1>1. CASE Rooms
  BY <1>1 DEF Rooms, ReadRooms, ReadCoreRooms, FanDone, ReadFinalRooms, Settle,
              ReadSettleRooms, SettleTimeout, Return, SettleInv
<1>2. CASE Failures
  BY <1>2 DEF Failures, LoseRooms, LoseLaterRooms, GarbledRooms, TelemetryFails, Return, Raise
<1>3. CASE Requests
  <2>1. CASE RequestConfirmed
    BY <2>1 DEF RequestConfirmed
  <2>2. CASE RequestRejected \/ RequestLost
    BY <2>2 DEF RequestRejected, RequestLost, TelemetryFails, Return
  <2> QED BY <1>3, <2>1, <2>2 DEF Requests
<1>4. ASSUME NEW props \in BOOLEAN, NEW filters \in BOOLEAN, NEW reset \in BOOLEAN,
             Begin(props, filters, reset)
      PROVE  FALSE
  BY <1>4 DEF Begin
<1>5. ASSUME NEW d \in Devices, Attach(d) \/ Detach(d)
      PROVE  FALSE
  BY <1>5 DEF Attach, Detach, clientVars
<1>6. CASE UNCHANGED vars
  BY <1>6 DEF vars, clientVars
<1> QED BY <1>1, <1>2, <1>3, <1>4, <1>5, <1>6 DEF Next

\* Telemetry that is refused, lost or half read costs no room state, for any units
\* and lengths; only a body that does not parse does (client.py:612-634, 664-670).
THEOREM TelemetryOptionalHolds == Spec => TelemetryOptional
<1>1. Init => SettleInv
  BY DEF Init, SettleInv
<1>2. SettleInv /\ [Next]_vars => [SnapshotKept]_vars
  BY StepOptional
<1>3. [SnapshotKept]_vars
        <=> [pc \notin {"idle", "rooms"} /\ pc' = "idle" /\ ~flags.reset
               => outcome' \in {"snapshot", "garbled"}]_vars
  BY DEF SnapshotKept
<1> QED BY <1>1, <1>2, <1>3, NextSettle, PTL DEF Spec, TelemetryOptional

------------------------------------------------------------------------------
(* The fan state                                                           *)

\* A checked unit of the rooms read first has its core values still to come, or
\* its fan state due, asked for or refused.
ServedInv ==
  /\ pc \in {"fan", "optional"} => ~flags.reset /\ todo.core = {}
  /\ pc = "optional" => todo.fan = {}
  /\ pc = "fan" /\ cur # NoSeq => cur.dev \in fanRead
  /\ pc \in Phases /\ ~flags.reset =>
       first \cap Checked \subseteq todo.core \cup todo.fan \cup fanRead \cup rejected.fan

\* No step but ReadRooms and the ends of phases turn to another list.
LEMMA RoomsServed ==
  ASSUME TypeInv, SettleInv, ServedInv, Rooms \/ Failures
  PROVE  ServedInv'
<1>0. \/ ReadRooms \/ ReadCoreRooms \/ FanDone \/ ReadSettleRooms
      \/ pc' = "idle"
  BY DEF Rooms, Failures, ReadFinalRooms, Settle, SettleTimeout, LoseRooms, LoseLaterRooms,
         GarbledRooms, TelemetryFails, Return, Raise, ClientDone
<1>1. CASE pc' = "idle"
  BY <1>1 DEF ServedInv, Phases
<1>2. CASE ReadRooms /\ pc' # "idle"
  <2>1. /\ pc' = "core" /\ cur' = cur /\ first' = attached
        /\ todo' = [NothingToDo EXCEPT !.core = attached \cap Supported]
    BY <1>2 DEF ReadRooms, Return, ClientDone
  <2>2. todo'.core = attached \cap Supported
    BY <2>1 DEF NothingToDo, Phases
  <2> QED BY <2>1, <2>2, UnitsAssumption DEF ServedInv
<1>3. CASE ReadCoreRooms
  BY <1>3 DEF ReadCoreRooms, ServedInv, Phases, memoryVars, historyVars
<1>4. CASE FanDone
  BY <1>4 DEF FanDone, ServedInv, Phases, memoryVars, historyVars
<1>5. CASE ReadSettleRooms
  BY <1>5 DEF ReadSettleRooms, ServedInv, Phases
<1> QED BY <1>0, <1>1, <1>2, <1>3, <1>4, <1>5

\* A unit leaves a list with its sequence asked for, and after its core values
\* its fan state is due.
LEMMA ConfirmedServed ==
  ASSUME TypeInv, ServedInv, RefusalInv, RequestConfirmed
  PROVE  ServedInv'
<1> PICK s \in Due :
      /\ NoteStart(s)
      /\ IF IsLast(s)
         THEN /\ cur' = NoSeq
              /\ IF pc = "core" THEN CoreDone(s.dev, s.kind)
                 ELSE todo' = [todo EXCEPT ![pc] = @ \ {s.dev}]
         ELSE /\ cur' = [s EXCEPT !.pos = @ + 1]
              /\ UNCHANGED todo
      /\ UNCHANGED <<pc, flags, first, rejected>>
  BY DEF RequestConfirmed
<1>1. s \in Sequences /\ pc \in Phases /\ (pc \in Extras => s.kind = pc)
  BY DueType, StartsNew
<1>2. todo \in [Phases -> SUBSET Devices] /\ fanRead \subseteq fanRead'
  BY DEF TypeInv, TypeOK, NoteStart
<1>3. pc = "fan" => s.dev \in fanRead'
  <2> SUFFICES ASSUME pc = "fan" PROVE s.dev \in fanRead'
    OBVIOUS
  <2>1. CASE cur # NoSeq
    BY <1>2, <2>1 DEF Due, ServedInv
  <2>2. CASE cur = NoSeq
    <3>1. s.pos = 0 /\ s.kind = "fan"
      BY <1>1, <2>2 DEF Due, Extras
    <3> QED BY <3>1 DEF NoteStart
  <2> QED BY <2>1, <2>2
<1>4. pc = "fan" /\ cur' # NoSeq => cur'.dev \in fanRead'
  <2> SUFFICES ASSUME pc = "fan", cur' # NoSeq PROVE cur'.dev \in fanRead'
    OBVIOUS
  <2>1. cur' = [s EXCEPT !.pos = @ + 1]
    OBVIOUS
  <2>2. cur'.dev = s.dev
    BY <1>1, <2>1 DEF Sequences
  <2> QED BY <1>3, <2>2
<1>5. CASE ~IsLast(s)
  BY <1>1, <1>2, <1>4, <1>5 DEF ServedInv
<1>6. CASE IsLast(s) /\ pc = "core"
  <2>1. CoreDone(s.dev, s.kind)
    BY <1>6
  <2>2. todo'.core = todo.core \ {s.dev} /\ todo.fan \subseteq todo'.fan
    BY <2>1 DEF CoreDone
  <2>3. ~flags.reset /\ s.dev \in Checked => s.dev \in todo'.fan \cup rejected.fan
    BY <2>1 DEF CoreDone
  <2> QED BY <1>1, <1>2, <1>6, <2>2, <2>3 DEF ServedInv
<1>7. CASE IsLast(s) /\ pc = "fan"
  <2>1. todo'.fan = todo.fan \ {s.dev} /\ todo'.core = todo.core
    BY <1>2, <1>7 DEF Phases
  <2> QED BY <1>1, <1>2, <1>3, <1>7, <2>1 DEF ServedInv
<1>8. CASE IsLast(s) /\ pc = "optional"
  <2>1. todo'.fan = todo.fan /\ todo'.core = todo.core
    BY <1>2, <1>8 DEF Phases
  <2> QED BY <1>1, <1>2, <1>8, <2>1 DEF ServedInv
<1> QED BY <1>1, <1>5, <1>6, <1>7, <1>8 DEF Phases

\* A snapshot that begins has no list, and one that ends needs none.
LEMMA NextServed ==
  TypeInv /\ SettleInv /\ RefusalInv /\ ServedInv /\ [Next]_vars => ServedInv'
<1> SUFFICES ASSUME TypeInv, SettleInv, RefusalInv, ServedInv, [Next]_vars PROVE ServedInv'
  OBVIOUS
<1>1. ASSUME NEW props \in BOOLEAN, NEW filters \in BOOLEAN, NEW reset \in BOOLEAN,
             Begin(props, filters, reset)
      PROVE  ServedInv'
  BY <1>1 DEF Begin, ServedInv, Phases
<1>2. CASE RequestRejected \/ RequestLost
  <2>1. pc' = "idle"
    BY <1>2 DEF RequestRejected, RequestLost, TelemetryFails, Return, Raise, ClientDone
  <2> QED BY <2>1 DEF ServedInv, Phases
<1>3. ASSUME NEW d \in Devices, Attach(d) \/ Detach(d)
      PROVE  ServedInv'
  BY <1>3 DEF Attach, Detach, clientVars, memoryVars, historyVars, ServedInv
<1>4. CASE UNCHANGED vars
  BY <1>4 DEF vars, clientVars, memoryVars, historyVars, ServedInv
<1> QED BY <1>1, <1>2, <1>3, <1>4, RoomsServed, ConfirmedServed DEF Next, Requests

\* When the fan phase is over, this snapshot has asked every checked unit of its
\* first rooms for the fan state, except for those that have refused it; no unit
\* is passed over because of another one (client.py:595-622).
FanStateComplete == pc = "optional" => first \cap Checked \subseteq fanRead \cup rejected.fan

\* For any number of units and lengths of sequences.
THEOREM FanStateCompleteHolds == Spec => []FanStateComplete
<1>1. Init => ServedInv /\ SettleInv
  BY DEF Init, ServedInv, SettleInv, Phases
<1>2. ServedInv => FanStateComplete
  BY DEF ServedInv, FanStateComplete, Phases
<1> QED BY <1>1, <1>2, InitType, NextType, InitRefusal, NextRefusal, NextSettle, NextServed,
           PTL DEF Spec
=============================================================================
