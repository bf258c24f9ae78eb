---------------------------- MODULE PropertyReads ----------------------------
(***************************************************************************)
(* How ConnectBoxClient.read_snapshot reads device telemetry: rooms, then  *)
(* one sequence of property requests per unit (the core values), then the  *)
(* fan-state and optional sequences of the checked units, then the rooms   *)
(* again for the values.  Units come and go at the gateway meanwhile; a    *)
(* request may be answered, refused, lost, or answered with a body that    *)
(* does not parse.  The client is one lifetime of ConnectBoxClient; it is  *)
(* used by one job at a time (module Coordinator).                         *)
(***************************************************************************)
EXTENDS Naturals, FiniteSets

CONSTANTS
  Devices,      \* units, told apart by (device id, product type, variant)
  Supported,    \* units of a supported product: core values are read
  Checked,      \* units of the checked profile: the extra sequences as well
  Stable,       \* units that never leave the gateway
  SpecCount,    \* number of requests in each kind of sequence
  MayReject,    \* pairs <<unit, kind>> of sequences the gateway may refuse
  Faults,       \* "lost": requests may fail; "garbled": a body may not parse
  NoSeq         \* no sequence in progress

Kinds == {"core", "full", "fan", "optional"}
Extras == {"fan", "optional"}

ASSUME UnitsAssumption ==
  /\ Checked \subseteq Supported /\ Supported \subseteq Devices
  /\ Stable \subseteq Devices
  /\ NoSeq \notin [dev : Devices, kind : Kinds, pos : Nat]
\* START opens a sequence and FINISH ends it, so one request is not enough.
ASSUME SpecAssumption == SpecCount \in [Kinds -> Nat] /\ \A k \in Kinds : SpecCount[k] >= 2
ASSUME EnvironmentAssumption ==
  MayReject \subseteq Devices \X Kinds /\ Faults \subseteq {"lost", "garbled"}

VARIABLES
  attached,   \* units the gateway knows
  conn,       \* the client holds a session
  gwSeq,      \* the property sequence open at the gateway for that session
  pc,         \* where read_snapshot is
  flags,      \* what this snapshot has to read
  first,      \* units in the first room state of this snapshot
  core,       \* units in the room state read after the core values
  todo,       \* units whose sequence of each kind is still to be requested
  extra,      \* some fan-state or optional sequence was due
  cur,        \* the sequence being requested
  fully,      \* _fully_requested_devices
  rejected,   \* _rejected_fan_state_devices and _rejected_optional_devices
  refused,    \* history: sequences the gateway has refused
  again,      \* history: refused sequences that were started once more
  fanRead,    \* history: units whose fan state this snapshot has requested
  optAsked,   \* history: units whose optional sequence was started while known
  outcome     \* history: how the latest snapshot ended

clientVars == <<conn, gwSeq, pc, flags, first, core, todo, extra, cur>>
memoryVars == <<fully, rejected>>
historyVars == <<refused, again, fanRead, optAsked, outcome>>
vars == <<attached, clientVars, memoryVars, historyVars>>

Flags == [props : BOOLEAN, filters : BOOLEAN, reset : BOOLEAN]
Phases == {"core", "fan", "optional"}
Sequences == {s \in [dev : Devices, kind : Kinds, pos : Nat] : s.pos < SpecCount[s.kind]}
NothingToDo == [p \in Phases |-> {}]

Init ==
  /\ attached \in {a \in SUBSET Devices : Stable \subseteq a}
  /\ conn = FALSE /\ gwSeq = NoSeq
  /\ pc = "idle" /\ flags = [props |-> FALSE, filters |-> FALSE, reset |-> FALSE]
  /\ first = {} /\ core = {} /\ todo = NothingToDo /\ extra = FALSE
  /\ cur = NoSeq
  /\ fully = {} /\ rejected = [k \in Extras |-> {}]
  /\ refused = {} /\ again = {} /\ fanRead = {} /\ optAsked = {}
  /\ outcome = "none"

------------------------------------------------------------------------------
(* The end of a snapshot                                                   *)

ClientDone == pc' = "idle" /\ cur' = NoSeq /\ todo' = NothingToDo

\* client.close: the gateway forgets a sequence left open in the session.
CloseSession == conn' = FALSE /\ gwSeq' = NoSeq
KeepSession == conn' = TRUE /\ UNCHANGED gwSeq

\* _remember_device_properties: units that are gone are forgotten.  known and
\* turnedDown are the memory to keep the present units of.
Remember(present, known, turnedDown) ==
  /\ fully' = known \cap present
  /\ rejected' = [k \in Extras |-> turnedDown[k] \cap present]
  /\ optAsked' = optAsked \cap present

\* A snapshot of the given room state is returned.
Return(present, turnedDown) ==
  /\ ClientDone
  /\ Remember(present, fully, turnedDown)
  /\ outcome' = "snapshot"

\* An exception leaves read_snapshot.
Raise(error) ==
  /\ ClientDone
  /\ outcome' = error
  /\ UNCHANGED <<memoryVars, optAsked>>

\* Mutant: A failure of the telemetry part fails the snapshot.
TelemetryFailsAlways == CloseSession /\ Raise("error")

\* A request of the telemetry part fails: only a filter reset must not go on.
\* Otherwise the room state read first is returned.
TelemetryFails ==
  /\ CloseSession
  /\ IF flags.reset THEN Raise("error") ELSE Return(first, rejected)

------------------------------------------------------------------------------
(* Reading rooms                                                           *)

\* read_snapshot begins: a poll with its refresh flags, a command's read-back,
\* or the verification of a filter reset.
Begin(props, filters, reset) ==
  /\ pc = "idle"
  /\ filters => props
  /\ reset => filters
  /\ pc' = "rooms"
  /\ flags' = [props |-> props, filters |-> filters, reset |-> reset]
  /\ first' = {} /\ core' = {} /\ extra' = FALSE
  /\ fanRead' = {}
  /\ UNCHANGED <<attached, conn, gwSeq, todo, cur, memoryVars, refused, again,
                 optAsked, outcome>>

\* Version, run state and rooms are read; a session is opened if need be.
ReadRooms ==
  /\ pc = "rooms"
  /\ KeepSession
  /\ first' = attached
  /\ IF flags.props /\ attached \cap Supported # {}
     THEN /\ pc' = "core"
          /\ todo' = [NothingToDo EXCEPT !.core = attached \cap Supported]
          /\ UNCHANGED <<cur, memoryVars, optAsked, outcome>>
     ELSE Return(attached, rejected)
  /\ UNCHANGED <<attached, flags, core, extra, refused, again, fanRead>>

LoseRooms ==
  /\ "lost" \in Faults /\ pc = "rooms"
  /\ CloseSession
  /\ Raise("error")
  /\ UNCHANGED <<attached, flags, first, core, extra, refused, again, fanRead>>

\* The core values have been requested: the rooms are read for them.
ReadCoreRooms ==
  /\ pc = "core" /\ cur = NoSeq /\ todo.core = {}
  /\ KeepSession
  /\ core' = attached
  /\ pc' = IF flags.reset THEN "settle" ELSE "fan"
  /\ extra' = (todo.fan \cup todo.optional # {})
  /\ UNCHANGED <<attached, flags, first, todo, cur, memoryVars, historyVars>>

FanDone ==
  /\ pc = "fan" /\ cur = NoSeq /\ todo.fan = {}
  /\ pc' = "optional"
  /\ UNCHANGED <<attached, conn, gwSeq, flags, first, core, todo, extra, cur,
                 memoryVars, historyVars>>

\* Every sequence has been requested: the rooms are read once more if any of
\* the extra sequences was.
ReadFinalRooms ==
  /\ pc = "optional" /\ cur = NoSeq /\ todo.optional = {}
  /\ KeepSession
  /\ Return(IF extra THEN attached ELSE core, rejected)
  /\ UNCHANGED <<attached, flags, first, core, extra, refused, again, fanRead>>

\* A filter reset waits until the rooms show the expected runtime ...
Settle ==
  /\ pc = "settle"
  /\ KeepSession
  /\ Return(core, rejected)
  /\ UNCHANGED <<attached, flags, first, core, extra, refused, again, fanRead>>

\* ... reads them again ...
ReadSettleRooms ==
  /\ pc = "settle"
  /\ KeepSession
  /\ core' = attached
  /\ UNCHANGED <<attached, pc, flags, first, todo, extra, cur, memoryVars,
                 historyVars>>

\* ... or gives up at the deadline.
SettleTimeout ==
  /\ pc = "settle"
  /\ CloseSession
  /\ Raise("error")
  /\ UNCHANGED <<attached, flags, first, core, extra, refused, again, fanRead>>

RoomsDue ==
  \/ pc = "core" /\ cur = NoSeq /\ todo.core = {}
  \/ pc = "optional" /\ cur = NoSeq /\ todo.optional = {} /\ extra
  \/ pc = "settle"

LoseLaterRooms ==
  /\ "lost" \in Faults /\ RoomsDue
  /\ TelemetryFails
  /\ UNCHANGED <<attached, flags, first, core, extra, refused, again, fanRead>>

\* decode_rooms raises ProtobufDecodeError, which nothing on the way handles.
GarbledRooms ==
  /\ "garbled" \in Faults /\ (pc = "rooms" \/ RoomsDue)
  /\ KeepSession
  /\ Raise("garbled")
  /\ UNCHANGED <<attached, flags, first, core, extra, refused, again, fanRead>>

------------------------------------------------------------------------------
(* Requesting the sequences                                                *)

\* The core sequence leaves out the filter values of a unit that has been
\* read fully, except when they are due.
KindFor(d) ==
  IF pc # "core" THEN pc
  ELSE IF flags.filters \/ d \notin fully THEN "full" ELSE "core"

\* The next request: the sequence under way, or the first of one that is due.
Due ==
  IF pc \notin Phases THEN {}
  ELSE IF cur # NoSeq THEN {cur}
  ELSE {[dev |-> d, kind |-> KindFor(d), pos |-> 0] : d \in todo[pc]}

\* Mutant: FINISH is sent one request too late.
IsLastTooLate(s) == s.pos = SpecCount[s.kind]

IsLast(s) == s.pos + 1 = SpecCount[s.kind]

\* Mutant: The fan state is due with the filter values only.
CoreDoneFanWhenFull(d, kind) ==
  LET extras == ~flags.reset /\ d \in Checked /\ kind = "full"
  IN  /\ todo' = [core     |-> todo.core \ {d},
                  fan      |-> todo.fan \cup (IF extras /\ d \notin rejected.fan THEN {d} ELSE {}),
                  optional |-> todo.optional \cup
                                 (IF extras /\ d \notin rejected.optional THEN {d} ELSE {})]
      /\ fully' = IF kind = "full" THEN fully \cup {d} ELSE fully

\* The unit's core values are requested: what follows for it, and that it has
\* been read fully.
CoreDone(d, kind) ==
  LET extras == ~flags.reset /\ d \in Checked
  IN  /\ todo' = [core     |-> todo.core \ {d},
                  fan      |-> todo.fan \cup
                                 (IF extras /\ d \notin rejected.fan THEN {d} ELSE {}),
                  optional |-> todo.optional \cup
                                 (IF extras /\ kind = "full" /\ d \notin rejected.optional
                                  THEN {d} ELSE {})]
      /\ fully' = IF kind = "full" THEN fully \cup {d} ELSE fully

\* History of a sequence being started.
NoteStart(s) ==
  LET starts == s.pos = 0
  IN  /\ again' = IF starts /\ <<s.dev, s.kind>> \in refused
                  THEN again \cup {<<s.dev, s.kind>>} ELSE again
      /\ fanRead' = IF starts /\ s.kind = "fan" THEN fanRead \cup {s.dev} ELSE fanRead

NoteOptional(s) ==
  optAsked' = IF s.kind = "optional" THEN optAsked \cup {s.dev} ELSE optAsked

\* A request is confirmed; the one with FINISH ends the sequence.
RequestConfirmed ==
  \E s \in Due :
    LET next == [s EXCEPT !.pos = @ + 1]
    IN  /\ conn' = TRUE
        /\ NoteStart(s) /\ NoteOptional(s)
        /\ IF IsLast(s)
           THEN /\ gwSeq' = NoSeq /\ cur' = NoSeq
                /\ IF pc = "core" THEN CoreDone(s.dev, s.kind)
                   ELSE todo' = [todo EXCEPT ![pc] = @ \ {s.dev}] /\ UNCHANGED fully
           ELSE gwSeq' = next /\ cur' = next /\ UNCHANGED <<todo, fully>>
        /\ UNCHANGED <<attached, pc, flags, first, core, extra, rejected, refused,
                       outcome>>

\* Mutant: The session is kept after a refusal.
RequestRejectedKeepingSession ==
  \E s \in Due :
    /\ <<s.dev, s.kind>> \in MayReject
    /\ NoteStart(s)
    /\ refused' = refused \cup {<<s.dev, s.kind>>}
    /\ KeepSession
    /\ IF pc = "core" THEN Return(first, rejected)
       ELSE Return(core, [rejected EXCEPT ![pc] = @ \cup {s.dev}])
    /\ UNCHANGED <<attached, flags, first, core, extra>>

\* Mutant: A refusal is not remembered.
RequestRejectedForgotten ==
  \E s \in Due :
    /\ <<s.dev, s.kind>> \in MayReject
    /\ NoteStart(s)
    /\ refused' = refused \cup {<<s.dev, s.kind>>}
    /\ IF pc = "core" THEN TelemetryFails ELSE CloseSession /\ Return(core, rejected)
    /\ UNCHANGED <<attached, flags, first, core, extra>>

\* The gateway refuses a request and the sequence stays open there: the client
\* closes the session.  A refused core sequence ends the telemetry part; a
\* refused extra one is not asked for again and ends the snapshot with the
\* core values.
RequestRejected ==
  \E s \in Due :
    /\ <<s.dev, s.kind>> \in MayReject
    /\ NoteStart(s)
    /\ refused' = refused \cup {<<s.dev, s.kind>>}
    /\ IF pc = "core" THEN TelemetryFails
       ELSE CloseSession /\ Return(core, [rejected EXCEPT ![pc] = @ \cup {s.dev}])
    /\ UNCHANGED <<attached, flags, first, core, extra>>

\* No answer arrives.
RequestLost ==
  \E s \in Due :
    /\ "lost" \in Faults
    /\ NoteStart(s)
    /\ TelemetryFails
    /\ UNCHANGED <<attached, flags, first, core, extra, refused>>

------------------------------------------------------------------------------
(* The gateway                                                             *)

Attach(d) ==
  /\ d \notin attached
  /\ attached' = attached \cup {d}
  /\ UNCHANGED <<clientVars, memoryVars, historyVars>>

Detach(d) ==
  /\ d \in attached \ Stable
  /\ attached' = attached \ {d}
  /\ UNCHANGED <<clientVars, memoryVars, historyVars>>

Rooms == ReadRooms \/ ReadCoreRooms \/ FanDone \/ ReadFinalRooms \/ Settle
         \/ ReadSettleRooms \/ SettleTimeout
Failures == LoseRooms \/ LoseLaterRooms \/ GarbledRooms
Requests == RequestConfirmed \/ RequestRejected \/ RequestLost

Next ==
  \/ \E props, filters, reset \in BOOLEAN : Begin(props, filters, reset)
  \/ Rooms \/ Failures \/ Requests
  \/ \E d \in Devices : Attach(d) \/ Detach(d)

Spec == Init /\ [][Next]_vars

\* The executor thread that reads a snapshot runs to its end; the waiting for
\* a reset runtime has a deadline; and the coordinator's telemetry timer makes
\* a poll due again and again, between any number of other calls.
FairSpec ==
  /\ Spec
  /\ WF_vars(Requests \/ ReadRooms \/ ReadCoreRooms \/ FanDone \/ ReadFinalRooms)
  /\ WF_vars(SettleTimeout)
  /\ SF_vars(Begin(TRUE, FALSE, FALSE))

------------------------------------------------------------------------------
(* Properties                                                              *)

\* The client is always in one of the steps of read_snapshot, with units and
\* sequences that exist; the memory of refused sequences holds units only.
TypeOK ==
  /\ attached \in SUBSET Devices
  /\ conn \in BOOLEAN
  /\ gwSeq \in Sequences \cup {NoSeq}
  /\ pc \in Phases \cup {"idle", "rooms", "settle"}
  /\ flags \in Flags
  /\ first \in SUBSET Devices /\ core \in SUBSET Devices
  /\ todo \in [Phases -> SUBSET Devices]
  /\ extra \in BOOLEAN
  /\ cur \in Sequences \cup {NoSeq}
  /\ fully \in SUBSET Devices
  /\ rejected \in [Extras -> SUBSET Devices]
  /\ refused \in SUBSET (Devices \X Kinds)
  /\ again \in SUBSET (Devices \X Kinds)
  /\ fanRead \in SUBSET Devices /\ optAsked \in SUBSET Devices
  /\ outcome \in {"none", "snapshot", "error", "garbled"}

\* The gateway and the client always agree on the sequence under way: no
\* sequence is left open there when the client turns to another sequence, to
\* the rooms, or to the next snapshot (client.py:628-634: "A rejected sequence
\* may remain open on the gateway").
SequenceDiscipline ==
  /\ gwSeq = cur
  /\ gwSeq # NoSeq => conn /\ pc \in Phases

\* A unit that never leaves and has refused its fan-state or optional sequence
\* is not asked for that sequence again, whatever other units do
\* (client.py:595,603,618,631).
NoRetryWhileAttached == again \cap (Stable \X Extras) = {}

\* Once the rooms have been read, telemetry that is refused, lost or only
\* partly read costs no room state: the snapshot is returned, unless it
\* verifies a filter reset or a body does not parse (client.py:664-670).
TelemetryOptional ==
  [][pc \notin {"idle", "rooms"} /\ pc' = "idle" /\ ~flags.reset
       => outcome' \in {"snapshot", "garbled"}]_vars

\* A request goes wrong, a core sequence is refused, or a unit leaves.
Disturbance ==
  \/ Failures \/ RequestLost
  \/ RequestRejected /\ pc = "core"
  \/ \E d \in Devices : Detach(d)

\* Once core sequences are answered and no unit leaves, a checked unit that stays
\* has its fan state requested again and again, or has refused it itself: another
\* unit's refusal only delays it (client.py:612-622).
FanStateServed ==
  <>[][~Disturbance]_vars =>
    \A d \in Stable \cap Checked : []<>(d \in fanRead \/ d \in rejected.fan)

\* A unit that counts as read fully has been asked for its optional settings,
\* or has refused them (CHANGELOG.md:76-77, "Read all properties when a
\* ventilation unit is newly discovered or returns after an absence").
AllPropertiesRead ==
  pc = "idle" => fully \cap Checked \subseteq optAsked \cup rejected.optional
=============================================================================
