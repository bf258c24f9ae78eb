# Zehnder ConnectBox integration: specifications and proofs

TLA+ models of the Home Assistant integration under
`src/custom_components/zehnder_connectbox/`, the TLC configurations that check
them on small instances, and TLAPS proofs of their safety properties for every value of the constants.
File names below are relative to that directory; `README.md:n` and
`CHANGELOG.md:n` are the repository's own.

## 1. The system

A ConnectBox is a gateway in front of ventilation units. The integration holds
one TLS session to it, polls a snapshot every ten seconds, and writes commands.

| part | state it keeps | operations | hard parts |
|---|---|---|---|
| entry lifecycle `__init__.py` | runtime data of the entry | setup with first refresh, unload, reload | unload while calls wait |
| coordinator `coordinator.py` | `_io_lock`, `data`, `_failures`, `update_interval`, `_last_non_off_mode`, refresh stamps | scheduled poll, `async_set_level/situation/mode/power/summer_*`, filter reset, close | many asyncio tasks, one lock, executor threads that outlive a cancelled task, back-off, state read before the wait |
| client `client.py` | session, `_fully_requested_devices`, refused sequences, `_property_cache` | `read_snapshot`, `set_*`, `reset_filter_timer`, `close` | sequences left open after a refusal, values listed as empty, read-modify-write over several requests, waits with deadlines |
| session `session.py` | reference counter, read buffer | `request` | correlation, framing, late and repeated answers, wrap-around |
| transport, wire `transport.py`, `protocol.py`, `protobuf.py` | socket | connect, read, write, encode, decode | malformed bodies (`ProtobufDecodeError` is no client error) |
| profiles, models `profiles.py`, `models.py` | none | which sequences which unit gets; records | - |
| entities `fan.py`, `switch.py`, `select.py`, `number.py`, `button.py`, `sensor.py`, `binary_sensor.py`, `entity.py` | the ids and readings they have entities for | services, projections, listeners that add entities | a fan call with two lock sections; decisions from a published snapshot that may be stale; units and readings that appear in any order |
| config flow, discovery `config_flow.py`, `discovery.py` | flow, pairing task, entries | discovery, confirm, pair, retry, reconfigure | several flows, a pairing thread that goes on after the dialog is closed |
| diagnostics, constants, translations | none | - | - |

Interactions: entities call the coordinator; the coordinator runs the
synchronous client in executor threads under `_io_lock`; the client opens a
session over the transport; sequences, run state and rooms are separate requests
between which the official app, the units' panels and the radio change the
gateway. The config flow uses a client of its own and writes the entry.

What makes each part correct: one job in the session at a time; snapshots that
never go back; what a command changed on display in the end, at once where the
command verifies it; every task ends; outages are reported and end; polling goes on as long as the entry is loaded; no
session after an unload (coordinator). Client
and gateway agree on the open sequence; a refusal is remembered and costs
neither the room state nor another unit's values (reads). No value of another
unit, none older than the last, none lost while the gateway lists it as empty
(cache). A request ends, with what the gateway has decided on it (session). Success means effect, what
is rewritten is what is there, and what an entity offers is not refused
(commands). Every reading has its entity (entities). An entry is
created once for an application its gateway has registered, keeps it, and has an
address of its own (flow).

## 2. Modules

| module | models | state and actions |
|---|---|---|
| `Coordinator` | `coordinator.py`, the entry lifecycle, the lock sections of `fan.py` and `switch.py` | A task has a *plan*, the lock sections it still has to pass. `Acquire` is the FIFO asyncio lock; `Write`, `Read`, `Fail`, `Garble` are the steps of the executor job; a write is confirmed, then `due` until `TakeUp`, which may come after the call has returned, or never; `PollSucceeds` ... `CommandFails` are the event loop resuming the task, everything up to the next await in one step; `Cancel` and `OrphanEnds` are a cancelled call and its thread; `Outage`, `GatewayChange`, `Restart`, `Reload`, `Unload` the environment. |
| `PropertyReads` | `read_snapshot` with its property sequences, the settle loop of a filter reset, the memory of units | One action per reading of rooms and per outcome of a request: confirmed, refused, lost, unparsable. `gwSeq` is the gateway's view of the sequence, `cur` the client's. |
| `TelemetryCache` | `_remember_device_properties`, `_restore_device_properties`, the entry dropped by `reset_filter_timer` | A value is the number of the report it came from, so age and origin can be told. Units are exchanged, values listed as empty, snapshots fail at any point. |
| `Session` | `session.py:request`, `_read_frame` | Frames as two pieces that arrive in chunks of any size; repeated, unasked and foreign frames. |
| `RoomLevels` | `set_level`, `set_situation` with their waiting loops, `reset_filter_timer` with its two writes | One action per request, interleaved with the app, a panel, a removed room, other units' alarms. `seen` is what was read first, `mine` the levels that commands have verified. `dueValues`, `dueSituation`, `dueRuntime` are writes confirmed and not in effect: they take effect later, are replaced by the next write, or stay due. A reset writes the room back (`TakeRoom`), then the runtime, and waits for it. |
| `Summer` | `set_summer_ventilation`, `set_summer_configuration`, the availability of the entities that call them | The same for the summer function. `Offered` is what the entities allow from the snapshot they show, a switch turned to where it is already included (`lit`). |
| `Entities` (EXTENDS `TelemetryCache`) | the listeners of `fan.py`, `sensor.py`, `binary_sensor.py`, `button.py` and the press of a reset button | `Publish` is a returned snapshot with every listener run on it; `Press` starts a reset from what the published snapshot shows. |
| `SnapshotStore` | nothing of the code by itself: what the coordinator promises the entities | Numbered states of the gateway (`world`), the one in view, clients that take turns. A turn shows a state from its own time, with its own change if that was applied in the turn, or nothing. |
| `Exchange` | what a session promises its user | One request at a time, the gateway's decision on it, and how it ended: with that decision or with a failure. No frames, references or connections. |
| `Registry` | what the config flows promise | The life of each gateway: registered applications, the one somebody waits for, the entry with its identity and address. No dialogs, scans or threads. |
| `ConfigFlow` | `config_flow.py`, `discovery.py` | Flows, their forms and pairing threads, gateways that move. |
| `MC*` | - | values of constants for TLC, symmetry |
| `*Proofs` | - | the theorems of the module they are named after; `TelemetryCacheProofs` has those of `Entities` too |

`Coordinator` treats a client job as one write and one read; the other client
modules open up what happens inside such a job, and may assume that jobs do not
overlap because `Coordinator` shows it (`OneJobAtATime`). `PropertyReads` leaves
the values to `TelemetryCache`, whose `ReadRooms` stands for any of its readings.

Three modules implement an abstract one, and one is composed with another. `Coordinator` implements `SnapshotStore`:
`Store` maps a state to its version, the view to the published snapshot, a turn
to one section of `_io_lock`; `floor` is the history variable that says how old
what the section publishes may be, and a step of an executor job, a queue or a
timer is a stutter. `Session` implements `Exchange`: a request is decided when it
is no longer pending, as the latest answer says, and a request that ends has to
end with that decision or fail; reads, repetitions and unasked frames are
stutters. `ConfigFlow` implements `Registry`: an application is awaited while an
open flow has paired it and not yet created the entry; forms, scans and claims
are stutters. `Entities` runs the cache and the listeners together:
`EntitySpec` implies `TelemetryCache!Spec`, so the cache is checked and proved
once and used in both.

Abstractions a reader should know:

- Home Assistant calls no service of an unavailable entity (`Call` needs
  `lastOk`), and the refresh timer is set again only while entities listen.
- The back-off's jitter of up to two seconds is left out. `MaxFailures` caps the
  counter; where the overflow of `2 ** (failures - 1)` is not the subject the
  intervals saturate long before it.
- Sequences of two and three requests stand for the real three to thirteen:
  first, middle and last request are what the code tells apart. The order of
  units is arbitrary.
- A cached value that is missing and one that is listed as empty are both
  `NoValue`; one unit per id at a time.
- `MaxRef` stands for 2^32 - 1. The gateway repeats only its latest answer;
  frames nobody asked for have a type no request expects.
- A confirmed write may take effect at once, later or never, also after its
  command has ended and in an order other than that of the commands (`TakeUp` of
  `Coordinator`; `LevelsTakenUp`, `SituationTakenUp` and `RuntimeTakenUp` of
  `RoomLevels`). `SummerApplied` does so while the command waits. One whose
  confirmation is lost may take effect as well (`WriteLost`). Where a write
  replaces the same message of an earlier one (`RoomLevels`), the earlier one is
  no longer due.
- A level command in `Coordinator` may return a snapshot without its level. That
  is so for the active level; the level of another situation is verified by the
  client, which is `RoomLevels`' part.
- A level set at a panel is what the units run at; the room's configured level
  follows later or not at all (`RoomFollowsPanel`, `models.py:193-196`). A
  situation without a configured level has `NoLevel`.
- Location "home" selects one of the situations at home; which one, the gateway
  decides. In `Summer`, where the location written is the one that was read,
  whoever is at home stays awake or asleep; `RoomLevels`, where a situation is
  selected, allows any of them (`Located`).
- A filter reset is verified by any runtime listed for the device id in the rooms
  read after the write (`Verified`), also by one that was zero before.
- The gateway may take the echoed levels of a filter acknowledgement on, or keep
  its own (`TakeRoom`): the repository does not say which. A command is about
  one room.
- In `Entities` a unit's profile stands for its product type and variant, and
  `CheckedProps` for the values that `profiles.py` reads for one profile only.
  The snapshot a command is offered from (`Summer`) is the gateway's state at
  the call; a change after that makes it stale.
- In `Summer` a duration outside 1..24 and a missing one are the same.
- In `ConfigFlow` Home Assistant's exclusion by unique id is modelled from how
  the flow uses it; typed hosts are unicast addresses; an invalid pairing name
  only shows the same form again.

## 3. Runs

| run | instance | what it shows |
|---|---|---|
| `coordinator_safety` | 2 polls, 2 calls, unload; 1 app change, outages, malformed bodies; failure limit 1 so the overflow branch is taken | `OneJobAtATime`, `UnloadCloses` (calls with one lock section), `PollingFollowsLife`, `ImplementsStore` |
| `coordinator_live` | 1 poll, 2 fan calls one after the other, which may be cancelled, unload, restart, outages; the real overflow limit | `EveryTaskEnds`, `Recovery`, `DeadGatewayReported`, `EntitiesCatchUp` |
| `reads` | 2 units, one may leave; one unit refuses each kind of sequence, the other its fan state; lost and unparsable answers | `SequenceDiscipline`, `NoRetryWhileAttached`, `TelemetryOptional`, `FanStateServed` |
| `cache` | `EntitySpec`: 1 id, 2 supported profiles of which one is the checked one, 2 properties of which one is read for it only, 4 reports, resets | `NoCrossProfile`, `NothingFromBefore`, `NeverOlder`, `NoDropout`, `ResetForgets`, `ReadingsHaveEntities` |
| `session` | 4 requests with references up to 3, so that they start over; 2 extra frames | `ImplementsExchange`, `AnswerAhead`, `RequestEnds` |
| `levels` | 2 situations, one of them at home, 3 levels of which one is not supported, 2 units of which one may be reset, 2 commands, 1 change by others beside late uptake | `Effective`, `VerifiedLevelsKept`, `OtherAlarmsKept` |
| `summer` | 2 durations, 1 command, 1 change by the app | `Effective`, `Stoppable`, `OfferedAccepted`, `RunStateKept`, `OtherSettingKept` |
| `flow` | 2 gateways, 2 addresses, 2 flows, 2 pairings, 1 move | `OwnAddress`, `OnePairing`, `IdentityKept`, `ImplementsRegistry` |
| `coordinator_leak` | violates `UnloadCloses` | see section 6 |
| `coordinator_stale_mode` | violates `PowerOnRestores` | see section 6 |
| `reads_all` | violates `AllPropertiesRead` | see section 6 |
| `summer_reverted` | violates `ChangeReported` | see section 6 |

Every module's `TypeOK` is an invariant of its first run above.

Why the bounds are enough. Mutual exclusion and order need two tasks of each
kind and one in the queue behind them; each scenario of a stale snapshot needs
one change between two reads, and versions grow by one per change. For a refused
sequence one unit must suffer from another: two units. A cache entry must be
written, replaced and compared, which takes three reports, one more for a value
listed again after a reset; crossing needs two profiles under one id, and so do
sensors that come with the second unit under an id. A reference must start over once while its older use
may still be answered: four requests, three references. A lost update needs one
command and one change between its reading and its write; an alarm is lost only
if it is raised after the room was read, and a second unit raises it. A
verified level is endangered by one other command, before it (its write still
due) or after it: two commands, two situations. The
initial states of `Summer` are all states of the gateway, so one command sees
whatever an earlier one left there, except an interval that is still to be taken
up when the command ends; such an interval counts as started by the app
(`AppToggles`). What is due in `RoomLevels` and `Coordinator` outlives its
command. In `coordinator_live` two calls are enough for one to be cancelled or to
take effect while the other is under way, and one active mode beside standby for a wake.

Symmetry is used where tasks, gateways, hosts or flows are interchangeable and
only safety is checked (`coordinator_safety`, the coordinator's violations, `flow`).
`CHECK_DEADLOCK FALSE` stands where the bound on commands or requests ends the
behaviour (`session`, `levels`, `summer`, `summer_reverted`).

### Fairness

- `Coordinator.FairSpec`: weak fairness of `FirstRefresh` and `PollDue` (timers
  fire), of `Acquire` (the asyncio lock wakes its first waiter), of `Job` (every
  executor job ends, at the latest by the transport's time-outs and the waiting
  loops' deadlines), of `Resume` and `Close` (the event loop runs ready tasks).
  Nothing is assumed of the app, the network, the user or of the gateway's taking
  writes up; `Recovery`, `DeadGatewayReported` and `EntitiesCatchUp` have the
  network's state as their premise.
- `PropertyReads.FairSpec`: weak fairness of the thread's steps and of the
  deadline; strong fairness of a telemetry poll, because the coordinator's
  refresh timer makes one due again between any number of other calls.
- `Session.FairSpec`: weak fairness of reading, which ends with a time-out if
  nothing arrives, and of handling a whole frame. The gateway need not answer.

## 4. Proofs

`tlapm` checks every theorem for all values of the constants, under the named
assumptions of the modules (tasks are distinct, OFF is not an active mode,
sequences have at least two requests, and the like), which TLC evaluates in the
passing runs.

- `CoordinatorProofs`. `TypeInv` adds to `TypeOK` what makes it inductive:
  `PlansPending` (a task that is not idle has a section left), `QueueInv` (the
  queue holds waiting tasks, each once) and `CloserIdle` (no unload has begun
  while the entry is set up or loaded). `LockInv` ties stages to the lock: a
  task that runs a job and was not cancelled is the holder. Hence `LockExcludes`,
  and with `Cancellable = {}` no orphan exists and `SessionExclusive` is
  `OneJobAtATime`. `FreshInv` orders versions: what is published
  is no newer than the gateway; what a task that was not cancelled has
  read is no newer either, and no older than what is
  published. It is inductive because only the holder publishes, and nothing is
  published between its reading and its resumption. It gives `NeverOlderHolds`,
  with cancellations, orphans and restarts.
  `UnloadClosesHolds` assumes what the run assumes, that no task is cancelled and
  that no service takes the lock twice; without either it is false (section 6).
  `CloseInv` says that once the unload has begun nothing can queue behind it, so
  the task that closes the session is the last one in the queue and leaves it
  empty.
  `CoordinatorImplementsStore`: with the invariants above and `FloorInv` (what
  the holder has read is no older than the store's floor) every step is one of
  the store or leaves its variables alone. `Acquire` begins a turn, the
  resumption shows or gives up. A write that is taken up while its task has the
  turn and has not read yet is an `Apply`, any other a `Change`: late, of an
  orphan, of a call that has returned.
  `NobodyStrandedHolds`: a waiting task is in the queue, and the holder of the
  lock has a job under way and was not cancelled, so somebody is always there to
  give it back. `PollingFollowsLifeHolds`: the timer is set or a poll is under
  way while the entry is loaded, whichever way polls and calls end, the exception
  nobody handles included, and neither after the unload; it needs that a poll in
  the queue is ahead of the task that closes the session (`PollInv`).
  `BackoffHolds`: the pace is the one the number of failures calls for
  (`BackoffHeld`); it takes bounds on failures and on the exponent of at least
  six, which the code's have, because from there on the pace no longer changes.
  These three are what the run's liveness properties need beside fairness.
- `PropertyReadsProofs`. `TypeInv` (types, and a sequence is under way in its
  phases only) makes `SequenceDiscipline` inductive. `NoRetryHolds` rests on
  `RefusalInv`: `KnownInv` says that the room states read so far show every unit
  that stays, that what such a unit has refused is in the client's memory, and
  that nothing in that memory is due; `CurInv` that the sequence under way is
  one that is due in its phase. `TelemetryOptionalHolds` needs only that the settle loop
  belongs to a reset (`SettleInv`). `FanStateCompleteHolds` is what
  `FanStateServed` needs beside fairness: a reading that gets past the fan states
  has asked every checked unit of its first rooms for its own, or that unit has
  refused (`ServedInv`: at any time it still has its core values to come, its fan
  state due, asked for or refused).
- `SnapshotStoreProofs`. `ForwardHolds`: whoever takes turns, the view never goes
  back, from the order view, floor, world (`BehindInv`). Every implementation of
  the store inherits it.
- `TelemetryCacheProofs`. `FreshInv` has four parts: nothing is newer than the
  clock, every value is kept for the unit it came from, every value is from
  after the latest snapshot without its unit, and values are ordered listed,
  read, cached, shown. They give `NoCrossProfileHolds`,
  `NothingFromBeforeHolds` and `NeverOlderHolds`. `KeptInv` (the cache holds
  what was shown, unless a reset dropped it) gives `NoDropoutHolds`;
  `OutdatedInv` (nothing from before a drop is cached or shown of its unit unless
  it has been listed since) gives `ResetForgetsHolds`. `EntitiesUseCache` shows
  that `EntitySpec` implies the cache's `Spec`; `ReadingsHaveEntitiesHolds` is
  inductive over `Publish`, the only step that changes what is shown.
- `SessionProofs`. `Line` is the buffer followed by what is under way. `ShapeInv`
  says that it consists of whole frames; `OrderInv` that each is noise, current
  or, while a request waits, stale, and that stale answers come before current
  ones; `AnswerInv` that the request waited for is either pending, with no answer
  to it on the line, or answered. A stale answer bears another reference because
  at most the answers to two successive requests are on the line, and successive
  references differ. This is why references may start over: it takes a width of
  at least two and gives `CorrelatedHolds` and `AnswerAheadHolds`.
  `SessionImplementsExchange` adds `OneAnswer`, that all current answers on the
  line are the latest one, so the frame that ends a request says what the gateway
  has decided. `RequestBoundedHolds` counts what is pending, under way and in the
  buffer (`Ahead`): a step that does not end the request lowers the count, so
  with fairness, which stays with TLC (`RequestEnds`), it ends.
- `RoomLevelsProofs`. `HeldInv` says in which steps the effect has been in place,
  so that each way to end well implies `Effective`, the unverified active level
  apart. `KeptInv` says that whatever is configured, due or about to be written
  agrees with every verified level (`Agrees`), and that what is due while a
  configured level is awaited holds that level; it gives
  `VerifiedLevelsKeptHolds`.
- `SummerProofs`. `ReadInv` and `HeldInv` do the same for the summer commands.
  `OfferInv` carries what the entity has shown from the call to each of the
  client's checks while the app changes nothing, and gives
  `OfferedAcceptedHolds`; `StoppableHolds` and the two action properties follow
  from `ReadInv`.
- `ConfigFlowProofs`. `ClaimInv` (a claimed gateway is not configured and claimed
  by one flow only) and `JobInv` (a flow has at most one pairing, of the gateway
  it has claimed) carry `OnePairing`, `EntriesPaired` and `IdentityKept`;
  `PlacesInv` and `VerifyInv` (a changed address is verified at that address
  only) carry `OwnAddress`. `FlowsImplementRegistry` takes these and `FreshInv`:
  every pairing proposes an application of its own, which no gateway knows while
  the pairing is under way. A pairing registers, `CreateEntry` creates, every
  other way out of the pairing steps gives up, a scan and a reconfiguration
  readdress. Two open flows never wait for one gateway (`OnePairing`), so nothing
  awaited is replaced.

Every safety property a passing run checks is proved, `OneJobAtATime` and
`UnloadCloses` under the assumptions named above, and so is each of the three
refinements. Some theorems state what no run lists, because a listed property
says more or because they are the safety core of a liveness property:
`LockExcludes`, `NeverOlderHolds` (of the coordinator), `CorrelatedHolds`,
`EntriesPairedHolds`, `NobodyStrandedHolds`, `BackoffHolds`,
`FanStateCompleteHolds`, `RequestBoundedHolds`. Only model-checked is every
liveness property (`EveryTaskEnds`, `Recovery`, `DeadGatewayReported`,
`EntitiesCatchUp`, `FanStateServed`, `RequestEnds`): fairness and `ENABLED` are beyond the prover.

## 5. Not modelled

Diagnostics are a redacted view of one snapshot, translations and manifests are
data. The TLS handshake is library code. Varints, field encoding, scaling and
plausibility of values are pure functions of one value, modelled by their
outcomes only. The refresh stamps of the coordinator choose from the clock which
flags a poll has; `PropertyReads` allows any choice, which includes theirs. The
device registry entries are write-only. The option lists of selects and presets
name levels and situations, which are the models' values; the listeners of
selects and numbers have the form of the one `Entities` models for sensors: what
is known by id and key stays, what is listed and not known is added. The operations a platform forwards
to the coordinator without a decision of its own are the coordinator's.

## 6. Observed

Disagreements between the code and what the repository says of it. The first
four have runs.

1. `coordinator_leak`: a fan call that wakes the system takes the lock twice. If
   `async_close` gets in between, the level command reconnects (`client.py:514-525`)
   and the unloaded entry leaves a session open (`__init__.py:52`).
2. `coordinator_stale_mode`: `async_set_power` reads the remembered mode before it
   waits for the lock (`coordinator.py:151`), so it may not restore "the most
   recently verified active mode" (`switch.py:76`).
3. `reads_all`: a unit counts as read fully before its optional sequence was
   requested (`client.py:603`; CHANGELOG.md:76-77).
4. `summer_reverted`: a change of the mode by the app before the write is undone
   and, because the comparison uses the old reading, not reported
   (`client.py:232`, 245).

Further behaviours, which no listed run isolates:

- Cancelling a service call frees the lock while its thread still uses the
  session; with `Cancellable` not empty `OneJobAtATime` fails
  (`coordinator.py:105`).
- `_async_wake_system` decides before any lock (`fan.py:163`), so a level may be
  written in standby.
- After a restart in standby, power-on selects MANUAL (`coordinator.py:56`;
  README.md:82).
- A command that succeeds while polling backs off makes the entities available,
  with the next poll up to 300 seconds away (`coordinator.py:186`; README.md:67).
- A unit that leaves and returns is asked again for a sequence it refused
  (`client.py:712`; `profiles.py:152-153` says not until a reload).
- A filter reset drops the whole cache entry of its unit (`client.py:495`;
  CHANGELOG.md:88-89): `NoDropout` excepts it.
- A level the app sets between the rooms being read and the write is overwritten
  (`client.py:362`), one that the room takes over from a panel as well, and a
  setting likewise (`client.py:291`): `VerifiedLevelsKept` is about what commands
  have verified, `OtherSettingKept` excepts changes by the app. The active
  situation may have changed between its reading and the write (`client.py:352`).
- The level of the active situation and the run mode are returned without a look
  at the gateway's state after the wait (`client.py:425-428`, 178-187), although
  `coordinator.py:104` says "Set and confirm a room level": the snapshot may still
  show the old state, and a later write may replace one that is still due.
  `Effective` excepts the level; `EntitiesCatchUp` says what holds of both, that
  whatever takes effect is on display in the end.
- After a filter reset an old remaining time or alarm limit that the gateway still
  lists is shown; only the runtime is written and awaited (`client.py:489-494`).
  `ResetForgets` is about cached values.
- A pairing answer that does not parse ends the flow in an exception
  (`config_flow.py:172`; :194 promises a retry).
- The switch of the summer function is offered when the reported duration is
  missing or out of range (`switch.py:169-178`), but the client refuses to write
  it then (`client.py:282-285`). The interval's switch stays available while it is
  on (`switch.py:115`), but turning it on once more is refused when the function
  is disabled or the interval has no end (`client.py:201-202`, 218-219).
  `OfferedAccepted` excepts both cases.
- The situation select returns without a write when the published snapshot shows
  the option in the manual mode already (`select.py:153-157`), also if the app
  has switched since that snapshot.
- The status sensors of `binary_sensor.py:105-119` are decided when an id is first
  seen: if a ComfoSpot takes over the id of another unit they are missing until a
  reload. `Entities` leaves them out.
- A command restarts the refresh timer, so commands more frequent than the poll
  interval put the telemetry refresh off (`coordinator.py:189`); `Recovery` is
  checked with finitely many calls.

## 7. Plan

Done, in this order: `Coordinator`, `PropertyReads`, `TelemetryCache` and their
proofs, `Session`, `RoomLevels`, `Summer`, `ConfigFlow`; then the filter reset in
`RoomLevels` and `TelemetryCache`, the listeners in `Entities`, the offers in
`Summer`, the abstract `SnapshotStore`, `Exchange` and `Registry` with their
refinements, and the proofs of all the modules. What would come next:

1. The refresh stamps (`coordinator.py:60-70, 93-96, 177-178`) in a module that
   composes `Coordinator` with `PropertyReads`.
2. Frames, varints and profiles as pure functions against reference definitions.
3. The listeners and option lists of the selects in `Entities`.
