----------------------------- MODULE Coordinator -----------------------------
(***************************************************************************)
(* The coordinator of one config entry: its asyncio tasks (scheduled       *)
(* polls, entity service calls, the task that unloads the entry), the      *)
(* asyncio.Lock in front of the one gateway session, the executor jobs     *)
(* that run under that lock, and the snapshot published to the entities.   *)
(*                                                                         *)
(* A task carries a plan: the lock sections it still has to go through.    *)
(* One section is wait - begin an executor job - job steps - resume in the *)
(* event loop.  The event loop is cooperative, so everything between two   *)
(* awaits is one step; the executor job is a thread and its steps are      *)
(* separate.  A gateway state is its run mode and a version that grows     *)
(* with every change, whoever makes it.  The gateway confirms a write      *)
(* before it is taken up: reads report it some time later, or never.       *)
(***************************************************************************)
EXTENDS Naturals, Sequences, SequencesExt

CONSTANTS
  Pollers,             \* polls that may be in flight together
  Calls,               \* service calls that may be in flight together
  Closer,              \* the task that runs async_unload_entry
  NoTask, NoData,      \* nobody holds the lock; no snapshot yet
  Off, Manual,         \* RunMode.OFF and RunMode.MANUAL
  ActiveModes,         \* every RunMode but OFF
  AppModes,            \* modes the official app may select (known or not)
  Cancellable,         \* calls whose task may be cancelled
  Services,            \* entity services in use
  Events,              \* environment events that may occur
  MaxCalls,            \* bound: service calls made
  MaxVersion,          \* bound: gateway changes made by the app
  MaxFailures,         \* bound: consecutive failures are counted up to it
  FloatExponentLimit   \* 2**n is too large for a float from this n on

Tasks == Pollers \cup Calls \cup {Closer}
Modes == ActiveModes \cup {Off}
Commands == Modes \cup {"level"}
Ops == Commands \cup {"poll", "close"}

ServiceNames == {"mode", "power_on", "power_off", "level", "room_level"}

PollInterval == 10
MaxRetryInterval == 300

ASSUME TasksAssumption ==
  /\ Pollers \cap Calls = {} /\ Closer \notin Pollers \cup Calls
  /\ NoTask \notin Tasks /\ Cancellable \subseteq Calls
ASSUME ModesAssumption ==
  /\ Manual \in ActiveModes /\ Off \notin ActiveModes
  /\ Modes \cap {"poll", "level", "close"} = {}
ASSUME ServicesAssumption == Services \subseteq ServiceNames
ASSUME DataAssumption == NoData \notin [ver : Nat, mode : Modes \cup AppModes]
ASSUME BoundsAssumption ==
  /\ MaxCalls \in Nat /\ MaxVersion \in Nat
  /\ MaxFailures \in Nat /\ FloatExponentLimit \in Nat

VARIABLES
  life,        \* the config entry's state
  queue,       \* tasks waiting for _io_lock, first come first served
  holder,      \* the task inside `async with self._io_lock`
  stage,       \* where each task and its executor job are
  orphans,     \* cancelled tasks whose executor job is still running
  plan,        \* lock sections each task has still to complete
  snap,        \* the snapshot each task's job has read
  conn,        \* the client holds a connected session
  gw,          \* the gateway's own state
  due,         \* writes it has confirmed and not taken up: by whom, and of what
  up,          \* the gateway can be reached
  data,        \* coordinator.data
  lastOk,      \* coordinator.last_update_success
  failures,    \* coordinator._failures
  interval,    \* coordinator.update_interval
  lastMode,    \* coordinator._last_non_off_mode
  armed,       \* a refresh is scheduled
  issued,      \* service calls made so far
  called,      \* history: the service each call was made for
  floor        \* history: gateway version when the lock was taken, or when its
               \* holder's write was taken up

lockVars == <<queue, holder, stage, orphans, plan>>
pollVars == <<lastOk, failures, interval, armed>>
gatewayVars == <<gw, due, up>>
historyVars == <<issued, called, floor>>
vars == <<life, lockVars, snap, conn, gatewayVars, data, pollVars, lastMode,
          historyVars>>

JobStages == {"begun", "written", "read", "failed", "garbled"}
EndedStages == {"read", "failed", "garbled"}

------------------------------------------------------------------------------
(* Starting and ending                                                     *)

\* The gateway may be in any mode when Home Assistant starts; coordinator and
\* client are new.
Init ==
  /\ life = "setup"
  /\ queue = <<>> /\ holder = NoTask /\ orphans = {}
  /\ stage = [t \in Tasks |-> "idle"]
  /\ plan = [t \in Tasks |-> <<>>]
  /\ snap = [t \in Tasks |-> NoData]
  /\ conn = FALSE
  /\ data = NoData /\ lastOk = TRUE
  /\ failures = 0 /\ interval = PollInterval
  /\ lastMode = Manual
  /\ armed = FALSE
  /\ floor = 0
  /\ called = [c \in Calls |-> "none"]
  /\ gw \in [ver : {0}, mode : Modes]
  /\ due = {} /\ up = TRUE
  /\ issued = 0

\* The process ends, or the entry is set up again: coordinator and client go.
Discard ==
  /\ life' = "setup"
  /\ queue' = <<>> /\ holder' = NoTask /\ orphans' = {}
  /\ stage' = [t \in Tasks |-> "idle"]
  /\ plan' = [t \in Tasks |-> <<>>]
  /\ snap' = [t \in Tasks |-> NoData]
  /\ conn' = FALSE
  /\ data' = NoData /\ lastOk' = TRUE
  /\ failures' = 0 /\ interval' = PollInterval
  /\ lastMode' = Manual
  /\ armed' = FALSE
  /\ floor' = 0
  /\ called' = [c \in Calls |-> "none"]
  /\ UNCHANGED <<gatewayVars, issued>>

\* Home Assistant is killed or restarted at any point.
Restart ==
  /\ "restart" \in Events
  /\ life # "setup"
  /\ Discard

\* The user reloads an entry that has been unloaded.
Reload ==
  /\ life = "unloaded"
  /\ \A t \in Tasks : stage[t] = "idle"
  /\ Discard

------------------------------------------------------------------------------
(* Tasks reach the lock                                                    *)

Enqueue(t, ops) ==
  /\ queue' = Append(queue, t)
  /\ stage' = [stage EXCEPT ![t] = "waiting"]
  /\ plan' = [plan EXCEPT ![t] = ops]

\* async_config_entry_first_refresh, in async_setup_entry.
FirstRefresh ==
  /\ life = "setup"
  /\ \A t \in Tasks : stage[t] = "idle"
  /\ \E t \in Pollers : Enqueue(t, <<"poll">>)
  /\ UNCHANGED <<life, holder, orphans, snap, conn, gatewayVars, data, pollVars,
                 lastMode, historyVars>>

\* The refresh timer fires and _async_update_data starts.
PollDue ==
  /\ armed
  /\ armed' = FALSE
  /\ \E t \in Pollers : stage[t] = "idle" /\ Enqueue(t, <<"poll">>)
  /\ UNCHANGED <<life, holder, orphans, snap, conn, gatewayVars, data, lastOk,
                 failures, interval, lastMode, historyVars>>

\* What a service will do is fixed when it is called, before any lock: the
\* remembered mode and the published one are read here.
PowerPlan(enabled) == IF enabled THEN <<lastMode>> ELSE <<Off>>
WakePlan == IF data.mode = Off THEN PowerPlan(TRUE) ELSE <<>>
ServicePlans(service) ==
  CASE service = "mode"       -> {<<m>> : m \in Modes}
    [] service = "power_on"   -> {PowerPlan(TRUE)}
    [] service = "power_off"  -> {PowerPlan(FALSE)}
    [] service = "level"      -> {<<"level">>}
    [] service = "room_level" -> {Append(WakePlan, "level")}

\* An entity service call: async_set_mode, async_set_power, async_set_level,
\* or the fan's _async_set_room_level, which wakes the system first.  Home
\* Assistant calls no service of an unavailable entity.
Call(c) ==
  /\ life = "loaded" /\ lastOk
  /\ issued < MaxCalls
  /\ stage[c] = "idle"
  /\ issued' = issued + 1
  /\ \E s \in Services :
       /\ called' = [called EXCEPT ![c] = s]
       /\ \E ops \in ServicePlans(s) : Enqueue(c, ops)
  /\ UNCHANGED <<life, holder, orphans, snap, conn, gatewayVars, data, pollVars,
                 lastMode, floor>>

\* Mutant of Unload: close without waiting for the tasks already queued.
UnloadAtOnce ==
  /\ "unload" \in Events
  /\ life = "loaded"
  /\ life' = "unloading"
  /\ armed' = FALSE
  /\ queue' = <<Closer>> \o queue
  /\ stage' = [stage EXCEPT ![Closer] = "waiting"]
  /\ plan' = [plan EXCEPT ![Closer] = <<"close">>]
  /\ UNCHANGED <<holder, orphans, snap, conn, gatewayVars, data, lastOk,
                 failures, interval, lastMode, historyVars>>

\* async_unload_entry: the entities go, and with the last listener the timer;
\* then async_close asks for the lock.
Unload ==
  /\ "unload" \in Events
  /\ life = "loaded"
  /\ life' = "unloading"
  /\ armed' = FALSE
  /\ Enqueue(Closer, <<"close">>)
  /\ UNCHANGED <<holder, orphans, snap, conn, gatewayVars, data, lastOk,
                 failures, interval, lastMode, historyVars>>

\* Mutant of Acquire: the job starts although another one holds the lock.
AcquireUnlocked(t) ==
  /\ queue # <<>> /\ Head(queue) = t
  /\ holder' = t
  /\ queue' = Tail(queue)
  /\ stage' = [stage EXCEPT ![t] = "begun"]
  /\ floor' = gw.ver
  /\ UNCHANGED <<life, orphans, plan, snap, conn, gatewayVars, data, pollVars,
                 lastMode, issued, called>>

\* The lock goes to the task that has waited longest, which hands its job to
\* the executor.
Acquire(t) ==
  /\ holder = NoTask
  /\ queue # <<>> /\ Head(queue) = t
  /\ holder' = t
  /\ queue' = Tail(queue)
  /\ stage' = [stage EXCEPT ![t] = "begun"]
  /\ floor' = gw.ver
  /\ UNCHANGED <<life, orphans, plan, snap, conn, gatewayVars, data, pollVars,
                 lastMode, issued, called>>

------------------------------------------------------------------------------
(* Executor jobs: the synchronous client                                   *)

Op(t) == Head(plan[t])
IsCommand(op) == op \in Commands

\* The gateway confirms a command.
Write(t) ==
  /\ stage[t] = "begun" /\ IsCommand(Op(t)) /\ up
  /\ conn' = TRUE
  /\ due' = due \cup {<<t, Op(t)>>}
  /\ stage' = [stage EXCEPT ![t] = "written"]
  /\ UNCHANGED <<life, queue, holder, orphans, plan, snap, gw, up, data, pollVars,
                 lastMode, historyVars>>

\* read_snapshot, on its own or after a command's write, which may not have been
\* taken up: set_run_mode does not wait, and set_level returns all the same when
\* the active level has not followed.  (A level for another situation is verified
\* first, module RoomLevels.)
Read(t) ==
  /\ \/ stage[t] = "begun" /\ Op(t) = "poll"
     \/ stage[t] = "written"
  /\ up
  /\ conn' = TRUE
  /\ snap' = [snap EXCEPT ![t] = gw]
  /\ stage' = [stage EXCEPT ![t] = "read"]
  /\ UNCHANGED <<life, queue, holder, orphans, plan, gatewayVars, data, pollVars,
                 lastMode, historyVars>>

\* ProtocolError or TransportError: the client closes its session and raises.
\* A command may also be refused, or not confirmed in time, by a gateway that
\* can be reached.
Fail(t) ==
  /\ stage[t] \in {"begun", "written"}
  /\ IsCommand(Op(t)) \/ (Op(t) = "poll" /\ ~up)
  /\ conn' = FALSE
  /\ stage' = [stage EXCEPT ![t] = "failed"]
  /\ UNCHANGED <<life, queue, holder, orphans, plan, snap, gatewayVars, data,
                 pollVars, lastMode, historyVars>>

\* A response body that does not parse: ProtobufDecodeError is a ValueError, so
\* the client's handlers do not see it and the session stays open.
Garble(t) ==
  /\ "malformed" \in Events
  /\ stage[t] \in {"begun", "written"} /\ Op(t) # "close" /\ up
  /\ conn' = TRUE
  /\ stage' = [stage EXCEPT ![t] = "garbled"]
  /\ UNCHANGED <<life, queue, holder, orphans, plan, snap, gatewayVars, data,
                 pollVars, lastMode, historyVars>>

------------------------------------------------------------------------------
(* The event loop resumes a task whose job has ended                       *)

\* Leave the lock with nothing more to do.
Finish(t) ==
  /\ t \notin orphans
  /\ holder' = NoTask
  /\ stage' = [stage EXCEPT ![t] = "idle"]
  /\ plan' = [plan EXCEPT ![t] = <<>>]
  /\ snap' = [snap EXCEPT ![t] = NoData]

\* Mutant of Remember: standby is remembered as well.
RememberAny(mode) == lastMode' = mode

\* _remember_mode: standby and modes outside RunMode are not remembered.
Remember(mode) == lastMode' = IF mode \in ActiveModes THEN mode ELSE lastMode

\* Mutant of Rearm: a poll that ends sets the timer whether anybody listens or not.
RearmAlways == armed' = TRUE

\* The timer is set again only while entities listen: from the end of the setup
\* to the unload.
Rearm == armed' = (life \in {"setup", "loaded"})

\* Mutant of PollSucceeds: the back-off survives a successful poll.
PollSucceedsSlowly(t) ==
  /\ stage[t] = "read" /\ Op(t) = "poll"
  /\ Finish(t)
  /\ life' = IF life = "setup" THEN "loaded" ELSE life
  /\ data' = snap[t]
  /\ Remember(snap[t].mode)
  /\ lastOk' = TRUE /\ failures' = 0
  /\ Rearm
  /\ UNCHANGED <<queue, orphans, conn, gatewayVars, interval, historyVars>>

PollSucceeds(t) ==
  /\ stage[t] = "read" /\ Op(t) = "poll"
  /\ Finish(t)
  /\ life' = IF life = "setup" THEN "loaded" ELSE life
  /\ data' = snap[t]
  /\ Remember(snap[t].mode)
  /\ lastOk' = TRUE /\ failures' = 0 /\ interval' = PollInterval
  /\ Rearm
  /\ UNCHANGED <<queue, orphans, conn, gatewayVars, historyVars>>

\* min(POLL_INTERVAL * 2 ** (failures - 1), MAX_RETRY_INTERVAL); the jitter of
\* up to two seconds is left out.
Backoff(n) ==
  IF n > 5 THEN MaxRetryInterval ELSE PollInterval * <<1, 2, 4, 8, 16>>[n]

CountFailure == failures' = IF failures < MaxFailures THEN failures + 1 ELSE failures

\* Mutant of PollFails: the failure is swallowed and the old snapshot kept.
PollFailsSilently(t) ==
  /\ stage[t] = "failed" /\ Op(t) = "poll" /\ life # "setup"
  /\ failures < FloatExponentLimit
  /\ Finish(t)
  /\ CountFailure
  /\ interval' = Backoff(failures + 1)
  /\ Rearm
  /\ UNCHANGED <<life, queue, orphans, conn, gatewayVars, data, lastOk, lastMode,
                 historyVars>>

\* _set_failure_interval, then UpdateFailed.
PollFails(t) ==
  /\ stage[t] = "failed" /\ Op(t) = "poll" /\ life # "setup"
  /\ failures < FloatExponentLimit
  /\ Finish(t)
  /\ lastOk' = FALSE
  /\ CountFailure
  /\ interval' = Backoff(failures + 1)
  /\ Rearm
  /\ UNCHANGED <<life, queue, orphans, conn, gatewayVars, data, lastMode,
                 historyVars>>

\* 2 ** (failures - 1) does not fit a float: OverflowError leaves the handler.
PollOverflows(t) ==
  /\ stage[t] = "failed" /\ Op(t) = "poll" /\ life # "setup"
  /\ failures >= FloatExponentLimit
  /\ Finish(t)
  /\ lastOk' = FALSE
  /\ CountFailure
  /\ Rearm
  /\ UNCHANGED <<life, queue, orphans, conn, gatewayVars, data, interval,
                 lastMode, historyVars>>

\* An exception _async_update_data does not handle: no back-off.
PollGarbled(t) ==
  /\ stage[t] = "garbled" /\ Op(t) = "poll" /\ life # "setup"
  /\ Finish(t)
  /\ lastOk' = FALSE
  /\ Rearm
  /\ UNCHANGED <<life, queue, orphans, conn, gatewayVars, data, failures,
                 interval, lastMode, historyVars>>

\* A first refresh that fails in any way: the entry is not ready, and Home
\* Assistant sets it up again later with a new coordinator and client.
SetupFails(t) ==
  /\ stage[t] \in {"failed", "garbled"} /\ life = "setup"
  /\ Discard

\* Mutant of CommandSucceeds: the task awaits something between the lock and the
\* acceptance of its snapshot.
CommandAcceptsLate(t) ==
  /\ stage[t] = "read" /\ IsCommand(Op(t))
  /\ \/ /\ holder = t /\ holder' = NoTask
        /\ UNCHANGED <<stage, plan, snap, data, lastOk, armed, lastMode>>
     \/ /\ holder # t /\ UNCHANGED holder
        /\ stage' = [stage EXCEPT ![t] = "idle"]
        /\ plan' = [plan EXCEPT ![t] = <<>>]
        /\ snap' = [snap EXCEPT ![t] = NoData]
        /\ data' = snap[t]
        /\ Remember(snap[t].mode)
        /\ lastOk' = TRUE
        /\ armed' = (armed \/ life = "loaded")
  /\ UNCHANGED <<life, queue, orphans, conn, gatewayVars, failures, interval,
                 historyVars>>

\* Mutant of CommandSucceeds: the new snapshot replaces the poll that was due.
CommandSucceedsUnarmed(t) ==
  /\ stage[t] = "read" /\ IsCommand(Op(t))
  /\ t \notin orphans
  /\ holder' = NoTask
  /\ snap' = [snap EXCEPT ![t] = NoData]
  /\ data' = snap[t]
  /\ Remember(snap[t].mode)
  /\ lastOk' = TRUE
  /\ plan' = [plan EXCEPT ![t] = Tail(plan[t])]
  /\ IF Len(plan[t]) = 1
     THEN stage' = [stage EXCEPT ![t] = "idle"] /\ UNCHANGED queue
     ELSE stage' = [stage EXCEPT ![t] = "waiting"] /\ queue' = Append(queue, t)
  /\ armed' = FALSE
  /\ UNCHANGED <<life, orphans, conn, gatewayVars, failures, interval,
                 historyVars>>

\* The lock is released, the snapshot accepted and, if the service has another
\* section, the lock requested again, all without an await in between.
CommandSucceeds(t) ==
  /\ stage[t] = "read" /\ IsCommand(Op(t))
  /\ t \notin orphans
  /\ holder' = NoTask
  /\ snap' = [snap EXCEPT ![t] = NoData]
  /\ data' = snap[t]
  /\ Remember(snap[t].mode)
  /\ lastOk' = TRUE
  /\ plan' = [plan EXCEPT ![t] = Tail(plan[t])]
  /\ IF Len(plan[t]) = 1
     THEN stage' = [stage EXCEPT ![t] = "idle"] /\ UNCHANGED queue
     ELSE stage' = [stage EXCEPT ![t] = "waiting"] /\ queue' = Append(queue, t)
  /\ armed' = (armed \/ life = "loaded")
  /\ UNCHANGED <<life, orphans, conn, gatewayVars, failures, interval,
                 historyVars>>

\* Mutant of CommandFails: the exception skips the release of the lock.
CommandFailsHolding(t) ==
  /\ stage[t] \in {"failed", "garbled"} /\ IsCommand(Op(t))
  /\ t \notin orphans
  /\ stage' = [stage EXCEPT ![t] = "idle"]
  /\ plan' = [plan EXCEPT ![t] = <<>>]
  /\ snap' = [snap EXCEPT ![t] = NoData]
  /\ UNCHANGED <<life, queue, holder, orphans, conn, gatewayVars, data, pollVars,
                 lastMode, historyVars>>

\* The exception reaches the caller of the service.
CommandFails(t) ==
  /\ stage[t] \in {"failed", "garbled"} /\ IsCommand(Op(t))
  /\ Finish(t)
  /\ UNCHANGED <<life, queue, orphans, conn, gatewayVars, data, pollVars,
                 lastMode, historyVars>>

\* async_close under the lock; the unload is complete.
Close ==
  /\ stage[Closer] = "begun"
  /\ conn' = FALSE
  /\ Finish(Closer)
  /\ life' = "unloaded"
  /\ UNCHANGED <<queue, orphans, gatewayVars, data, pollVars, lastMode,
                 historyVars>>

------------------------------------------------------------------------------
(* Cancellation                                                            *)

\* A waiting task is cancelled: it leaves the lock's queue.
CancelWaiting(t) ==
  /\ stage[t] = "waiting"
  /\ \E i \in 1..Len(queue) : queue[i] = t /\ queue' = RemoveAt(queue, i)
  /\ stage' = [stage EXCEPT ![t] = "idle"]
  /\ plan' = [plan EXCEPT ![t] = <<>>]
  /\ UNCHANGED <<holder, orphans, snap>>

\* A task awaiting its job is cancelled: the lock is released although the
\* executor thread keeps running.
CancelRunning(t) ==
  /\ stage[t] \in JobStages /\ t \notin orphans
  /\ holder' = NoTask
  /\ orphans' = orphans \cup {t}
  /\ UNCHANGED <<queue, stage, plan, snap>>

\* The pool had not started the job yet: it never runs.
CancelUnstarted(t) ==
  /\ stage[t] = "begun"
  /\ Finish(t)
  /\ UNCHANGED <<queue, orphans>>

Cancel(t) ==
  /\ t \in Cancellable
  /\ CancelWaiting(t) \/ CancelRunning(t) \/ CancelUnstarted(t)
  /\ UNCHANGED <<life, conn, gatewayVars, data, pollVars, lastMode,
                 historyVars>>

\* The job of a cancelled task ends; nobody takes its result.
OrphanEnds(t) ==
  /\ t \in orphans /\ stage[t] \in EndedStages
  /\ orphans' = orphans \ {t}
  /\ stage' = [stage EXCEPT ![t] = "idle"]
  /\ plan' = [plan EXCEPT ![t] = <<>>]
  /\ snap' = [snap EXCEPT ![t] = NoData]
  /\ UNCHANGED <<life, queue, holder, conn, gatewayVars, data, pollVars, lastMode,
                 historyVars>>

------------------------------------------------------------------------------
(* The gateway and the network                                             *)

\* The app or a unit changes the gateway's state.
GatewayChange ==
  /\ gw.ver < MaxVersion
  /\ \E m \in AppModes : gw' = [ver |-> gw.ver + 1, mode |-> m]
  /\ UNCHANGED <<life, lockVars, snap, conn, due, up, data, pollVars, lastMode,
                 historyVars>>

\* A confirmed write is taken up: the units apply a level over the radio link, and
\* the gateway a mode.  Writes that are due together are taken up in any order.
TakeUp(w) ==
  /\ gw' = [ver |-> gw.ver + 1, mode |-> IF w[2] = "level" THEN gw.mode ELSE w[2]]
  /\ due' = due \ {w}
  /\ floor' = IF holder = w[1] /\ stage[w[1]] = "written" THEN gw'.ver ELSE floor
  /\ UNCHANGED <<life, lockVars, snap, conn, up, data, pollVars, lastMode, issued,
                 called>>

\* The gateway becomes unreachable or reachable again.
Outage ==
  /\ "outage" \in Events
  /\ up' = ~up
  /\ UNCHANGED <<life, lockVars, snap, conn, gw, due, data, pollVars, lastMode,
                 historyVars>>

------------------------------------------------------------------------------
Job(t) == Write(t) \/ Read(t) \/ Fail(t) \/ Garble(t)

Resume(t) ==
  \/ PollSucceeds(t) \/ PollFails(t) \/ PollOverflows(t) \/ PollGarbled(t)
  \/ SetupFails(t) \/ CommandSucceeds(t) \/ CommandFails(t)
  \/ OrphanEnds(t)

Environment ==
  \/ GatewayChange \/ (\E w \in due : TakeUp(w))
  \/ Outage \/ Restart \/ Reload \/ Unload

Next ==
  \/ FirstRefresh \/ PollDue \/ Close
  \/ \E c \in Calls : Call(c) \/ Cancel(c)
  \/ \E t \in Tasks : Acquire(t) \/ Job(t) \/ Resume(t)
  \/ Environment

Spec == Init /\ [][Next]_vars

\* Timers fire, the lock is handed on, executor jobs run into their time-outs
\* at the latest, and the event loop resumes ready tasks.  Nothing is assumed
\* of the environment.
FairSpec ==
  /\ Spec
  /\ WF_vars(FirstRefresh) /\ WF_vars(PollDue) /\ WF_vars(Close)
  /\ \A t \in Tasks : WF_vars(Acquire(t)) /\ WF_vars(Job(t)) /\ WF_vars(Resume(t))

------------------------------------------------------------------------------
(* Properties                                                              *)

Snapshots == [ver : Nat, mode : Modes \cup AppModes]
Stages == {"idle", "waiting"} \cup JobStages
Intervals == {PollInterval * k : k \in {1, 2, 4, 8, 16}} \cup {MaxRetryInterval}

\* Every variable keeps its type; in particular the mode that power-on restores is
\* never standby (coordinator.py:196).
TypeOK ==
  /\ life \in {"setup", "loaded", "unloading", "unloaded"}
  /\ queue \in Seq(Tasks)
  /\ holder \in Tasks \cup {NoTask}
  /\ stage \in [Tasks -> Stages]
  /\ orphans \subseteq Tasks
  /\ plan \in [Tasks -> Seq(Ops)]
  /\ snap \in [Tasks -> Snapshots \cup {NoData}]
  /\ conn \in BOOLEAN /\ up \in BOOLEAN
  /\ gw \in Snapshots
  /\ due \subseteq Tasks \X Commands
  /\ data \in Snapshots \cup {NoData}
  /\ lastOk \in BOOLEAN /\ armed \in BOOLEAN
  /\ failures \in 0..MaxFailures
  /\ interval \in Intervals
  /\ lastMode \in ActiveModes
  /\ issued \in 0..MaxCalls
  /\ called \in [Calls -> ServiceNames \cup {"none"}]
  /\ floor \in Nat

\* _io_lock protects the one session: two executor jobs never use the client at
\* the same time.
OneJobAtATime ==
  \A t, u \in Tasks : stage[t] \in JobStages /\ stage[u] \in JobStages => t = u

\* The coordinator as a store of snapshots: a state of the gateway is its version,
\* the view is what the entities show, and a turn is one lock section.
Store == INSTANCE SnapshotStore WITH
  Clients <- Tasks, Nobody <- NoTask, Nothing <- NoData,
  world <- gw.ver, turn <- holder,
  view <- IF data = NoData THEN NoData ELSE data.ver

\* However polls, commands, cancellations, failures and restarts interleave, the
\* entities are shown what an unshared store would show them: each `async with
\* self._io_lock` publishes a state from its own time inside the lock, its own
\* write included if that was taken up before the snapshot was read, or nothing
\* (coordinator.py:72-81, 101-109).
ImplementsStore == Store!Spec

\* async_unload_entry: once the entry is unloaded no session to the gateway is
\* left open, and none is opened again.
UnloadCloses == life = "unloaded" => ~conn

\* However a poll ends (answered, failed, with a back-off that overflows, with an
\* error nobody handles, overtaken by a command) a loaded entry is polled again,
\* and an entry that is not loaded never: the timer or a poll is always at hand,
\* and the session that the unload has closed is not opened by a poll
\* (coordinator.py:59-99, 199-205; __init__.py:49-56).
PollingFollowsLife ==
  /\ life = "loaded" => armed \/ \E t \in Pollers : stage[t] # "idle"
  /\ life # "loaded" => ~armed
  /\ life = "unloaded" => \A t \in Pollers : stage[t] = "idle"

\* "Restore the most recently verified active mode" (switch.py:76): switching the
\* system on writes the active mode that was verified last when it is written.
PowerOnRestores ==
  [][\A c \in Calls :
       /\ called[c] = "power_on"
       /\ stage[c] = "begun" /\ stage'[c] = "written"
       => Op(c) = lastMode]_vars

\* Each poll, service call and unload ends: nobody waits for the lock forever.
EveryTaskEnds == \A t \in Tasks : stage[t] # "idle" ~> stage[t] = "idle"

\* Once the gateway stays reachable, the entities become and stay available and
\* polling returns to its normal pace.
Recovery ==
  <>[]up => <>[](life = "loaded" => lastOk /\ interval = PollInterval)

\* A command that returns may show the state before it, "until the next poll"
\* (client.py:417).  Once the gateway stays reachable and all writes that ever are
\* taken up have been, the entities show its state, whatever was cancelled, failed or
\* taken up late, and however calls, polls and unloads overtook each other.
EntitiesCatchUp == <>[]up => <>[](life = "loaded" => data = gw)

\* Once the gateway stays unreachable, the entities become and stay unavailable.
DeadGatewayReported == <>[]~up => <>[](life = "loaded" => ~lastOk)
=============================================================================
