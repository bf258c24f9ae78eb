-------------------------- MODULE CoordinatorProofs --------------------------
(***************************************************************************)
(* Theorems about Coordinator, for any number of tasks, services, modes    *)
(* and gateway changes.                                                    *)
(***************************************************************************)
EXTENDS Coordinator, SequenceTheorems, TLAPS

USE TasksAssumption, ModesAssumption, ServicesAssumption, DataAssumption,
    BoundsAssumption

\* A task that is not idle has at least one lock section to go through.
PlansPending == \A t \in Tasks : stage[t] # "idle" => plan[t] # <<>>

\* The lock's queue holds waiting tasks, each of them once.
QueueInv ==
  /\ \A i \in 1..Len(queue) : stage[queue[i]] = "waiting"
  /\ \A i, j \in 1..Len(queue) : queue[i] = queue[j] => i = j

\* The unload has not begun while the entry is being set up or loaded.
CloserIdle == life \in {"setup", "loaded"} => stage[Closer] = "idle"

TypeInv == TypeOK /\ PlansPending /\ QueueInv /\ CloserIdle

------------------------------------------------------------------------------
(* Operators                                                               *)

\* Removing one element of a queue leaves the others in their order.
LEMMA RemoveAtProperties ==
  ASSUME NEW S, NEW q \in Seq(S), NEW i \in 1..Len(q)
  PROVE  /\ RemoveAt(q, i) \in Seq(S)
         /\ Len(RemoveAt(q, i)) = Len(q) - 1
         /\ \A j \in 1..(Len(q) - 1) :
              RemoveAt(q, i)[j] = IF j < i THEN q[j] ELSE q[j + 1]
<1>. DEFINE front == SubSeq(q, 1, i - 1)
            back  == SubSeq(q, i + 1, Len(q))
<1>1. /\ front \in Seq(S) /\ Len(front) = i - 1
      /\ \A j \in 1..(i - 1) : front[j] = q[j]
  <2>1. \A j \in 1..(i - 1) : q[j] \in S
    BY SMT
  <2>2. i - 1 \in Int /\ 1 \in Int /\ (1 <= i - 1 => (i - 1) - 1 + 1 = i - 1)
        /\ (~(1 <= i - 1) => 0 = i - 1) /\ (i - 1) - 1 + 1 = i - 1
        /\ \A j \in 1..(i - 1) : 1 + j - 1 = j
    OBVIOUS
  <2>3. /\ front \in Seq(S)
        /\ Len(front) = IF 1 <= i - 1 THEN (i - 1) - 1 + 1 ELSE 0
        /\ \A j \in 1..(i - 1) - 1 + 1 : front[j] = q[1 + j - 1]
    BY <2>1, <2>2, SubSeqProperties
  <2>. QED
    BY <2>2, <2>3
<1>2. /\ back \in Seq(S) /\ Len(back) = Len(q) - i
      /\ \A j \in 1..(Len(q) - i) : back[j] = q[i + j]
  <2>1. \A j \in (i + 1)..Len(q) : q[j] \in S
    BY SMT
  <2>. QED
    BY <2>1, SubSeqProperties, i + 1 \in Int, Len(q) \in Int
<1>3. RemoveAt(q, i) = front \o back
  BY DEF RemoveAt
<1>. HIDE DEF front, back
<1>4. /\ front \o back \in Seq(S) /\ Len(front \o back) = Len(front) + Len(back)
      /\ \A j \in 1..Len(front) + Len(back) :
           (front \o back)[j] = IF j <= Len(front) THEN front[j] ELSE back[j - Len(front)]
  <2>1. front \in Seq(S) /\ back \in Seq(S)
    BY <1>1, <1>2, Zenon
  <2>. QED
    BY ONLY <2>1, ConcatProperties
<1>5. ASSUME NEW j \in 1..(Len(q) - 1)
      PROVE  (front \o back)[j] = IF j < i THEN q[j] ELSE q[j + 1]
  <2>1. j \in 1..Len(front) + Len(back)
    BY <1>1, <1>2
  <2>2. CASE j < i
    BY <1>1, <1>4, <2>1, <2>2
  <2>3. CASE ~(j < i)
    <3>1. j - (i - 1) \in 1..(Len(q) - i) /\ i + (j - (i - 1)) = j + 1
      BY <2>3
    <3>2. (front \o back)[j] = back[j - (i - 1)]
      BY <1>1, <1>4, <2>1, <2>3
    <3>. QED
      BY <1>2, <2>3, <3>1, <3>2
  <2>. QED
    BY <2>2, <2>3
<1>. QED
  BY <1>1, <1>2, <1>3, <1>4, <1>5

\* Every back-off is one of the six waiting times.
LEMMA BackoffType ==
  ASSUME NEW n \in Nat, n > 0
  PROVE  Backoff(n) \in Intervals
<1>1. CASE n > 5
  BY <1>1 DEF Backoff, Intervals
<1>2. CASE n \in 1..5
  <2>1. <<1, 2, 4, 8, 16>>[n] \in {1, 2, 4, 8, 16}
    BY <1>2, SMT
  <2>. QED
    BY <1>2, <2>1 DEF Backoff, Intervals
<1>. QED
  BY <1>1, <1>2

\* What a service plans is a non-empty sequence of lock sections.
LEMMA ServicePlansType ==
  ASSUME TypeOK, NEW s \in ServiceNames, NEW ops \in ServicePlans(s)
  PROVE  ops \in Seq(Ops) /\ ops # <<>>
<1>1. \A m \in Modes : <<m>> \in Seq(Ops) /\ <<m>> # <<>>
  BY DEF Ops, Commands
<1>2. /\ PowerPlan(TRUE) \in Seq(Ops) /\ PowerPlan(TRUE) # <<>>
      /\ PowerPlan(FALSE) \in Seq(Ops) /\ PowerPlan(FALSE) # <<>>
  BY <1>1 DEF TypeOK, PowerPlan, Modes
<1>3. WakePlan \in Seq(Ops)
  <2>1. <<>> \in Seq(Ops)
    OBVIOUS
  <2>. QED
    BY <1>2, <2>1, Zenon DEF WakePlan
<1>4. CASE s = "mode"
  <2>1. ServicePlans(s) = {<<m>> : m \in Modes}
    BY <1>4 DEF ServicePlans
  <2>. QED
    BY <1>1, <2>1, Zenon
<1>5. CASE s = "power_on"
  <2>1. ServicePlans(s) = {PowerPlan(TRUE)}
    BY <1>5 DEF ServicePlans
  <2>. QED
    BY <1>2, <2>1, Zenon
<1>6. CASE s = "power_off"
  <2>1. ServicePlans(s) = {PowerPlan(FALSE)}
    BY <1>6 DEF ServicePlans
  <2>. QED
    BY <1>2, <2>1, Zenon
<1>7. CASE s = "level"
  <2>1. ServicePlans(s) = {<<"level">>}
    BY <1>7 DEF ServicePlans
  <2>2. <<"level">> \in Seq(Ops) /\ <<"level">> # <<>>
    BY DEF Ops, Commands
  <2>. QED
    BY <2>1, <2>2, Zenon
<1>8. CASE s = "room_level"
  <2>1. ServicePlans(s) = {Append(WakePlan, "level")}
    BY <1>8 DEF ServicePlans
  <2>2. "level" \in Ops
    BY DEF Ops, Commands
  <2>3. /\ Append(WakePlan, "level") \in Seq(Ops)
        /\ Append(WakePlan, "level") # <<>>
    BY <1>3, <2>2, AppendProperties
  <2>. QED
    BY <2>1, <2>3, Zenon
<1>. QED
  BY <1>4, <1>5, <1>6, <1>7, <1>8 DEF ServiceNames

------------------------------------------------------------------------------
(* Type correctness                                                        *)

\* The starting values of coordinator and client have their types.
LEMMA FreshType ==
  /\ <<>> \in Seq(Tasks) /\ <<>> \in Seq(Ops)
  /\ [t \in Tasks |-> "idle"] \in [Tasks -> Stages]
  /\ [t \in Tasks |-> <<>>] \in [Tasks -> Seq(Ops)]
  /\ [t \in Tasks |-> NoData] \in [Tasks -> Snapshots \cup {NoData}]
  /\ [c \in Calls |-> "none"] \in [Calls -> ServiceNames \cup {"none"}]
  /\ PollInterval \in Intervals
  /\ 0 \in 0..MaxFailures /\ 0 \in 0..MaxCalls
<1>1. PollInterval \in Intervals
  <2>1. \E k \in {1, 2, 4, 8, 16} : PollInterval = PollInterval * k
    BY SMT DEF PollInterval
  <2>. QED
    BY <2>1 DEF Intervals
<1>2. 0 \in 0..MaxFailures /\ 0 \in 0..MaxCalls
  OBVIOUS
<1>3. <<>> \in Seq(Tasks) /\ <<>> \in Seq(Ops)
  OBVIOUS
<1>4. /\ [t \in Tasks |-> "idle"] \in [Tasks -> Stages]
      /\ [t \in Tasks |-> <<>>] \in [Tasks -> Seq(Ops)]
      /\ [t \in Tasks |-> NoData] \in [Tasks -> Snapshots \cup {NoData}]
      /\ [c \in Calls |-> "none"] \in [Calls -> ServiceNames \cup {"none"}]
  BY <1>3 DEF Stages
<1>. QED
  BY <1>1, <1>2, <1>3, <1>4

\* The type invariant holds for a new coordinator, whatever the mode of the gateway.
LEMMA InitType == Init => TypeInv
<1>. SUFFICES ASSUME Init PROVE TypeInv
  OBVIOUS
<1>1. gw \in Snapshots
  BY DEF Init, Snapshots, Modes
<1>2. TypeOK
  <2>1. /\ life \in {"setup", "loaded", "unloading", "unloaded"}
        /\ conn \in BOOLEAN /\ up \in BOOLEAN /\ lastOk \in BOOLEAN
        /\ armed \in BOOLEAN /\ orphans \subseteq Tasks /\ lastMode \in ActiveModes
        /\ holder \in Tasks \cup {NoTask} /\ data \in Snapshots \cup {NoData}
    BY DEF Init
  <2>2. /\ queue \in Seq(Tasks) /\ stage \in [Tasks -> Stages]
        /\ plan \in [Tasks -> Seq(Ops)] /\ snap \in [Tasks -> Snapshots \cup {NoData}]
        /\ called \in [Calls -> ServiceNames \cup {"none"}]
        /\ interval \in Intervals
        /\ failures \in 0..MaxFailures /\ issued \in 0..MaxCalls
    BY FreshType, Zenon DEF Init
  <2>3. floor \in Nat /\ due \subseteq Tasks \X Commands
    BY DEF Init
  <2>. QED
    BY <1>1, <2>1, <2>2, <2>3, Zenon DEF TypeOK
<1>3. PlansPending /\ QueueInv /\ CloserIdle
  BY DEF Init, PlansPending, QueueInv, CloserIdle, Tasks
<1>. QED
  BY <1>2, <1>3 DEF TypeInv

\* A task joins the queue.
LEMMA EnqueueType ==
  ASSUME TypeInv, NEW t \in Tasks, NEW ops \in Seq(Ops), ops # <<>>,
         Enqueue(t, ops), stage[t] # "waiting"
  PROVE  /\ queue' \in Seq(Tasks)
         /\ stage' \in [Tasks -> Stages]
         /\ plan' \in [Tasks -> Seq(Ops)]
         /\ PlansPending' /\ QueueInv'
<1>1. /\ queue' \in Seq(Tasks) /\ Len(queue') = Len(queue) + 1
      /\ \A i \in 1..Len(queue) : queue'[i] = queue[i]
      /\ queue'[Len(queue) + 1] = t
  BY AppendProperties DEF TypeInv, TypeOK, Enqueue
<1>2. stage' \in [Tasks -> Stages] /\ plan' \in [Tasks -> Seq(Ops)]
  BY DEF TypeInv, TypeOK, Enqueue, Stages
<1>3. PlansPending'
  BY DEF TypeInv, TypeOK, Enqueue, PlansPending
<1>4. \A i \in 1..Len(queue) : queue[i] \in Tasks /\ queue[i] # t
  BY DEF TypeInv, TypeOK, QueueInv
<1>5. QueueInv'
  <2>1. \A i \in 1..Len(queue') : stage'[queue'[i]] = "waiting"
    BY <1>1, <1>4 DEF TypeInv, TypeOK, Enqueue, QueueInv
  <2>2. ASSUME NEW i \in 1..Len(queue'), NEW j \in 1..Len(queue'),
               queue'[i] = queue'[j]
        PROVE  i = j
    <3>1. Len(queue) \in Nat
      BY DEF TypeInv, TypeOK
    <3>2. i \in 1..Len(queue) \/ i = Len(queue) + 1
      BY <1>1, <3>1
    <3>3. j \in 1..Len(queue) \/ j = Len(queue) + 1
      BY <1>1, <3>1
    <3>4. CASE i \in 1..Len(queue) /\ j \in 1..Len(queue)
      BY <1>1, <2>2, <3>4 DEF TypeInv, QueueInv
    <3>. QED
      BY <1>1, <1>4, <2>2, <3>2, <3>3, <3>4
  <2>. QED
    BY <2>1, <2>2 DEF QueueInv
<1>. QED
  BY <1>1, <1>2, <1>3, <1>5

\* A task that is not waiting changes its stage: the queue is still right.
LEMMA QueueKept ==
  ASSUME TypeInv, NEW t \in Tasks, NEW s, stage[t] # "waiting",
         queue' = queue, stage' = [stage EXCEPT ![t] = s]
  PROVE  QueueInv'
<1>1. \A i \in 1..Len(queue) : queue[i] \in Tasks /\ queue[i] # t
  BY DEF TypeInv, TypeOK, QueueInv
<1>. QED
  BY <1>1 DEF TypeInv, TypeOK, QueueInv

\* Leaving the lock (the end of every `async with`) keeps the types of what it changes.
LEMMA FinishType ==
  ASSUME TypeInv, NEW t \in Tasks, Finish(t), queue' = queue,
         stage[t] # "waiting"
  PROVE  /\ holder' \in Tasks \cup {NoTask}
         /\ stage' \in [Tasks -> Stages]
         /\ plan' \in [Tasks -> Seq(Ops)]
         /\ snap' \in [Tasks -> Snapshots \cup {NoData}]
         /\ PlansPending' /\ QueueInv'
         /\ stage[Closer] = "idle" => stage'[Closer] = "idle"
<1>1. stage' \in [Tasks -> Stages] /\ plan' \in [Tasks -> Seq(Ops)]
  BY DEF TypeInv, TypeOK, Finish, Stages
<1>2. snap' \in [Tasks -> Snapshots \cup {NoData}] /\ holder' \in Tasks \cup {NoTask}
  BY DEF TypeInv, TypeOK, Finish
<1>3. PlansPending'
  BY DEF TypeInv, TypeOK, Finish, PlansPending
<1>4. QueueInv'
  BY QueueKept DEF Finish
<1>5. stage[Closer] = "idle" => stage'[Closer] = "idle"
  BY DEF TypeInv, TypeOK, Finish, Tasks
<1>. QED
  BY <1>1, <1>2, <1>3, <1>4, <1>5

\* A restart or a reload keeps the type invariant.
LEMMA DiscardType ==
  ASSUME TypeInv, Discard
  PROVE  TypeInv'
<1>1. TypeOK'
  BY FreshType DEF TypeInv, TypeOK, Discard, gatewayVars
<1>2. PlansPending' /\ QueueInv' /\ CloserIdle'
  BY DEF PlansPending, QueueInv, CloserIdle, Discard, Tasks
<1>. QED
  BY <1>1, <1>2 DEF TypeInv

\* The first refresh of async_setup_entry keeps the type invariant.
LEMMA FirstRefreshType ==
  ASSUME TypeInv, FirstRefresh
  PROVE  TypeInv'
<1>1. PICK t \in Pollers : Enqueue(t, <<"poll">>)
  BY DEF FirstRefresh
<1>2. /\ <<"poll">> \in Seq(Ops) /\ <<"poll">> # <<>>
      /\ t \in Tasks /\ t # Closer /\ stage[t] # "waiting"
  BY DEF FirstRefresh, Ops, Commands, Tasks
<1>3. /\ queue' \in Seq(Tasks) /\ stage' \in [Tasks -> Stages]
      /\ plan' \in [Tasks -> Seq(Ops)] /\ PlansPending' /\ QueueInv'
  BY <1>1, <1>2, EnqueueType, Zenon
<1>4. CloserIdle'
  BY <1>1, <1>2 DEF FirstRefresh, Enqueue, CloserIdle, TypeInv, TypeOK, Tasks
<1>. QED
  BY <1>3, <1>4 DEF FirstRefresh, TypeInv, TypeOK, gatewayVars, pollVars, historyVars

\* The refresh timer keeps the type invariant.
LEMMA PollDueType ==
  ASSUME TypeInv, PollDue
  PROVE  TypeInv'
<1>1. PICK t \in Pollers : stage[t] = "idle" /\ Enqueue(t, <<"poll">>)
  BY DEF PollDue
<1>2. /\ <<"poll">> \in Seq(Ops) /\ <<"poll">> # <<>>
      /\ t \in Tasks /\ t # Closer /\ stage[t] # "waiting"
  BY <1>1 DEF Ops, Commands, Tasks
<1>3. /\ queue' \in Seq(Tasks) /\ stage' \in [Tasks -> Stages]
      /\ plan' \in [Tasks -> Seq(Ops)] /\ PlansPending' /\ QueueInv'
  BY <1>1, <1>2, EnqueueType, Zenon
<1>4. CloserIdle'
  BY <1>1, <1>2 DEF PollDue, Enqueue, CloserIdle, TypeInv, TypeOK, Tasks
<1>. QED
  BY <1>3, <1>4 DEF PollDue, TypeInv, TypeOK, gatewayVars, historyVars

\* A service call keeps the type invariant.
LEMMA CallType ==
  ASSUME TypeInv, NEW c \in Calls, Call(c)
  PROVE  TypeInv'
<1>1. PICK s \in Services :
        /\ called' = [called EXCEPT ![c] = s]
        /\ \E ops \in ServicePlans(s) : Enqueue(c, ops)
  BY DEF Call
<1>2. PICK ops \in ServicePlans(s) : Enqueue(c, ops)
  BY <1>1
<1>3. s \in ServiceNames
  OBVIOUS
<1>4. ops \in Seq(Ops) /\ ops # <<>>
  BY <1>3, ServicePlansType DEF TypeInv
<1>5. c \in Tasks /\ c # Closer /\ stage[c] # "waiting"
  BY DEF Call, Tasks
<1>6. /\ queue' \in Seq(Tasks) /\ stage' \in [Tasks -> Stages]
      /\ plan' \in [Tasks -> Seq(Ops)] /\ PlansPending' /\ QueueInv'
  BY <1>2, <1>4, <1>5, EnqueueType, Zenon
<1>7. called' \in [Calls -> ServiceNames \cup {"none"}] /\ issued' \in 0..MaxCalls
  BY <1>1, <1>3 DEF Call, TypeInv, TypeOK
<1>8. CloserIdle'
  BY <1>2, <1>5 DEF Call, Enqueue, CloserIdle, TypeInv, TypeOK, Tasks
<1>. QED
  BY <1>6, <1>7, <1>8 DEF Call, TypeInv, TypeOK, gatewayVars, pollVars

\* async_unload_entry keeps the type invariant.
LEMMA UnloadType ==
  ASSUME TypeInv, Unload
  PROVE  TypeInv'
<1>1. /\ <<"close">> \in Seq(Ops) /\ <<"close">> # <<>>
      /\ Closer \in Tasks /\ stage[Closer] # "waiting"
  BY DEF Unload, Ops, Commands, Tasks, CloserIdle, TypeInv
<1>2. /\ queue' \in Seq(Tasks) /\ stage' \in [Tasks -> Stages]
      /\ plan' \in [Tasks -> Seq(Ops)] /\ PlansPending' /\ QueueInv'
  BY <1>1, EnqueueType, Zenon DEF Unload
<1>3. CloserIdle'
  BY DEF Unload, CloserIdle
<1>. QED
  BY <1>2, <1>3 DEF Unload, TypeInv, TypeOK, gatewayVars, historyVars

\* Handing the lock on keeps the type invariant.
LEMMA AcquireType ==
  ASSUME TypeInv, NEW t \in Tasks, Acquire(t)
  PROVE  TypeInv'
<1>1. /\ queue' \in Seq(Tasks) /\ Len(queue') = Len(queue) - 1 /\ Len(queue) > 0
      /\ \A i \in 1..Len(queue') : queue'[i] = queue[i + 1]
      /\ queue[1] = t
  BY HeadTailProperties DEF Acquire, TypeInv, TypeOK
<1>2. stage[t] = "waiting"
  BY <1>1 DEF TypeInv, TypeOK, QueueInv
<1>3. stage' \in [Tasks -> Stages] /\ holder' \in Tasks \cup {NoTask}
  BY DEF Acquire, TypeInv, TypeOK, Stages, JobStages
<1>4. PlansPending'
  BY <1>2 DEF Acquire, TypeInv, TypeOK, PlansPending
<1>5. QueueInv'
  <2>1. \A i \in 1..Len(queue') : i + 1 \in 1..Len(queue) /\ i + 1 # 1
    BY <1>1 DEF TypeInv, TypeOK
  <2>2. \A i \in 1..Len(queue') : queue'[i] \in Tasks /\ queue'[i] # t
    <3>1. 1 \in 1..Len(queue) /\ \A i \in 1..Len(queue) : queue[i] \in Tasks
      BY <1>1 DEF TypeInv, TypeOK
    <3>2. ASSUME NEW i \in 1..Len(queue') PROVE queue[i + 1] # t
      BY <1>1, <2>1, <3>1, Zenon DEF TypeInv, QueueInv
    <3>. QED
      BY <1>1, <2>1, <3>1, <3>2
  <2>3. \A i \in 1..Len(queue') : stage'[queue'[i]] = "waiting"
    BY <1>1, <2>1, <2>2 DEF TypeInv, TypeOK, QueueInv, Acquire
  <2>4. ASSUME NEW i \in 1..Len(queue'), NEW j \in 1..Len(queue'),
               queue'[i] = queue'[j]
        PROVE  i = j
    <3>1. /\ i + 1 \in 1..Len(queue) /\ j + 1 \in 1..Len(queue)
          /\ queue[i + 1] = queue[j + 1]
      BY <1>1, <2>1, <2>4
    <3>2. i + 1 = j + 1
      BY <3>1, Zenon DEF TypeInv, QueueInv
    <3>. QED
      BY <3>2
  <2>. QED
    BY <2>3, <2>4 DEF QueueInv
<1>6. CloserIdle'
  BY <1>2 DEF Acquire, CloserIdle, TypeInv, TypeOK, Tasks
<1>7. floor' \in Nat
  BY DEF Acquire, TypeInv, TypeOK, Snapshots
<1>. QED
  BY <1>1, <1>3, <1>4, <1>5, <1>6, <1>7
  DEF Acquire, TypeInv, TypeOK, gatewayVars, pollVars

\* One step of an executor job.
LEMMA JobType ==
  ASSUME TypeInv, NEW t \in Tasks, Job(t)
  PROVE  TypeInv'
<1>1. ASSUME NEW s \in JobStages, stage[t] \in {"begun", "written"},
             stage' = [stage EXCEPT ![t] = s],
             UNCHANGED <<life, queue, plan>>
      PROVE  /\ stage' \in [Tasks -> Stages]
             /\ PlansPending' /\ QueueInv' /\ CloserIdle'
  <2>1. stage' \in [Tasks -> Stages]
    BY <1>1 DEF TypeInv, TypeOK, Stages
  <2>2. PlansPending'
    BY <1>1 DEF TypeInv, TypeOK, PlansPending
  <2>3. QueueInv'
    BY <1>1, QueueKept
  <2>4. CloserIdle'
    BY <1>1 DEF TypeInv, TypeOK, CloserIdle, Tasks
  <2>. QED
    BY <2>1, <2>2, <2>3, <2>4
<1>2. CASE Write(t)
  <2>1. due' \subseteq Tasks \X Commands
    BY <1>2 DEF Write, TypeInv, TypeOK, IsCommand
  <2>2. /\ stage' \in [Tasks -> Stages]
        /\ PlansPending' /\ QueueInv' /\ CloserIdle'
    BY <1>1, <1>2 DEF Write, JobStages
  <2>. QED
    BY <1>2, <2>1, <2>2 DEF Write, TypeInv, TypeOK, pollVars, historyVars
<1>3. CASE Read(t)
  <2>1. snap' \in [Tasks -> Snapshots \cup {NoData}]
    BY <1>3 DEF Read, TypeInv, TypeOK
  <2>2. /\ stage' \in [Tasks -> Stages]
        /\ PlansPending' /\ QueueInv' /\ CloserIdle'
    BY <1>1, <1>3 DEF Read, JobStages
  <2>. QED
    BY <1>3, <2>1, <2>2
    DEF Read, TypeInv, TypeOK, gatewayVars, pollVars, historyVars
<1>4. CASE Fail(t)
  <2>1. /\ stage' \in [Tasks -> Stages]
        /\ PlansPending' /\ QueueInv' /\ CloserIdle'
    BY <1>1, <1>4 DEF Fail, JobStages
  <2>. QED
    BY <1>4, <2>1
    DEF Fail, TypeInv, TypeOK, gatewayVars, pollVars, historyVars
<1>5. CASE Garble(t)
  <2>1. /\ stage' \in [Tasks -> Stages]
        /\ PlansPending' /\ QueueInv' /\ CloserIdle'
    BY <1>1, <1>5 DEF Garble, JobStages
  <2>. QED
    BY <1>5, <2>1
    DEF Garble, TypeInv, TypeOK, gatewayVars, pollVars, historyVars
<1>. QED
  BY <1>2, <1>3, <1>4, <1>5 DEF Job

\* Accepting the snapshot of a command keeps the type invariant.
LEMMA CommandSucceedsType ==
  ASSUME TypeInv, NEW t \in Tasks, CommandSucceeds(t)
  PROVE  TypeInv'
<1>1. plan[t] \in Seq(Ops) /\ plan[t] # <<>> /\ stage[t] = "read"
  BY DEF CommandSucceeds, TypeInv, TypeOK, PlansPending
<1>2. Tail(plan[t]) \in Seq(Ops) /\ Len(Tail(plan[t])) = Len(plan[t]) - 1
  BY <1>1, HeadTailProperties
<1>3. /\ queue' \in Seq(Tasks) /\ stage' \in [Tasks -> Stages]
      /\ plan' \in [Tasks -> Seq(Ops)] /\ PlansPending' /\ QueueInv'
  <2>1. CASE Len(plan[t]) = 1
    <3>1. stage' = [stage EXCEPT ![t] = "idle"] /\ queue' = queue
      BY <2>1 DEF CommandSucceeds
    <3>2. QueueInv'
      BY <1>1, <3>1, QueueKept
    <3>. QED
      BY <1>2, <3>1, <3>2
      DEF CommandSucceeds, TypeInv, TypeOK, PlansPending, Stages
  <2>2. CASE Len(plan[t]) # 1
    <3>1. Enqueue(t, Tail(plan[t]))
      BY <2>2 DEF CommandSucceeds, Enqueue
    <3>2. Tail(plan[t]) # <<>>
      <4>1. Len(plan[t]) \in Nat /\ Len(plan[t]) # 0
        BY <1>1
      <4>2. Len(Tail(plan[t])) # 0
        BY <1>2, <2>2, <4>1
      <4>3. Len(<<>>) = 0
        OBVIOUS
      <4>. QED
        BY <4>2, <4>3, Zenon
    <3>3. stage[t] # "waiting"
      BY <1>1
    <3>4. PICK ops \in Seq(Ops) : ops = Tail(plan[t])
      BY <1>2
    <3>5. Enqueue(t, ops) /\ ops # <<>>
      BY <3>1, <3>2, <3>4
    <3>. QED
      BY <3>3, <3>5, EnqueueType, Zenon
  <2>. QED
    BY <2>1, <2>2
<1>4. CloserIdle'
  BY <1>1 DEF CommandSucceeds, CloserIdle, TypeInv, TypeOK, Tasks
<1>5. /\ snap' \in [Tasks -> Snapshots \cup {NoData}]
      /\ data' \in Snapshots \cup {NoData} /\ lastMode' \in ActiveModes
      /\ lastOk' \in BOOLEAN /\ armed' \in BOOLEAN /\ holder' \in Tasks \cup {NoTask}
  BY DEF CommandSucceeds, TypeInv, TypeOK, Remember
<1>. QED
  BY <1>3, <1>4, <1>5
  DEF CommandSucceeds, TypeInv, TypeOK, gatewayVars, historyVars

\* A job has ended and its task, or nobody, takes the result.
LEMMA ResumeType ==
  ASSUME TypeInv, NEW t \in Tasks, Resume(t)
  PROVE  TypeInv'
<1>1. ASSUME Finish(t), queue' = queue, stage[t] \in EndedStages,
             life' = life \/ (life = "setup" /\ life' = "loaded")
      PROVE  /\ holder' \in Tasks \cup {NoTask} /\ stage' \in [Tasks -> Stages]
             /\ plan' \in [Tasks -> Seq(Ops)]
             /\ snap' \in [Tasks -> Snapshots \cup {NoData}]
             /\ PlansPending' /\ QueueInv' /\ CloserIdle'
  <2>1. stage[t] # "waiting"
    BY <1>1 DEF EndedStages
  <2>. QED
    BY <1>1, <2>1, FinishType DEF CloserIdle, TypeInv
<1>2. CASE PollSucceeds(t)
  <2>1. /\ holder' \in Tasks \cup {NoTask} /\ stage' \in [Tasks -> Stages]
        /\ plan' \in [Tasks -> Seq(Ops)]
        /\ snap' \in [Tasks -> Snapshots \cup {NoData}]
        /\ PlansPending' /\ QueueInv' /\ CloserIdle'
    BY <1>1, <1>2 DEF PollSucceeds, EndedStages
  <2>2. /\ data' \in Snapshots \cup {NoData} /\ lastMode' \in ActiveModes
        /\ life' \in {"setup", "loaded", "unloading", "unloaded"}
        /\ armed' \in BOOLEAN /\ interval' \in Intervals /\ failures' \in 0..MaxFailures
    BY <1>2, FreshType DEF PollSucceeds, TypeInv, TypeOK, Remember, Rearm
  <2>. QED
    BY <1>2, <2>1, <2>2
    DEF PollSucceeds, TypeInv, TypeOK, gatewayVars, historyVars
<1>3. CASE PollFails(t)
  <2>1. /\ holder' \in Tasks \cup {NoTask} /\ stage' \in [Tasks -> Stages]
        /\ plan' \in [Tasks -> Seq(Ops)]
        /\ snap' \in [Tasks -> Snapshots \cup {NoData}]
        /\ PlansPending' /\ QueueInv' /\ CloserIdle'
    BY <1>1, <1>3 DEF PollFails, EndedStages
  <2>2. failures' \in 0..MaxFailures /\ armed' \in BOOLEAN
    BY <1>3 DEF PollFails, TypeInv, TypeOK, CountFailure, Rearm
  <2>3. interval' \in Intervals
    <3>1. failures + 1 \in Nat /\ failures + 1 > 0
      BY DEF TypeInv, TypeOK
    <3>. QED
      BY <1>3, <3>1, BackoffType DEF PollFails
  <2>. QED
    BY <1>3, <2>1, <2>2, <2>3
    DEF PollFails, TypeInv, TypeOK, gatewayVars, historyVars
<1>4. CASE PollOverflows(t)
  <2>1. /\ holder' \in Tasks \cup {NoTask} /\ stage' \in [Tasks -> Stages]
        /\ plan' \in [Tasks -> Seq(Ops)]
        /\ snap' \in [Tasks -> Snapshots \cup {NoData}]
        /\ PlansPending' /\ QueueInv' /\ CloserIdle'
    BY <1>1, <1>4 DEF PollOverflows, EndedStages
  <2>2. failures' \in 0..MaxFailures /\ armed' \in BOOLEAN
    BY <1>4 DEF PollOverflows, TypeInv, TypeOK, CountFailure, Rearm
  <2>. QED
    BY <1>4, <2>1, <2>2
    DEF PollOverflows, TypeInv, TypeOK, gatewayVars, historyVars
<1>5. CASE PollGarbled(t)
  <2>1. /\ holder' \in Tasks \cup {NoTask} /\ stage' \in [Tasks -> Stages]
        /\ plan' \in [Tasks -> Seq(Ops)]
        /\ snap' \in [Tasks -> Snapshots \cup {NoData}]
        /\ PlansPending' /\ QueueInv' /\ CloserIdle'
    BY <1>1, <1>5 DEF PollGarbled, EndedStages
  <2>2. armed' \in BOOLEAN
    BY <1>5 DEF PollGarbled, Rearm
  <2>. QED
    BY <1>5, <2>1, <2>2
    DEF PollGarbled, TypeInv, TypeOK, gatewayVars, historyVars
<1>6. CASE SetupFails(t)
  BY <1>6, DiscardType DEF SetupFails
<1>7. CASE CommandSucceeds(t)
  BY <1>7, CommandSucceedsType
<1>8. CASE CommandFails(t)
  <2>1. /\ holder' \in Tasks \cup {NoTask} /\ stage' \in [Tasks -> Stages]
        /\ plan' \in [Tasks -> Seq(Ops)]
        /\ snap' \in [Tasks -> Snapshots \cup {NoData}]
        /\ PlansPending' /\ QueueInv' /\ CloserIdle'
    BY <1>1, <1>8 DEF CommandFails, EndedStages
  <2>. QED
    BY <1>8, <2>1
    DEF CommandFails, TypeInv, TypeOK, gatewayVars, pollVars, historyVars
<1>9. CASE OrphanEnds(t)
  <2>1. stage[t] # "waiting" /\ stage[t] # "idle"
    BY <1>9 DEF OrphanEnds, EndedStages
  <2>2. QueueInv'
    BY <1>9, <2>1, QueueKept DEF OrphanEnds
  <2>3. stage' \in [Tasks -> Stages] /\ plan' \in [Tasks -> Seq(Ops)]
    BY <1>9 DEF OrphanEnds, TypeInv, TypeOK, Stages
  <2>4. snap' \in [Tasks -> Snapshots \cup {NoData}] /\ orphans' \subseteq Tasks
    BY <1>9 DEF OrphanEnds, TypeInv, TypeOK
  <2>5. PlansPending' /\ CloserIdle'
    BY <1>9 DEF OrphanEnds, TypeInv, TypeOK, PlansPending, CloserIdle, Tasks
  <2>. QED
    BY <1>9, <2>2, <2>3, <2>4, <2>5
    DEF OrphanEnds, TypeInv, TypeOK, gatewayVars, pollVars, historyVars
<1>. QED
  BY <1>2, <1>3, <1>4, <1>5, <1>6, <1>7, <1>8, <1>9 DEF Resume

\* async_close keeps the type invariant.
LEMMA CloseType ==
  ASSUME TypeInv, Close
  PROVE  TypeInv'
<1>1. Closer \in Tasks /\ stage[Closer] # "waiting" /\ queue' = queue
  BY DEF Close, Tasks
<1>2. /\ holder' \in Tasks \cup {NoTask} /\ stage' \in [Tasks -> Stages]
      /\ plan' \in [Tasks -> Seq(Ops)]
      /\ snap' \in [Tasks -> Snapshots \cup {NoData}]
      /\ PlansPending' /\ QueueInv'
  BY <1>1, FinishType DEF Close
<1>3. CloserIdle'
  BY DEF Close, CloserIdle
<1>. QED
  BY <1>2, <1>3 DEF Close, TypeInv, TypeOK, gatewayVars, pollVars, historyVars

\* A cancelled task leaves the queue, or leaves its job behind.
LEMMA CancelType ==
  ASSUME TypeInv, NEW t \in Calls, Cancel(t)
  PROVE  TypeInv'
<1>1. t \in Tasks /\ t # Closer
  BY DEF Tasks
<1>2. CASE CancelWaiting(t)
  <2>1. PICK i \in 1..Len(queue) : queue[i] = t /\ queue' = RemoveAt(queue, i)
    BY <1>2 DEF CancelWaiting
  <2>2. /\ queue' \in Seq(Tasks) /\ Len(queue') = Len(queue) - 1
        /\ \A j \in 1..(Len(queue) - 1) :
             queue'[j] = IF j < i THEN queue[j] ELSE queue[j + 1]
    <3>1. queue \in Seq(Tasks)
      BY DEF TypeInv, TypeOK
    <3>2. /\ RemoveAt(queue, i) \in Seq(Tasks)
          /\ Len(RemoveAt(queue, i)) = Len(queue) - 1
          /\ \A j \in 1..(Len(queue) - 1) :
               RemoveAt(queue, i)[j] = IF j < i THEN queue[j] ELSE queue[j + 1]
      BY ONLY <3>1, i \in 1..Len(queue), RemoveAtProperties
    <3>. QED
      BY <2>1, <3>2
  <2>3. stage' \in [Tasks -> Stages] /\ plan' \in [Tasks -> Seq(Ops)]
    BY <1>2 DEF CancelWaiting, TypeInv, TypeOK, Stages
  <2>4. PlansPending' /\ CloserIdle'
    BY <1>1, <1>2
    DEF Cancel, CancelWaiting, TypeInv, TypeOK, PlansPending, CloserIdle, Tasks
  <2>5. Len(queue) \in Nat
    BY DEF TypeInv, TypeOK
  <2>. DEFINE from(j) == IF j < i THEN j ELSE j + 1
  <2>6. \A j \in 1..Len(queue') :
          /\ from(j) \in 1..Len(queue) /\ from(j) # i
          /\ queue'[j] = queue[from(j)]
    BY <2>2, <2>5
  <2>7. \A j, k \in 1..Len(queue') : from(j) = from(k) => j = k
    BY <2>2, <2>5
  <2>. HIDE DEF from
  <2>8. ASSUME NEW j \in 1..Len(queue')
        PROVE  /\ queue'[j] \in Tasks /\ queue'[j] # t
               /\ stage'[queue'[j]] = "waiting"
    <3>. DEFINE k == from(j)
    <3>1. k \in 1..Len(queue) /\ k # i /\ queue'[j] = queue[k]
      BY <2>6
    <3>. HIDE DEF k
    <3>2. queue[k] \in Tasks /\ stage[queue[k]] = "waiting"
      BY <3>1 DEF TypeInv, TypeOK, QueueInv
    <3>3. queue[k] # t
      BY <2>1, <3>1 DEF TypeInv, QueueInv
    <3>4. stage'[queue[k]] = stage[queue[k]]
      BY <1>2, <3>2, <3>3 DEF CancelWaiting, TypeInv, TypeOK
    <3>. QED
      BY <3>1, <3>2, <3>3, <3>4
  <2>9. \A j \in 1..Len(queue') : stage'[queue'[j]] = "waiting"
    BY <2>8
  <2>10. ASSUME NEW j \in 1..Len(queue'), NEW k \in 1..Len(queue'),
                queue'[j] = queue'[k]
         PROVE  j = k
    <3>1. queue[from(j)] = queue[from(k)]
      BY <2>6, <2>10
    <3>2. from(j) = from(k)
      BY <2>6, <3>1 DEF TypeInv, QueueInv
    <3>. QED
      BY <2>7, <3>2
  <2>11. QueueInv'
    BY <2>9, <2>10 DEF QueueInv
  <2>. QED
    BY <1>2, <2>2, <2>3, <2>4, <2>11
    DEF Cancel, CancelWaiting, TypeInv, TypeOK, gatewayVars, pollVars, historyVars
<1>3. CASE CancelRunning(t)
  <2>1. PlansPending' /\ QueueInv' /\ CloserIdle'
    BY <1>3 DEF Cancel, CancelRunning, TypeInv, PlansPending, QueueInv, CloserIdle
  <2>. QED
    BY <1>1, <1>3, <2>1
    DEF Cancel, CancelRunning, TypeInv, TypeOK, gatewayVars, pollVars, historyVars
<1>4. CASE CancelUnstarted(t)
  <2>1. stage[t] # "waiting" /\ queue' = queue
    BY <1>4 DEF CancelUnstarted
  <2>2. /\ holder' \in Tasks \cup {NoTask} /\ stage' \in [Tasks -> Stages]
        /\ plan' \in [Tasks -> Seq(Ops)]
        /\ snap' \in [Tasks -> Snapshots \cup {NoData}]
        /\ PlansPending' /\ QueueInv'
        /\ stage[Closer] = "idle" => stage'[Closer] = "idle"
    BY <1>1, <1>4, <2>1, FinishType DEF CancelUnstarted
  <2>3. CloserIdle'
    BY <2>2 DEF Cancel, CloserIdle, TypeInv
  <2>. QED
    BY <1>4, <2>2, <2>3
    DEF Cancel, CancelUnstarted, TypeInv, TypeOK, gatewayVars, pollVars, historyVars
<1>. QED
  BY <1>2, <1>3, <1>4 DEF Cancel

\* What the gateway, the network and the user do keeps the type invariant.
LEMMA EnvironmentType ==
  ASSUME TypeInv, Environment
  PROVE  TypeInv'
<1>1. CASE GatewayChange
  <2>1. gw' \in Snapshots
    BY <1>1 DEF GatewayChange, TypeInv, TypeOK, Snapshots
  <2>2. PlansPending' /\ QueueInv' /\ CloserIdle'
    BY <1>1 DEF GatewayChange, TypeInv, PlansPending, QueueInv, CloserIdle, lockVars
  <2>. QED
    BY <1>1, <2>1, <2>2
    DEF GatewayChange, TypeInv, TypeOK, lockVars, pollVars, historyVars
<1>2. CASE Outage
  <2>1. PlansPending' /\ QueueInv' /\ CloserIdle'
    BY <1>2 DEF Outage, TypeInv, PlansPending, QueueInv, CloserIdle, lockVars
  <2>. QED
    BY <1>2, <2>1 DEF Outage, TypeInv, TypeOK, lockVars, pollVars, historyVars
<1>3. CASE Restart
  BY <1>3, DiscardType DEF Restart
<1>4. CASE Reload
  BY <1>4, DiscardType DEF Reload
<1>5. CASE Unload
  BY <1>5, UnloadType
<1>6. ASSUME NEW w \in due, TakeUp(w) PROVE TypeInv'
  <2>1. gw.ver \in Nat /\ w[2] \in Commands /\ gw.mode \in Modes \cup AppModes
    BY DEF TypeInv, TypeOK, Snapshots
  <2>2. gw' \in Snapshots /\ floor' \in Nat /\ due' \subseteq Tasks \X Commands
    BY <1>6, <2>1 DEF TakeUp, TypeInv, TypeOK, Snapshots, Commands
  <2>3. PlansPending' /\ QueueInv' /\ CloserIdle'
    BY <1>6 DEF TakeUp, TypeInv, PlansPending, QueueInv, CloserIdle, lockVars
  <2>. QED
    BY <1>6, <2>2, <2>3 DEF TakeUp, TypeInv, TypeOK, lockVars, pollVars
<1>. QED
  BY <1>1, <1>2, <1>3, <1>4, <1>5, <1>6 DEF Environment

\* Every step keeps the type invariant.
LEMMA NextType == TypeInv /\ [Next]_vars => TypeInv'
<1>. SUFFICES ASSUME TypeInv, [Next]_vars PROVE TypeInv'
  OBVIOUS
<1>1. CASE FirstRefresh
  BY <1>1, FirstRefreshType
<1>2. CASE PollDue
  BY <1>2, PollDueType
<1>3. CASE Close
  BY <1>3, CloseType
<1>4. ASSUME NEW c \in Calls, Call(c) PROVE TypeInv'
  BY <1>4, CallType
<1>5. ASSUME NEW c \in Calls, Cancel(c) PROVE TypeInv'
  BY <1>5, CancelType
<1>6. ASSUME NEW t \in Tasks, Acquire(t) PROVE TypeInv'
  BY <1>6, AcquireType
<1>7. ASSUME NEW t \in Tasks, Job(t) PROVE TypeInv'
  BY <1>7, JobType
<1>8. ASSUME NEW t \in Tasks, Resume(t) PROVE TypeInv'
  BY <1>8, ResumeType
<1>9. CASE Environment
  BY <1>9, EnvironmentType
<1>10. CASE UNCHANGED vars
  BY <1>10
  DEF vars, lockVars, gatewayVars, pollVars, historyVars, TypeInv, TypeOK,
      PlansPending, QueueInv, CloserIdle
<1>. QED
  BY <1>1, <1>2, <1>3, <1>4, <1>5, <1>6, <1>7, <1>8, <1>9, <1>10 DEF Next

\* Coordinator, client and lock keep their types, the lock's queue holds exactly
\* waiting tasks, each once, and a task in progress has sections left to run.
THEOREM TypeCorrect == Spec => []TypeInv
<1>. QED
  BY InitType, NextType, PTL DEF Spec

\* Every variable keeps its type, through any number of polls, service calls,
\* restarts and reloads.
THEOREM TypesKept == Spec => []TypeOK
<1>1. TypeInv => TypeOK
  BY DEF TypeInv
<1>. QED
  BY <1>1, TypeCorrect, PTL

------------------------------------------------------------------------------
(* One job at a time                                                       *)

\* A job whose task was not cancelled runs under the lock; only tasks that may
\* be cancelled leave a job behind.
LockInv ==
  /\ orphans \subseteq Cancellable
  /\ \A t \in Tasks \ orphans : stage[t] \in JobStages => holder = t

\* Initially nobody holds the lock and no job runs.
LEMMA InitLock == Init => LockInv
  BY DEF Init, LockInv, JobStages

\* A task that held the lock leaves it: nobody else runs a job under it.
LEMMA ReleaseLock ==
  ASSUME TypeInv, LockInv, NEW t \in Tasks, t \notin orphans,
         stage[t] \in JobStages, NEW s, s \notin JobStages,
         stage' = [stage EXCEPT ![t] = s], orphans' = orphans
  PROVE  LockInv'
<1>1. \A u \in Tasks \ orphans : u # t => stage[u] \notin JobStages
  BY DEF LockInv
<1>2. \A u \in Tasks \ orphans : stage'[u] \notin JobStages
  BY <1>1 DEF TypeInv, TypeOK
<1>. QED
  BY <1>2 DEF LockInv

\* A task that runs no job changes its stage: the lock is as it was.
LEMMA KeepLock ==
  ASSUME TypeInv, LockInv, NEW t \in Tasks, NEW s,
         s \in JobStages => stage[t] \in JobStages,
         stage' = [stage EXCEPT ![t] = s], orphans' = orphans, holder' = holder
  PROVE  LockInv'
  BY DEF LockInv, TypeInv, TypeOK

\* Every step keeps the invariant of the lock.
LEMMA NextLock == TypeInv /\ LockInv /\ [Next]_vars => LockInv'
<1>. SUFFICES ASSUME TypeInv, LockInv, [Next]_vars PROVE LockInv'
  OBVIOUS
<1>1. ASSUME Discard PROVE LockInv'
  BY <1>1 DEF Discard, LockInv, JobStages
<1>2. ASSUME NEW t \in Tasks, NEW ops, Enqueue(t, ops),
             orphans' = orphans, holder' = holder
      PROVE  LockInv'
  <2>1. "waiting" \notin JobStages
    BY DEF JobStages
  <2>. QED
    BY <1>2, <2>1, KeepLock, Zenon DEF Enqueue
<1>3. ASSUME NEW t \in Tasks, Finish(t), stage[t] \in JobStages, orphans' = orphans
      PROVE  LockInv'
  <2>1. "idle" \notin JobStages
    BY DEF JobStages
  <2>. QED
    BY <1>3, <2>1, ReleaseLock, Zenon DEF Finish
<1>4. CASE FirstRefresh
  <2>1. PICK t \in Pollers : Enqueue(t, <<"poll">>)
    BY <1>4 DEF FirstRefresh
  <2>. QED
    BY <1>2, <1>4, <2>1 DEF FirstRefresh, Tasks
<1>5. CASE PollDue
  <2>1. PICK t \in Pollers : Enqueue(t, <<"poll">>)
    BY <1>5 DEF PollDue
  <2>. QED
    BY <1>2, <1>5, <2>1 DEF PollDue, Tasks
<1>6. CASE Close
  BY <1>3, <1>6 DEF Close, Tasks, JobStages
<1>7. ASSUME NEW c \in Calls, Call(c) PROVE LockInv'
  <2>1. PICK s \in Services : \E ops \in ServicePlans(s) : Enqueue(c, ops)
    BY <1>7 DEF Call
  <2>2. PICK ops \in ServicePlans(s) : Enqueue(c, ops)
    BY <2>1
  <2>. QED
    BY <1>2, <1>7, <2>2 DEF Call, Tasks
<1>8. ASSUME NEW c \in Calls, Cancel(c) PROVE LockInv'
  <2>1. c \in Tasks /\ c \in Cancellable
    BY <1>8 DEF Cancel, Tasks
  <2>2. CASE CancelWaiting(c)
    <3>1. "idle" \notin JobStages
      BY DEF JobStages
    <3>. QED
      BY <2>1, <2>2, <3>1, KeepLock, Zenon DEF CancelWaiting
  <2>3. CASE CancelRunning(c)
    <3>1. \A u \in Tasks \ orphans : u # c => stage[u] \notin JobStages
      BY <2>1, <2>3 DEF CancelRunning, LockInv
    <3>. QED
      BY <2>1, <2>3, <3>1 DEF CancelRunning, LockInv
  <2>4. CASE CancelUnstarted(c)
    BY <1>3, <2>1, <2>4 DEF CancelUnstarted, JobStages
  <2>. QED
    BY <1>8, <2>2, <2>3, <2>4 DEF Cancel
<1>9. ASSUME NEW t \in Tasks, Acquire(t) PROVE LockInv'
  <2>1. \A u \in Tasks \ orphans : stage[u] \notin JobStages
    BY <1>9 DEF Acquire, LockInv
  <2>. QED
    BY <1>9, <2>1 DEF Acquire, LockInv, TypeInv, TypeOK
<1>10. ASSUME NEW t \in Tasks, Job(t) PROVE LockInv'
  <2>1. /\ stage[t] \in JobStages /\ orphans' = orphans /\ holder' = holder
        /\ \E s : stage' = [stage EXCEPT ![t] = s]
    BY <1>10 DEF Job, Write, Read, Fail, Garble, JobStages
  <2>. QED
    BY <2>1, KeepLock, Zenon
<1>11. ASSUME NEW t \in Tasks, Resume(t) PROVE LockInv'
  <2>1. CASE PollSucceeds(t)
    BY <1>3, <2>1 DEF PollSucceeds, JobStages
  <2>2. CASE PollFails(t)
    BY <1>3, <2>2 DEF PollFails, JobStages
  <2>3. CASE PollOverflows(t)
    BY <1>3, <2>3 DEF PollOverflows, JobStages
  <2>4. CASE PollGarbled(t)
    BY <1>3, <2>4 DEF PollGarbled, JobStages
  <2>5. CASE SetupFails(t)
    BY <1>1, <2>5 DEF SetupFails
  <2>6. CASE CommandSucceeds(t)
    <3>1. /\ t \notin orphans /\ stage[t] \in JobStages /\ orphans' = orphans
          /\ \/ stage' = [stage EXCEPT ![t] = "idle"]
             \/ stage' = [stage EXCEPT ![t] = "waiting"]
      BY <2>6 DEF CommandSucceeds, JobStages
    <3>2. "idle" \notin JobStages /\ "waiting" \notin JobStages
      BY DEF JobStages
    <3>. QED
      BY <3>1, <3>2, ReleaseLock, Zenon
  <2>7. CASE CommandFails(t)
    BY <1>3, <2>7 DEF CommandFails, JobStages
  <2>8. CASE OrphanEnds(t)
    BY <2>8 DEF OrphanEnds, LockInv, TypeInv, TypeOK, JobStages
  <2>. QED
    BY <1>11, <2>1, <2>2, <2>3, <2>4, <2>5, <2>6, <2>7, <2>8 DEF Resume
<1>12. CASE Environment
  <2>1. CASE Unload
    BY <1>2, <2>1 DEF Unload, Tasks
  <2>2. CASE GatewayChange \/ Outage \/ \E w \in due : TakeUp(w)
    BY <2>2 DEF GatewayChange, Outage, TakeUp, lockVars, LockInv
  <2>3. CASE Restart \/ Reload
    BY <1>1, <2>3 DEF Restart, Reload
  <2>. QED
    BY <1>12, <2>1, <2>2, <2>3 DEF Environment
<1>13. CASE UNCHANGED vars
  BY <1>13 DEF vars, lockVars, LockInv
<1>. QED
  BY <1>4, <1>5, <1>6, <1>7, <1>8, <1>9, <1>10, <1>11, <1>12, <1>13 DEF Next

\* The asyncio lock does what it is for: of the tasks nobody has cancelled, at
\* most one has a job at the gateway.
THEOREM LockExcludes ==
  Spec => [](\A t, u \in Tasks \ orphans :
               stage[t] \in JobStages /\ stage[u] \in JobStages => t = u)
<1>1. LockInv => \A t, u \in Tasks \ orphans :
                   stage[t] \in JobStages /\ stage[u] \in JobStages => t = u
  BY DEF LockInv
<1>. QED
  BY <1>1, TypeCorrect, InitLock, NextLock, PTL DEF Spec

\* Where no service call is cancelled while it runs, the session is never used by
\* two executor jobs at the same time.
THEOREM SessionExclusive ==
  ASSUME Cancellable = {}
  PROVE  Spec => []OneJobAtATime
<1>1. LockInv => OneJobAtATime
  BY DEF LockInv, OneJobAtATime
<1>. QED
  BY <1>1, TypeCorrect, InitLock, NextLock, PTL DEF Spec

------------------------------------------------------------------------------
(* Snapshots are published in the order they were read                     *)

\* What the entities see is no newer than the gateway; a snapshot waiting to be
\* published is no older than what they see.
FreshInv ==
  /\ data # NoData => data.ver <= gw.ver
  /\ \A t \in Tasks \ orphans : stage[t] = "read" =>
       /\ snap[t] # NoData /\ snap[t].ver <= gw.ver
       /\ data # NoData => data.ver <= snap[t].ver

\* Nothing that FreshInv speaks of has changed, but for jobs that end.
LEMMA FreshKept ==
  ASSUME TypeInv, FreshInv,
         UNCHANGED <<data, gw>>, orphans \subseteq orphans',
         \A t \in Tasks : stage'[t] = "read" => stage[t] = "read" /\ snap'[t] = snap[t]
  PROVE  FreshInv'
  BY DEF FreshInv

\* A task publishes the snapshot its job has read, and releases the lock.
LEMMA FreshPublished ==
  ASSUME TypeInv, LockInv, FreshInv, NEW t \in Tasks, t \notin orphans,
         stage[t] = "read", NEW s, s # "read",
         stage' = [stage EXCEPT ![t] = s], data' = snap[t],
         UNCHANGED <<gw, orphans>>
  PROVE  /\ FreshInv'
         /\ data # NoData => data'.ver >= data.ver
<1>1. "read" \in JobStages
  BY DEF JobStages
<1>2. \A u \in Tasks \ orphans : u # t => stage[u] # "read"
  BY <1>1 DEF LockInv
<1>3. \A u \in Tasks \ orphans : stage'[u] # "read"
  BY <1>2 DEF TypeInv, TypeOK
<1>4. snap[t] \in Snapshots /\ snap[t].ver <= gw.ver
  BY DEF FreshInv, TypeInv, TypeOK
<1>5. FreshInv'
  BY <1>3, <1>4 DEF FreshInv
<1>6. data # NoData => data.ver \in Nat /\ data.ver <= snap[t].ver
  BY DEF FreshInv, TypeInv, TypeOK, Snapshots
<1>7. snap[t].ver \in Nat
  BY <1>4 DEF TypeInv, TypeOK, Snapshots
<1>. QED
  BY <1>4, <1>5, <1>6, <1>7

\* Initially no snapshot has been read or published.
LEMMA InitFresh == Init => FreshInv
  BY DEF Init, FreshInv

\* What one step may do to the published snapshot.
Ordered == data # NoData /\ data' # NoData => data'.ver >= data.ver

\* Every step keeps the order of the snapshots: published, read, current.
LEMMA NextFresh ==
  TypeInv /\ LockInv /\ FreshInv /\ [Next]_vars => FreshInv' /\ Ordered
<1>. SUFFICES ASSUME TypeInv, LockInv, FreshInv, [Next]_vars
              PROVE  FreshInv' /\ Ordered
  OBVIOUS
<1>0. data # NoData => data.ver \in Nat
  BY DEF TypeInv, TypeOK, Snapshots
\* Steps that publish nothing.
<1>1. ASSUME FreshInv', data' = data
      PROVE  FreshInv' /\ Ordered
  BY <1>0, <1>1 DEF Ordered
<1>2. ASSUME Discard PROVE FreshInv' /\ Ordered
  BY <1>2 DEF Discard, FreshInv, Ordered, gatewayVars, TypeInv, TypeOK, Snapshots
<1>3. ASSUME NEW t \in Tasks, NEW s, s # "read",
             stage' = [stage EXCEPT ![t] = s], stage[t] # "read",
             UNCHANGED <<data, gw, snap, orphans>>
      PROVE  FreshInv' /\ Ordered
  <2>1. \A u \in Tasks : /\ stage'[u] = "read" => stage[u] = "read"
                         /\ stage[u] = "read" => stage'[u] = "read"
    BY <1>3 DEF TypeInv, TypeOK
  <2>2. FreshInv'
    BY <1>3, <2>1, FreshKept
  <2>. QED
    BY <1>1, <1>3, <2>1, <2>2 DEF Tasks
<1>4. ASSUME NEW t \in Tasks, Finish(t), stage[t] # "read",
             UNCHANGED <<data, gw, orphans>>
      PROVE  FreshInv' /\ Ordered
  <2>1. \A u \in Tasks : /\ stage'[u] = "read" => stage[u] = "read" /\ snap'[u] = snap[u]
                         /\ stage[u] = "read" => stage'[u] = "read"
    BY <1>4 DEF Finish, TypeInv, TypeOK
  <2>2. FreshInv'
    BY <1>4, <2>1, FreshKept
  <2>. QED
    BY <1>1, <1>4, <2>1, <2>2 DEF Tasks
<1>5. ASSUME NEW t \in Tasks, t \notin orphans, stage[t] = "read", NEW s, s # "read",
             stage' = [stage EXCEPT ![t] = s], data' = snap[t],
             UNCHANGED <<gw, orphans>>
      PROVE  FreshInv' /\ Ordered
  <2>1. /\ FreshInv'
        /\ data # NoData => data'.ver >= data.ver
    BY <1>5, FreshPublished
  <2>. QED
    BY <2>1 DEF Ordered
<1>6. CASE FirstRefresh
  <2>1. PICK t \in Pollers : Enqueue(t, <<"poll">>)
    BY <1>6 DEF FirstRefresh
  <2>2. t \in Tasks /\ stage[t] # "read"
    BY <1>6 DEF FirstRefresh, Tasks
  <2>. QED
    BY <1>3, <1>6, <2>1, <2>2 DEF FirstRefresh, Enqueue, gatewayVars, historyVars
<1>7. CASE PollDue
  <2>1. PICK t \in Pollers : stage[t] = "idle" /\ Enqueue(t, <<"poll">>)
    BY <1>7 DEF PollDue
  <2>2. t \in Tasks /\ stage[t] # "read"
    BY <2>1 DEF Tasks
  <2>. QED
    BY <1>3, <1>7, <2>1, <2>2 DEF PollDue, Enqueue, gatewayVars, historyVars
<1>8. CASE Close
  <2>1. Closer \in Tasks /\ stage[Closer] # "read"
    BY <1>8 DEF Close, Tasks
  <2>. QED
    BY <1>4, <1>8, <2>1 DEF Close, gatewayVars, historyVars
<1>9. ASSUME NEW c \in Calls, Call(c) PROVE FreshInv' /\ Ordered
  <2>1. c \in Tasks /\ stage[c] # "read" /\ stage' = [stage EXCEPT ![c] = "waiting"]
    BY <1>9 DEF Call, Enqueue, Tasks
  <2>. QED
    BY <1>3, <1>9, <2>1 DEF Call, gatewayVars
<1>10. ASSUME NEW c \in Calls, Cancel(c) PROVE FreshInv' /\ Ordered
  <2>1. c \in Tasks /\ UNCHANGED <<data, gw>>
    BY <1>10 DEF Cancel, Tasks, gatewayVars, historyVars
  <2>2. CASE CancelWaiting(c)
    BY <1>3, <2>1, <2>2 DEF CancelWaiting
  <2>3. CASE CancelRunning(c)
    <3>1. FreshInv'
      BY <2>1, <2>3, FreshKept DEF CancelRunning
    <3>. QED
      BY <1>1, <2>1, <2>3, <3>1 DEF CancelRunning
  <2>4. CASE CancelUnstarted(c)
    BY <1>4, <2>1, <2>4 DEF CancelUnstarted
  <2>. QED
    BY <1>10, <2>2, <2>3, <2>4 DEF Cancel
<1>11. ASSUME NEW t \in Tasks, Acquire(t) PROVE FreshInv' /\ Ordered
  <2>1. 1 \in 1..Len(queue) /\ queue[1] = t
    BY <1>11 DEF Acquire, TypeInv, TypeOK
  <2>2. stage[t] # "read"
    BY <2>1 DEF TypeInv, QueueInv
  <2>. QED
    BY <1>3, <1>11, <2>2 DEF Acquire, gatewayVars, historyVars
<1>12. ASSUME NEW t \in Tasks, Job(t) PROVE FreshInv' /\ Ordered
  <2>1. CASE Write(t)
    BY <1>3, <2>1 DEF Write, historyVars
  <2>2. CASE Read(t)
    <3>1. /\ UNCHANGED <<data, gw, orphans>>
          /\ stage[t] # "read"
          /\ \A u \in Tasks : u # t => stage'[u] = stage[u] /\ snap'[u] = snap[u]
          /\ stage'[t] = "read" /\ snap'[t] = gw
      BY <2>2 DEF Read, gatewayVars, historyVars, TypeInv, TypeOK
    <3>2. gw # NoData /\ gw.ver \in Nat
      BY DEF TypeInv, TypeOK, Snapshots
    <3>3. FreshInv'
      BY <3>1, <3>2 DEF FreshInv
    <3>. QED
      BY <1>1, <3>1, <3>3 DEF Tasks
  <2>3. CASE Fail(t)
    BY <1>3, <2>3 DEF Fail, gatewayVars, historyVars
  <2>4. CASE Garble(t)
    BY <1>3, <2>4 DEF Garble, gatewayVars, historyVars
  <2>. QED
    BY <1>12, <2>1, <2>2, <2>3, <2>4 DEF Job
<1>13. ASSUME NEW t \in Tasks, Resume(t) PROVE FreshInv' /\ Ordered
  <2>1. CASE PollSucceeds(t)
    <3>1. /\ t \notin orphans /\ stage[t] = "read" /\ data' = snap[t]
          /\ stage' = [stage EXCEPT ![t] = "idle"] /\ UNCHANGED <<gw, orphans>>
      BY <2>1 DEF PollSucceeds, Finish, gatewayVars, historyVars
    <3>2. "idle" # "read"
      OBVIOUS
    <3>. QED
      BY <1>5, <3>1, <3>2, Zenon
  <2>2. CASE PollFails(t)
    BY <1>4, <2>2 DEF PollFails, gatewayVars, historyVars
  <2>3. CASE PollOverflows(t)
    BY <1>4, <2>3 DEF PollOverflows, gatewayVars, historyVars
  <2>4. CASE PollGarbled(t)
    BY <1>4, <2>4 DEF PollGarbled, gatewayVars, historyVars
  <2>5. CASE SetupFails(t)
    BY <1>2, <2>5 DEF SetupFails
  <2>6. CASE CommandSucceeds(t)
    <3>1. \E s : s # "read" /\ stage' = [stage EXCEPT ![t] = s]
      BY <2>6 DEF CommandSucceeds
    <3>2. /\ t \notin orphans /\ stage[t] = "read" /\ data' = snap[t]
          /\ UNCHANGED <<gw, orphans>>
      BY <2>6 DEF CommandSucceeds, gatewayVars, historyVars
    <3>. QED
      BY <1>5, <3>1, <3>2, Zenon
  <2>7. CASE CommandFails(t)
    BY <1>4, <2>7 DEF CommandFails, gatewayVars, historyVars
  <2>8. CASE OrphanEnds(t)
    <3>1. /\ UNCHANGED <<data, gw>> /\ orphans' = orphans \ {t} /\ t \in orphans
          /\ \A u \in Tasks : u # t => stage'[u] = stage[u] /\ snap'[u] = snap[u]
          /\ stage'[t] = "idle"
      BY <2>8 DEF OrphanEnds, gatewayVars, historyVars, TypeInv, TypeOK
    <3>2. FreshInv'
      BY <3>1 DEF FreshInv
    <3>. QED
      BY <1>1, <3>1, <3>2 DEF Tasks
  <2>. QED
    BY <1>13, <2>1, <2>2, <2>3, <2>4, <2>5, <2>6, <2>7, <2>8 DEF Resume
<1>14. CASE Environment
  <2>1. CASE GatewayChange \/ \E w \in due : TakeUp(w)
    <3>1. gw.ver \in Nat /\ gw'.ver = gw.ver + 1
      BY <2>1 DEF GatewayChange, TakeUp, TypeInv, TypeOK, Snapshots
    <3>2. UNCHANGED <<data, snap, stage, orphans>>
      BY <2>1 DEF GatewayChange, TakeUp, lockVars
    <3>3. \A u \in Tasks : snap[u] # NoData => snap[u].ver \in Nat
      BY DEF TypeInv, TypeOK, Snapshots
    <3>4. FreshInv'
      BY <1>0, <3>1, <3>2, <3>3 DEF FreshInv
    <3>. QED
      BY <1>1, <3>2, <3>4
  <2>2. CASE Outage
    <3>1. FreshInv'
      BY <2>2 DEF Outage, lockVars, historyVars, FreshInv
    <3>. QED
      BY <1>1, <2>2, <3>1 DEF Outage, lockVars
  <2>3. CASE Restart \/ Reload
    BY <1>2, <2>3 DEF Restart, Reload
  <2>4. CASE Unload
    <3>1. Closer \in Tasks /\ stage[Closer] # "read"
      BY <2>4 DEF Unload, Tasks, TypeInv, CloserIdle
    <3>. QED
      BY <1>3, <2>4, <3>1 DEF Unload, Enqueue, gatewayVars, historyVars
  <2>. QED
    BY <1>14, <2>1, <2>2, <2>3, <2>4 DEF Environment
<1>15. CASE UNCHANGED vars
  <2>1. FreshInv'
    BY <1>15 DEF vars, lockVars, gatewayVars, historyVars, FreshInv
  <2>. QED
    BY <1>1, <1>15, <2>1 DEF vars, lockVars
<1>. QED
  BY <1>6, <1>7, <1>8, <1>9, <1>10, <1>11, <1>12, <1>13, <1>14, <1>15 DEF Next

\* Whatever order polls and commands end in, the snapshot shown to the entities
\* never goes back to an earlier state of the gateway.
NeverOlder ==
  [][data # NoData /\ data' # NoData => data'.ver >= data.ver]_data

\* With any number of polls and service calls in flight, cancelled or not, the
\* published snapshot never goes back to an earlier state of the gateway.
THEOREM NeverOlderHolds == Spec => NeverOlder
<1>1. TypeInv /\ LockInv /\ FreshInv /\ [Next]_vars
        => [data # NoData /\ data' # NoData => data'.ver >= data.ver]_data
  BY NextFresh DEF Ordered
<1>. QED
  BY <1>1, TypeCorrect, InitLock, NextLock, InitFresh, NextFresh, PTL
  DEF Spec, NeverOlder

------------------------------------------------------------------------------
(* The coordinator implements the store of snapshots                       *)

\* The store's floor: the lock's holder publishes nothing from before it.
FloorInv ==
  /\ holder # NoTask => floor <= gw.ver
  /\ \A t \in Tasks \ orphans : stage[t] = "read" => floor <= snap[t].ver

\* What a step of the coordinator is for the store.
StoreStep == [Store!Next]_(Store!vars)

\* Initially nothing is in view and no turn is under way.
LEMMA InitStore == Init => Store!Init /\ FloorInv
  BY DEF Init, Store!Init, FloorInv

\* A step that the store does not see.
LEMMA Unseen ==
  ASSUME TypeInv, FloorInv,
         UNCHANGED <<data, gw, holder, floor>>, orphans \subseteq orphans',
         \A t \in Tasks : stage'[t] = "read" => stage[t] = "read" /\ snap'[t] = snap[t]
  PROVE  StoreStep /\ FloorInv'
  BY DEF StoreStep, FloorInv, Store!vars

\* A task leaves the lock without publishing anything.
LEMMA GivenUp ==
  ASSUME TypeInv, LockInv, FloorInv, NEW t \in Tasks \ orphans, stage[t] \in JobStages,
         holder' = NoTask, UNCHANGED <<data, gw, floor>>, orphans \subseteq orphans',
         \A u \in Tasks : stage'[u] = "read" => stage[u] = "read" /\ snap'[u] = snap[u]
  PROVE  StoreStep /\ FloorInv'
<1>1. holder = t
  BY DEF LockInv
<1>2. Store!GiveUp(t)
  BY <1>1 DEF Store!GiveUp
<1>. QED
  BY <1>2 DEF StoreStep, FloorInv, Store!Next

\* A task publishes what it has read in its turn.
LEMMA Shown ==
  ASSUME TypeInv, LockInv, FreshInv, FloorInv, NEW t \in Tasks \ orphans,
         stage[t] = "read", NEW s, s # "read",
         stage' = [stage EXCEPT ![t] = s], data' = snap[t], holder' = NoTask,
         UNCHANGED <<gw, floor, orphans>>
  PROVE  StoreStep /\ FloorInv'
<1>1. "read" \in JobStages
  BY DEF JobStages
<1>2. holder = t /\ \A u \in Tasks \ orphans : u # t => stage[u] # "read"
  BY <1>1 DEF LockInv
<1>3. \A u \in Tasks \ orphans : stage'[u] # "read"
  BY <1>2 DEF TypeInv, TypeOK
<1>4. /\ snap[t] # NoData /\ floor <= snap[t].ver /\ snap[t].ver <= gw.ver
      /\ floor \in Nat /\ snap[t].ver \in Nat /\ gw.ver \in Nat
  BY DEF FreshInv, FloorInv, TypeInv, TypeOK, Snapshots
<1>5. snap[t].ver \in floor..gw.ver
  BY <1>4
<1>6. Store!Show(t)
  BY <1>2, <1>4, <1>5 DEF Store!Show
<1>. QED
  BY <1>3, <1>6 DEF StoreStep, FloorInv, Store!Next

\* A restart, a reload or a failed setup.
LEMMA Forgotten ==
  ASSUME Discard
  PROVE  StoreStep /\ FloorInv'
  BY DEF Discard, StoreStep, FloorInv, Store!Next, Store!Forget, gatewayVars

\* Every step of the coordinator is a step of the store, or none.
LEMMA NextStore ==
  TypeInv /\ LockInv /\ FreshInv /\ FloorInv /\ [Next]_vars => StoreStep /\ FloorInv'
<1>. SUFFICES ASSUME TypeInv, LockInv, FreshInv, FloorInv, [Next]_vars
              PROVE  StoreStep /\ FloorInv'
  OBVIOUS
<1>1. ASSUME NEW t \in Tasks, NEW s, s # "read", stage' = [stage EXCEPT ![t] = s],
             UNCHANGED <<data, gw, holder, floor, snap, orphans>>
      PROVE  StoreStep /\ FloorInv'
  <2>1. \A u \in Tasks : stage'[u] = "read" => stage[u] = "read"
    BY <1>1 DEF TypeInv, TypeOK
  <2>. QED
    BY <1>1, <2>1, Unseen
<1>2. ASSUME NEW t \in Tasks, Finish(t), stage[t] \in JobStages,
             UNCHANGED <<data, gw, floor, orphans>>
      PROVE  StoreStep /\ FloorInv'
  <2>1. \A u \in Tasks : stage'[u] = "read" => stage[u] = "read" /\ snap'[u] = snap[u]
    BY <1>2 DEF Finish, TypeInv, TypeOK
  <2>. QED
    BY <1>2, <2>1, GivenUp DEF Finish
<1>3. CASE FirstRefresh
  <2>1. PICK t \in Pollers : Enqueue(t, <<"poll">>)
    BY <1>3 DEF FirstRefresh
  <2>. QED
    BY <1>1, <1>3, <2>1 DEF FirstRefresh, Enqueue, Tasks, gatewayVars, historyVars
<1>4. CASE PollDue
  <2>1. PICK t \in Pollers : Enqueue(t, <<"poll">>)
    BY <1>4 DEF PollDue
  <2>. QED
    BY <1>1, <1>4, <2>1 DEF PollDue, Enqueue, Tasks, gatewayVars, historyVars
<1>5. CASE Close
  BY <1>2, <1>5 DEF Close, Tasks, JobStages, gatewayVars, historyVars
<1>6. ASSUME NEW c \in Calls, Call(c) PROVE StoreStep /\ FloorInv'
  <2>1. c \in Tasks /\ stage' = [stage EXCEPT ![c] = "waiting"]
    BY <1>6 DEF Call, Enqueue, Tasks
  <2>. QED
    BY <1>1, <1>6, <2>1 DEF Call, gatewayVars
<1>7. ASSUME NEW c \in Calls, Cancel(c) PROVE StoreStep /\ FloorInv'
  <2>1. c \in Tasks /\ UNCHANGED <<data, gw, floor>>
    BY <1>7 DEF Cancel, Tasks, gatewayVars, historyVars
  <2>2. CASE CancelWaiting(c)
    BY <1>1, <2>1, <2>2 DEF CancelWaiting
  <2>3. CASE CancelRunning(c)
    BY <2>1, <2>3, GivenUp DEF CancelRunning
  <2>4. CASE CancelUnstarted(c)
    BY <1>2, <2>1, <2>4 DEF CancelUnstarted, JobStages
  <2>. QED
    BY <1>7, <2>2, <2>3, <2>4 DEF Cancel
<1>8. ASSUME NEW t \in Tasks, Acquire(t) PROVE StoreStep /\ FloorInv'
  <2>1. Store!Begin(t)
    BY <1>8 DEF Acquire, Store!Begin, gatewayVars
  <2>2. "read" \in JobStages
    BY DEF JobStages
  <2>3. \A u \in Tasks \ orphans : stage[u] # "read"
    BY <1>8, <2>2 DEF Acquire, LockInv
  <2>4. gw.ver \in Nat /\ UNCHANGED <<gw, orphans>> /\ floor' = gw.ver
    BY <1>8 DEF Acquire, gatewayVars, TypeInv, TypeOK, Snapshots
  <2>5. FloorInv'
    BY <1>8, <2>3, <2>4 DEF Acquire, FloorInv, TypeInv, TypeOK
  <2>. QED
    BY <2>1, <2>5 DEF StoreStep, Store!Next
<1>9. ASSUME NEW t \in Tasks, Job(t) PROVE StoreStep /\ FloorInv'
  <2>1. CASE Write(t)
    BY <1>1, <2>1 DEF Write, historyVars
  <2>2. CASE Read(t)
    <3>1. /\ UNCHANGED <<data, gw, holder, floor, orphans>> /\ stage[t] \in JobStages
          /\ \A u \in Tasks : u # t => stage'[u] = stage[u] /\ snap'[u] = snap[u]
          /\ snap'[t] = gw
      BY <2>2 DEF Read, gatewayVars, historyVars, TypeInv, TypeOK, JobStages
    <3>2. t \notin orphans => floor <= gw.ver
      BY <3>1 DEF LockInv, FloorInv
    <3>3. FloorInv'
      BY <3>1, <3>2 DEF FloorInv
    <3>. QED
      BY <3>1, <3>3 DEF StoreStep, Store!vars
  <2>3. CASE Fail(t)
    BY <1>1, <2>3 DEF Fail, gatewayVars, historyVars
  <2>4. CASE Garble(t)
    BY <1>1, <2>4 DEF Garble, gatewayVars, historyVars
  <2>. QED
    BY <1>9, <2>1, <2>2, <2>3, <2>4 DEF Job
<1>10. ASSUME NEW t \in Tasks, Resume(t) PROVE StoreStep /\ FloorInv'
  <2>1. CASE PollSucceeds(t)
    <3>1. /\ t \in Tasks \ orphans /\ stage[t] = "read" /\ data' = snap[t]
          /\ holder' = NoTask /\ stage' = [stage EXCEPT ![t] = "idle"]
          /\ UNCHANGED <<gw, floor, orphans>>
      BY <2>1 DEF PollSucceeds, Finish, gatewayVars, historyVars
    <3>2. "idle" # "read"
      OBVIOUS
    <3>. QED
      BY <3>1, <3>2, Shown, Zenon
  <2>2. CASE PollFails(t)
    BY <1>2, <2>2 DEF PollFails, JobStages, gatewayVars, historyVars
  <2>3. CASE PollOverflows(t)
    BY <1>2, <2>3 DEF PollOverflows, JobStages, gatewayVars, historyVars
  <2>4. CASE PollGarbled(t)
    BY <1>2, <2>4 DEF PollGarbled, JobStages, gatewayVars, historyVars
  <2>5. CASE SetupFails(t)
    BY <2>5, Forgotten DEF SetupFails
  <2>6. CASE CommandSucceeds(t)
    <3>1. \E s : s # "read" /\ stage' = [stage EXCEPT ![t] = s]
      BY <2>6 DEF CommandSucceeds
    <3>2. /\ t \in Tasks \ orphans /\ stage[t] = "read" /\ data' = snap[t]
          /\ holder' = NoTask /\ UNCHANGED <<gw, floor, orphans>>
      BY <2>6 DEF CommandSucceeds, gatewayVars, historyVars
    <3>. QED
      BY <3>1, <3>2, Shown, Zenon
  <2>7. CASE CommandFails(t)
    BY <1>2, <2>7 DEF CommandFails, JobStages, gatewayVars, historyVars
  <2>8. CASE OrphanEnds(t)
    <3>1. /\ UNCHANGED <<data, gw, holder, floor>> /\ orphans' = orphans \ {t}
          /\ \A u \in Tasks : u # t => stage'[u] = stage[u] /\ snap'[u] = snap[u]
          /\ stage'[t] = "idle"
      BY <2>8 DEF OrphanEnds, gatewayVars, historyVars, TypeInv, TypeOK
    <3>. QED
      BY <3>1 DEF FloorInv, StoreStep, Store!vars
  <2>. QED
    BY <1>10, <2>1, <2>2, <2>3, <2>4, <2>5, <2>6, <2>7, <2>8 DEF Resume
<1>11. CASE Environment
  <2>1. CASE GatewayChange
    <3>1. /\ gw.ver \in Nat /\ gw'.ver = gw.ver + 1
          /\ UNCHANGED <<data, snap, stage, holder, orphans, floor>>
      BY <2>1 DEF GatewayChange, lockVars, historyVars, TypeInv, TypeOK, Snapshots
    <3>2. Store!Change
      BY <3>1 DEF Store!Change
    <3>3. floor \in Nat
      BY DEF TypeInv, TypeOK
    <3>. QED
      BY <3>1, <3>2, <3>3 DEF StoreStep, FloorInv, Store!Next
  <2>2. CASE Outage
    BY <2>2, Unseen DEF Outage, lockVars, historyVars
  <2>3. CASE Restart \/ Reload
    BY <2>3, Forgotten DEF Restart, Reload
  <2>4. CASE Unload
    BY <1>1, <2>4 DEF Unload, Enqueue, Tasks, gatewayVars, historyVars
  <2>5. ASSUME NEW w \in due, TakeUp(w) PROVE StoreStep /\ FloorInv'
    <3>1. /\ gw.ver \in Nat /\ gw'.ver = gw.ver + 1 /\ floor \in Nat
          /\ UNCHANGED <<data, snap, stage, holder, orphans>>
          /\ w[1] \in Tasks
      BY <2>5 DEF TakeUp, lockVars, TypeInv, TypeOK, Snapshots
    <3>2. floor' = IF holder = w[1] /\ stage[w[1]] = "written" THEN gw'.ver ELSE floor
      BY <2>5 DEF TakeUp
    <3>3. CASE holder = w[1] /\ stage[w[1]] = "written"
      <4>1. Store!Apply(w[1])
        BY <3>1, <3>2, <3>3 DEF Store!Apply
      <4>2. "read" \in JobStages /\ "written" \in JobStages
        BY DEF JobStages
      <4>3. \A u \in Tasks \ orphans : stage[u] # "read"
        BY <3>3, <4>2 DEF LockInv
      <4>4. FloorInv'
        BY <3>1, <3>2, <3>3, <4>3 DEF FloorInv
      <4>. QED
        BY <3>1, <4>1, <4>4 DEF StoreStep, Store!Next
    <3>4. CASE ~(holder = w[1] /\ stage[w[1]] = "written")
      <4>1. Store!Change
        BY <3>1, <3>2, <3>4 DEF Store!Change
      <4>. QED
        BY <3>1, <3>2, <3>4, <4>1 DEF StoreStep, FloorInv, Store!Next
    <3>. QED
      BY <3>3, <3>4
  <2>. QED
    BY <1>11, <2>1, <2>2, <2>3, <2>4, <2>5 DEF Environment
<1>12. CASE UNCHANGED vars
  BY <1>12, Unseen DEF vars, lockVars, gatewayVars, historyVars
<1>. QED
  BY <1>3, <1>4, <1>5, <1>6, <1>7, <1>8, <1>9, <1>10, <1>11, <1>12 DEF Next

\* With any number of polls and service calls, cancelled or not, through failures,
\* restarts and reloads, the entities are shown what a store would show them whose
\* clients really took turns.
THEOREM CoordinatorImplementsStore == Spec => ImplementsStore
<1>1. TypeInv /\ LockInv /\ FreshInv /\ FloorInv /\ [Next]_vars
        => [Store!Next]_(Store!vars)
  BY NextStore DEF StoreStep
<1>. QED
  BY <1>1, InitStore, TypeCorrect, InitLock, NextLock, InitFresh, NextFresh, NextStore, PTL
  DEF Spec, ImplementsStore, Store!Spec
------------------------------------------------------------------------------
(* Nobody is stranded                                                      *)

\* A task that waits is in the lock's queue, a job that was left behind is under
\* way, and whoever holds the lock has a job under way and was not cancelled: the
\* lock is never taken by a task that will not give it back.
NobodyStranded ==
  /\ \A t \in Tasks : stage[t] = "waiting" => \E i \in 1..Len(queue) : queue[i] = t
  /\ holder # NoTask => stage[holder] \in JobStages /\ holder \notin orphans
  /\ \A t \in orphans : stage[t] \in JobStages

\* Nobody waits for a new coordinator.
LEMMA InitStranded == Init => NobodyStranded
  BY DEF Init, NobodyStranded

\* Whoever waits after a task has joined the queue is in it.
LEMMA QueuedAppended ==
  ASSUME TypeInv, NobodyStranded, NEW t \in Tasks, queue' = Append(queue, t),
         stage' = [stage EXCEPT ![t] = "waiting"]
  PROVE  \A u \in Tasks :
           stage'[u] = "waiting" => \E i \in 1..Len(queue') : queue'[i] = u
<1>1. /\ Len(queue') = Len(queue) + 1 /\ Len(queue) \in Nat
      /\ \A i \in 1..Len(queue) : queue'[i] = queue[i]
      /\ queue'[Len(queue) + 1] = t
  BY AppendProperties DEF TypeInv, TypeOK
<1>2. ASSUME NEW u \in Tasks, stage'[u] = "waiting"
      PROVE  \E i \in 1..Len(queue') : queue'[i] = u
  <2>1. CASE u = t
    <3>1. Len(queue) + 1 \in 1..Len(queue')
      BY <1>1
    <3>. QED
      BY <1>1, <2>1, <3>1
  <2>2. CASE u # t
    <3>1. stage[u] = "waiting"
      BY <1>2, <2>2 DEF TypeInv, TypeOK
    <3>2. PICK i \in 1..Len(queue) : queue[i] = u
      BY <3>1 DEF NobodyStranded
    <3>3. i \in 1..Len(queue') /\ queue'[i] = u
      BY <1>1, <3>2
    <3>. QED
      BY <3>3
  <2>. QED
    BY <2>1, <2>2
<1>. QED
  BY <1>2

\* A task that holds no lock and runs no job joins the queue.
LEMMA EnqueueStranded ==
  ASSUME TypeInv, NobodyStranded, NEW t \in Tasks, stage[t] \notin JobStages,
         queue' = Append(queue, t), stage' = [stage EXCEPT ![t] = "waiting"],
         UNCHANGED <<holder, orphans>>
  PROVE  NobodyStranded'
<1>1. \A u \in Tasks : stage'[u] = "waiting" => \E i \in 1..Len(queue') : queue'[i] = u
  BY QueuedAppended
<1>2. \A u \in Tasks : stage[u] \in JobStages => stage'[u] = stage[u]
  BY DEF TypeInv, TypeOK
<1>. QED
  BY <1>1, <1>2 DEF NobodyStranded, TypeInv, TypeOK

\* A task whose job is under way goes on with it.
LEMMA JobStranded ==
  ASSUME TypeInv, NobodyStranded, NEW t \in Tasks, stage[t] \in JobStages,
         NEW s \in JobStages, stage' = [stage EXCEPT ![t] = s],
         UNCHANGED <<queue, holder, orphans>>
  PROVE  NobodyStranded'
<1>1. "waiting" \notin JobStages
  BY DEF JobStages
<1>2. /\ \A u \in Tasks : stage[u] \in JobStages => stage'[u] \in JobStages
      /\ \A u \in Tasks : stage'[u] = "waiting" => stage[u] = "waiting"
  BY <1>1 DEF TypeInv, TypeOK
<1>. QED
  BY <1>2 DEF NobodyStranded, TypeInv, TypeOK

\* The holder leaves the lock.
LEMMA ReleaseStranded ==
  ASSUME TypeInv, NobodyStranded, NEW t \in Tasks, t \notin orphans,
         holder' = NoTask, stage' = [stage EXCEPT ![t] = "idle"],
         UNCHANGED <<queue, orphans>>
  PROVE  NobodyStranded'
<1>1. /\ \A u \in Tasks : u # t => stage'[u] = stage[u]
      /\ \A u \in Tasks : stage'[u] = "waiting" => stage[u] = "waiting"
  BY DEF TypeInv, TypeOK
<1>. QED
  BY <1>1 DEF NobodyStranded, TypeInv, TypeOK

\* The holder leaves the lock and asks for it again.
LEMMA RequeueStranded ==
  ASSUME TypeInv, NobodyStranded, NEW t \in Tasks, t \notin orphans,
         holder' = NoTask, queue' = Append(queue, t),
         stage' = [stage EXCEPT ![t] = "waiting"], orphans' = orphans
  PROVE  NobodyStranded'
<1>1. \A u \in Tasks : stage'[u] = "waiting" => \E i \in 1..Len(queue') : queue'[i] = u
  BY QueuedAppended
<1>2. orphans \subseteq Tasks /\ \A u \in Tasks : u # t => stage'[u] = stage[u]
  BY DEF TypeInv, TypeOK
<1>3. \A u \in orphans' : stage'[u] \in JobStages
  BY <1>2 DEF NobodyStranded
<1>. QED
  BY <1>1, <1>3 DEF NobodyStranded

\* The lock is handed on to the first task of the queue.
LEMMA AcquireStranded ==
  ASSUME TypeInv, NobodyStranded, NEW t \in Tasks, Acquire(t)
  PROVE  NobodyStranded'
<1>1. /\ queue \in Seq(Tasks) /\ Len(queue) \in Nat /\ Len(queue) > 0 /\ queue[1] = t
      /\ Len(queue') = Len(queue) - 1
      /\ \A i \in 1..Len(queue') : queue'[i] = queue[i + 1]
  BY HeadTailProperties DEF Acquire, TypeInv, TypeOK
<1>2. stage[t] = "waiting" /\ stage' = [stage EXCEPT ![t] = "begun"]
  <2>1. 1 \in 1..Len(queue)
    BY <1>1
  <2>. QED
    BY <1>1, <2>1 DEF Acquire, TypeInv, QueueInv
<1>3. ASSUME NEW u \in Tasks, stage'[u] = "waiting"
      PROVE  \E i \in 1..Len(queue') : queue'[i] = u
  <2>1. stage[u] = "waiting" /\ u # t
    BY <1>2, <1>3 DEF TypeInv, TypeOK
  <2>2. PICK i \in 1..Len(queue) : queue[i] = u
    BY <2>1 DEF NobodyStranded
  <2>3. i # 1
    BY <1>1, <2>1, <2>2
  <2>4. i - 1 \in 1..Len(queue') /\ (i - 1) + 1 = i
    BY <1>1, <2>2, <2>3
  <2>. QED
    BY <1>1, <2>2, <2>4
<1>4. "waiting" \notin JobStages /\ "begun" \in JobStages
  BY DEF JobStages
<1>5. t \notin orphans
  BY <1>2, <1>4 DEF NobodyStranded
<1>6. stage'[t] = "begun" /\ \A u \in Tasks : u # t => stage'[u] = stage[u]
  BY <1>2 DEF TypeInv, TypeOK
<1>. QED
  BY <1>3, <1>4, <1>5, <1>6 DEF NobodyStranded, Acquire, TypeInv, TypeOK

\* A service call is cancelled: the others stay in the queue, and if it held the
\* lock nobody does.
LEMMA CancelStranded ==
  ASSUME TypeInv, LockInv, NobodyStranded, NEW t \in Calls, Cancel(t)
  PROVE  NobodyStranded'
<1>1. t \in Tasks
  BY DEF Tasks
<1>2. CASE CancelWaiting(t)
  <2>1. PICK i \in 1..Len(queue) : queue[i] = t /\ queue' = RemoveAt(queue, i)
    BY <1>2 DEF CancelWaiting
  <2>2. queue \in Seq(Tasks) /\ Len(queue) \in Nat
    BY DEF TypeInv, TypeOK
  <2>3. /\ Len(queue') = Len(queue) - 1
        /\ \A j \in 1..(Len(queue) - 1) :
             queue'[j] = IF j < i THEN queue[j] ELSE queue[j + 1]
    BY <2>1, <2>2, RemoveAtProperties
  <2>4. ASSUME NEW u \in Tasks, stage'[u] = "waiting"
        PROVE  \E j \in 1..Len(queue') : queue'[j] = u
    <3>1. stage[u] = "waiting" /\ u # t
      BY <1>1, <1>2, <2>4 DEF CancelWaiting, TypeInv, TypeOK
    <3>2. PICK k \in 1..Len(queue) : queue[k] = u
      BY <3>1 DEF NobodyStranded
    <3>3. k # i
      BY <2>1, <3>1, <3>2
    <3>4. CASE k < i
      <4>1. k \in 1..Len(queue')
        BY <2>2, <2>3, <3>4
      <4>. QED
        BY <2>3, <3>2, <3>4, <4>1
    <3>5. CASE k > i
      <4>1. k - 1 \in 1..Len(queue') /\ ~(k - 1 < i) /\ (k - 1) + 1 = k
        BY <2>2, <2>3, <3>5
      <4>. QED
        BY <2>3, <3>2, <4>1
    <3>. QED
      BY <2>2, <3>3, <3>4, <3>5
  <2>5. "waiting" \notin JobStages
    BY DEF JobStages
  <2>6. \A u \in Tasks : stage[u] \in JobStages => stage'[u] = stage[u]
    BY <1>2, <2>5 DEF CancelWaiting, TypeInv, TypeOK
  <2>. QED
    BY <1>2, <2>4, <2>6 DEF CancelWaiting, NobodyStranded, TypeInv, TypeOK
<1>3. CASE CancelRunning(t)
  BY <1>1, <1>3 DEF CancelRunning, NobodyStranded
<1>4. CASE CancelUnstarted(t)
  BY <1>1, <1>4, ReleaseStranded DEF CancelUnstarted, Finish
<1>. QED
  BY <1>2, <1>3, <1>4 DEF Cancel

\* Every step keeps tasks and lock together.
LEMMA NextStranded ==
  TypeInv /\ LockInv /\ NobodyStranded /\ [Next]_vars => NobodyStranded'
<1>. SUFFICES ASSUME TypeInv, LockInv, NobodyStranded, [Next]_vars
              PROVE  NobodyStranded'
  OBVIOUS
<1>1. ASSUME Discard PROVE NobodyStranded'
  BY <1>1 DEF Discard, NobodyStranded
<1>2. "idle" \notin JobStages
  BY DEF JobStages
<1>3. ASSUME NEW t \in Tasks, NEW ops, Enqueue(t, ops), stage[t] = "idle",
             UNCHANGED <<holder, orphans>>
      PROVE  NobodyStranded'
  BY <1>2, <1>3, EnqueueStranded DEF Enqueue
<1>4. ASSUME NEW t \in Tasks, Finish(t), UNCHANGED <<queue, orphans>>
      PROVE  NobodyStranded'
  BY <1>4, ReleaseStranded DEF Finish
<1>5. CASE FirstRefresh
  <2>1. PICK t \in Pollers : Enqueue(t, <<"poll">>)
    BY <1>5 DEF FirstRefresh
  <2>. QED
    BY <1>3, <1>5, <2>1 DEF FirstRefresh, Tasks
<1>6. CASE PollDue
  <2>1. PICK t \in Pollers : stage[t] = "idle" /\ Enqueue(t, <<"poll">>)
    BY <1>6 DEF PollDue
  <2>. QED
    BY <1>3, <1>6, <2>1 DEF PollDue, Tasks
<1>7. CASE Close
  BY <1>4, <1>7 DEF Close, Tasks
<1>8. ASSUME NEW c \in Calls, Call(c) PROVE NobodyStranded'
  <2>1. PICK s \in Services : \E ops \in ServicePlans(s) : Enqueue(c, ops)
    BY <1>8 DEF Call
  <2>2. PICK ops \in ServicePlans(s) : Enqueue(c, ops)
    BY <2>1
  <2>. QED
    BY <1>3, <1>8, <2>2 DEF Call, Tasks
<1>9. ASSUME NEW c \in Calls, Cancel(c) PROVE NobodyStranded'
  BY <1>9, CancelStranded
<1>10. ASSUME NEW t \in Tasks, Acquire(t) PROVE NobodyStranded'
  BY <1>10, AcquireStranded
<1>11. ASSUME NEW t \in Tasks, Job(t) PROVE NobodyStranded'
  <2>1. /\ stage[t] \in JobStages /\ UNCHANGED <<queue, holder, orphans>>
        /\ \E s \in JobStages : stage' = [stage EXCEPT ![t] = s]
    BY <1>11 DEF Job, Write, Read, Fail, Garble, JobStages
  <2>. QED
    BY <2>1, JobStranded
<1>12. ASSUME NEW t \in Tasks, Resume(t) PROVE NobodyStranded'
  <2>1. CASE PollSucceeds(t)
    BY <1>4, <2>1 DEF PollSucceeds
  <2>2. CASE PollFails(t)
    BY <1>4, <2>2 DEF PollFails
  <2>3. CASE PollOverflows(t)
    BY <1>4, <2>3 DEF PollOverflows
  <2>4. CASE PollGarbled(t)
    BY <1>4, <2>4 DEF PollGarbled
  <2>5. CASE SetupFails(t)
    BY <1>1, <2>5 DEF SetupFails
  <2>6. CASE CommandSucceeds(t)
    <3>1. CASE stage' = [stage EXCEPT ![t] = "idle"] /\ UNCHANGED queue
      BY <2>6, <3>1, ReleaseStranded DEF CommandSucceeds
    <3>2. CASE stage' = [stage EXCEPT ![t] = "waiting"] /\ queue' = Append(queue, t)
      BY <2>6, <3>2, RequeueStranded DEF CommandSucceeds
    <3>. QED
      BY <2>6, <3>1, <3>2 DEF CommandSucceeds
  <2>7. CASE CommandFails(t)
    BY <1>4, <2>7 DEF CommandFails
  <2>8. CASE OrphanEnds(t)
    <3>1. /\ \A u \in Tasks : u # t => stage'[u] = stage[u]
          /\ \A u \in Tasks : stage'[u] = "waiting" => stage[u] = "waiting"
      BY <2>8 DEF OrphanEnds, TypeInv, TypeOK
    <3>. QED
      BY <2>8, <3>1 DEF OrphanEnds, NobodyStranded, TypeInv, TypeOK
  <2>. QED
    BY <1>12, <2>1, <2>2, <2>3, <2>4, <2>5, <2>6, <2>7, <2>8 DEF Resume
<1>13. CASE Environment
  <2>1. CASE GatewayChange \/ Outage \/ \E w \in due : TakeUp(w)
    BY <2>1 DEF GatewayChange, Outage, TakeUp, lockVars, NobodyStranded
  <2>2. CASE Restart \/ Reload
    BY <1>1, <2>2 DEF Restart, Reload
  <2>3. CASE Unload
    BY <1>3, <2>3 DEF Unload, TypeInv, CloserIdle, Tasks
  <2>. QED
    BY <1>13, <2>1, <2>2, <2>3 DEF Environment
<1>14. CASE UNCHANGED vars
  BY <1>14 DEF vars, lockVars, NobodyStranded
<1>. QED
  BY <1>5, <1>6, <1>7, <1>8, <1>9, <1>10, <1>11, <1>12, <1>13, <1>14 DEF Next

\* No poll, service call or unload is ever forgotten: one that waits has its place
\* in the queue, and the lock is free or held by a task whose job is under way,
\* whatever is cancelled, fails or restarts.
THEOREM NobodyStrandedHolds == Spec => []NobodyStranded
  BY InitStranded, TypeCorrect, InitLock, NextLock, NextStranded, PTL DEF Spec

------------------------------------------------------------------------------
(* Polling follows the life of the entry                                   *)

\* No poll waits behind the task that closes the session.
PollersAhead ==
  \A i, j \in 1..Len(queue) : queue[i] = Closer /\ queue[j] \in Pollers => j < i

\* A poll is one lock section, and none is left once the closing task has the lock.
PollInv ==
  /\ \A p \in Pollers : stage[p] # "idle" => plan[p] = <<"poll">>
  /\ stage[Closer] \in JobStages => \A p \in Pollers : stage[p] = "idle"
  /\ PollersAhead

\* A new coordinator polls as soon as it is set up.
LEMMA InitPolling == Init => PollInv /\ PollingFollowsLife
<1>1. Init => PollInv
  BY DEF Init, PollInv, PollersAhead, Tasks, JobStages
<1>2. Init => PollingFollowsLife
  BY DEF Init, PollingFollowsLife
<1>. QED
  BY <1>1, <1>2

\* So does one that starts again.
LEMMA DiscardPolling ==
  ASSUME Discard
  PROVE  PollInv' /\ PollingFollowsLife'
<1>1. PollInv'
  BY DEF Discard, PollInv, PollersAhead, JobStages, Tasks
<1>2. PollingFollowsLife'
  BY DEF Discard, PollingFollowsLife
<1>. QED
  BY <1>1, <1>2

\* A task other than a poll joins the queue.
LEMMA AppendAhead ==
  ASSUME TypeInv, PollersAhead, NEW t \in Tasks, queue' = Append(queue, t),
         t \in Pollers => \A i \in 1..Len(queue) : queue[i] # Closer
  PROVE  PollersAhead'
<1>1. /\ Len(queue') = Len(queue) + 1 /\ Len(queue) \in Nat
      /\ \A i \in 1..Len(queue) : queue'[i] = queue[i]
      /\ queue'[Len(queue) + 1] = t
  BY AppendProperties DEF TypeInv, TypeOK
<1>2. ASSUME NEW i \in 1..Len(queue'), NEW j \in 1..Len(queue'),
             queue'[i] = Closer, queue'[j] \in Pollers
      PROVE  j < i
  <2>1. Closer \notin Pollers
    OBVIOUS
  <2>2. CASE i = Len(queue) + 1
    <3>1. j # i
      BY <1>2, <2>1
    <3>. QED
      BY <1>1, <2>2, <3>1
  <2>3. CASE i # Len(queue) + 1
    <3>1. i \in 1..Len(queue) /\ queue[i] = Closer
      BY <1>1, <1>2, <2>3
    <3>2. j # Len(queue) + 1
      BY <1>1, <1>2, <3>1
    <3>3. j \in 1..Len(queue) /\ queue[j] \in Pollers
      BY <1>1, <1>2, <3>2
    <3>. QED
      BY <3>1, <3>3 DEF PollersAhead
  <2>. QED
    BY <2>2, <2>3
<1>. QED
  BY <1>2 DEF PollersAhead

\* A poll joins the queue while nobody closes the session.
LEMMA PollBegins ==
  ASSUME TypeInv, PollInv, NEW t \in Pollers, life \in {"setup", "loaded"},
         Enqueue(t, <<"poll">>), life' = life, ~armed'
  PROVE  PollInv' /\ (PollingFollowsLife')
<1>1. t \in Tasks /\ Closer \in Tasks /\ t # Closer /\ stage[Closer] = "idle"
  BY DEF Tasks, TypeInv, CloserIdle
<1>2. /\ stage'[t] = "waiting" /\ plan'[t] = <<"poll">> /\ stage'[Closer] = "idle"
      /\ \A u \in Tasks : u # t => stage'[u] = stage[u] /\ plan'[u] = plan[u]
  BY <1>1 DEF Enqueue, TypeInv, TypeOK
<1>3. \A i \in 1..Len(queue) : queue[i] # Closer
  BY <1>1 DEF TypeInv, QueueInv
<1>4. PollersAhead'
  BY <1>1, <1>3, AppendAhead DEF Enqueue, PollInv
<1>5. "idle" \notin JobStages
  BY DEF JobStages
<1>6. \A p \in Pollers : p \in Tasks
  BY DEF Tasks
<1>. QED
  BY <1>2, <1>4, <1>5, <1>6 DEF PollInv, PollingFollowsLife

\* A task that is no poll goes on: polls and timer are as they were, or the timer is
\* set.
LEMMA OthersStep ==
  ASSUME TypeInv, PollInv, PollingFollowsLife, NEW t \in Tasks \ Pollers, NEW s, NEW ops,
         stage' = [stage EXCEPT ![t] = s], plan' = [plan EXCEPT ![t] = ops],
         s \in JobStages => stage[t] \in JobStages,
         life' = life, armed => armed', armed' => armed \/ life = "loaded",
         PollersAhead'
  PROVE  PollInv' /\ PollingFollowsLife'
<1>1. /\ \A p \in Pollers : stage'[p] = stage[p] /\ plan'[p] = plan[p]
      /\ stage'[Closer] \in JobStages => stage[Closer] \in JobStages
  BY DEF Tasks, TypeInv, TypeOK
<1>. QED
  BY <1>1 DEF PollInv, PollingFollowsLife

\* A poll ends, and the timer is set again if the entry is loaded then.
LEMMA PollEnds ==
  ASSUME TypeInv, PollInv, PollingFollowsLife, NEW t \in Tasks, Finish(t),
         queue' = queue, armed' = (life' = "loaded"),
         life' = "unloaded" => life = "unloaded"
  PROVE  PollInv' /\ PollingFollowsLife'
<1>1. /\ \A u \in Tasks : u # t => stage'[u] = stage[u] /\ plan'[u] = plan[u]
      /\ stage'[t] = "idle"
  BY DEF Finish, TypeInv, TypeOK
<1>2. "idle" \notin JobStages /\ Closer \in Tasks /\ \A p \in Pollers : p \in Tasks
  BY DEF JobStages, Tasks
<1>3. PollersAhead'
  BY DEF PollInv, PollersAhead
<1>4. PollInv'
  BY <1>1, <1>2, <1>3 DEF PollInv
<1>5. PollingFollowsLife'
  BY <1>1, <1>2 DEF PollingFollowsLife
<1>. QED
  BY <1>4, <1>5

\* The lock is handed on; if to the closing task, no poll is waiting or running.
LEMMA AcquirePolling ==
  ASSUME TypeInv, LockInv, NobodyStranded, PollInv, PollingFollowsLife,
         NEW t \in Tasks, Acquire(t)
  PROVE  PollInv' /\ PollingFollowsLife'
<1>1. /\ queue \in Seq(Tasks) /\ Len(queue) \in Nat /\ Len(queue) > 0 /\ queue[1] = t
      /\ Len(queue') = Len(queue) - 1
      /\ \A i \in 1..Len(queue') : queue'[i] = queue[i + 1]
  BY HeadTailProperties DEF Acquire, TypeInv, TypeOK
<1>2. stage[t] = "waiting"
  <2>1. 1 \in 1..Len(queue)
    BY <1>1
  <2>. QED
    BY <1>1, <2>1 DEF TypeInv, QueueInv
<1>3. /\ stage'[t] = "begun" /\ \A u \in Tasks : u # t => stage'[u] = stage[u]
      /\ UNCHANGED <<plan, life, armed>>
  BY DEF Acquire, pollVars, TypeInv, TypeOK
<1>4. PollersAhead'
  <2>1. ASSUME NEW i \in 1..Len(queue'), NEW j \in 1..Len(queue'),
               queue'[i] = Closer, queue'[j] \in Pollers
        PROVE  j < i
    <3>1. /\ i + 1 \in 1..Len(queue) /\ j + 1 \in 1..Len(queue)
          /\ queue[i + 1] = Closer /\ queue[j + 1] \in Pollers
      BY <1>1, <2>1
    <3>2. j + 1 < i + 1
      BY <3>1 DEF PollInv, PollersAhead
    <3>. QED
      BY <3>2
  <2>. QED
    BY <2>1 DEF PollersAhead
<1>5. ASSUME t = Closer, NEW p \in Pollers PROVE stage[p] = "idle"
  <2>1. p \in Tasks /\ p \notin orphans
    BY DEF Tasks, LockInv
  <2>2. stage[p] \notin JobStages
    BY <2>1 DEF LockInv, Acquire
  <2>3. ASSUME stage[p] = "waiting" PROVE FALSE
    <3>1. PICK j \in 1..Len(queue) : queue[j] = p
      BY <2>1, <2>3 DEF NobodyStranded
    <3>2. 1 \in 1..Len(queue) /\ queue[1] = Closer
      BY <1>1, <1>5
    <3>3. j < 1
      BY <3>1, <3>2 DEF PollInv, PollersAhead
    <3>. QED
      BY <3>3
  <2>. QED
    BY <2>1, <2>2, <2>3 DEF TypeInv, TypeOK, Stages
<1>6. /\ Closer \in Tasks /\ \A p \in Pollers : p \in Tasks /\ p # Closer
      /\ "begun" \in JobStages
  BY DEF Tasks, JobStages
<1>7. PollInv'
  <2>1. \A p \in Pollers : stage'[p] # "idle" => plan'[p] = <<"poll">>
    BY <1>2, <1>3, <1>6 DEF PollInv
  <2>2. ASSUME stage'[Closer] \in JobStages, NEW p \in Pollers PROVE stage'[p] = "idle"
    <3>1. CASE t = Closer
      BY <1>3, <1>5, <1>6, <3>1
    <3>2. CASE t # Closer
      <4>1. stage[Closer] \in JobStages
        BY <1>3, <1>6, <2>2, <3>2
      <4>2. Closer \notin orphans /\ holder = Closer
        BY <1>6, <4>1 DEF LockInv
      <4>. QED
        BY <1>6, <4>2 DEF Acquire
    <3>. QED
      BY <3>1, <3>2
  <2>. QED
    BY <1>4, <2>1, <2>2 DEF PollInv
<1>8. \A p \in Pollers : stage[p] # "idle" <=> stage'[p] # "idle"
  BY <1>2, <1>3, <1>6
<1>9. PollingFollowsLife'
  BY <1>3, <1>8 DEF PollingFollowsLife
<1>. QED
  BY <1>7, <1>9

\* A service call is cancelled: nothing of a poll is.
LEMMA CancelPolling ==
  ASSUME TypeInv, PollInv, PollingFollowsLife, NEW t \in Calls, Cancel(t)
  PROVE  PollInv' /\ PollingFollowsLife'
<1>1. t \in Tasks \ Pollers /\ UNCHANGED <<life, armed>> /\ "idle" \notin JobStages
  BY DEF Tasks, Cancel, pollVars, JobStages
<1>2. CASE CancelWaiting(t)
  <2>1. PICK i \in 1..Len(queue) : queue[i] = t /\ queue' = RemoveAt(queue, i)
    BY <1>2 DEF CancelWaiting
  <2>2. queue \in Seq(Tasks) /\ Len(queue) \in Nat
    BY DEF TypeInv, TypeOK
  <2>3. /\ Len(queue') = Len(queue) - 1
        /\ \A j \in 1..(Len(queue) - 1) :
             queue'[j] = IF j < i THEN queue[j] ELSE queue[j + 1]
    BY <2>1, <2>2, RemoveAtProperties
  <2>. DEFINE from(j) == IF j < i THEN j ELSE j + 1
  <2>4. \A j \in 1..Len(queue') :
          from(j) \in 1..Len(queue) /\ queue'[j] = queue[from(j)]
    BY <2>2, <2>3
  <2>5. \A j, k \in 1..Len(queue') : from(j) < from(k) => j < k
    BY <2>2, <2>3
  <2>. HIDE DEF from
  <2>6. PollersAhead'
    BY <2>4, <2>5 DEF PollInv, PollersAhead
  <2>. QED
    BY <1>1, <1>2, <2>6, OthersStep DEF CancelWaiting
<1>3. CASE CancelRunning(t)
  BY <1>1, <1>3 DEF CancelRunning, PollInv, PollersAhead, PollingFollowsLife
<1>4. CASE CancelUnstarted(t)
  <2>1. PollersAhead'
    BY <1>4 DEF CancelUnstarted, PollInv, PollersAhead
  <2>. QED
    BY <1>1, <1>4, <2>1, OthersStep DEF CancelUnstarted, Finish
<1>. QED
  BY <1>2, <1>3, <1>4 DEF Cancel

\* Every step keeps polls and timer in step with the life of the entry.
LEMMA NextPolling ==
  TypeInv /\ LockInv /\ NobodyStranded /\ PollInv /\ PollingFollowsLife /\ [Next]_vars
    => PollInv' /\ PollingFollowsLife'
<1>. SUFFICES ASSUME TypeInv, LockInv, NobodyStranded, PollInv, PollingFollowsLife,
                     [Next]_vars
              PROVE  PollInv' /\ PollingFollowsLife'
  OBVIOUS
<1>1. "idle" \notin JobStages /\ "waiting" \notin JobStages
  BY DEF JobStages
<1>2. queue' = queue => PollersAhead'
  BY DEF PollInv, PollersAhead
<1>3. ASSUME NEW t \in Tasks, stage[t] # "idle", IsCommand(Op(t)) PROVE t \notin Pollers
  <2>1. ~IsCommand("poll") /\ \A p : plan[p] = <<"poll">> => Op(p) = "poll"
    BY DEF IsCommand, Commands, Op
  <2>. QED
    BY <1>3, <2>1 DEF PollInv
<1>4. CASE FirstRefresh
  <2>1. PICK t \in Pollers : Enqueue(t, <<"poll">>)
    BY <1>4 DEF FirstRefresh
  <2>2. life = "setup" /\ life' = life /\ ~armed'
    BY <1>4 DEF FirstRefresh, pollVars, PollingFollowsLife
  <2>. QED
    BY <2>1, <2>2, PollBegins
<1>5. CASE PollDue
  <2>1. PICK t \in Pollers : Enqueue(t, <<"poll">>)
    BY <1>5 DEF PollDue
  <2>2. life = "loaded" /\ life' = life /\ ~armed'
    BY <1>5 DEF PollDue, PollingFollowsLife
  <2>. QED
    BY <2>1, <2>2, PollBegins
<1>6. CASE Close
  <2>1. Closer \in Tasks /\ "begun" \in JobStages
    BY DEF Tasks, JobStages
  <2>2. \A p \in Pollers : p \in Tasks /\ stage[p] = "idle"
    BY <1>6, <2>1 DEF Close, PollInv, Tasks
  <2>3. /\ stage' = [stage EXCEPT ![Closer] = "idle"] /\ queue' = queue
        /\ life' = "unloaded" /\ armed' = armed
    BY <1>6 DEF Close, Finish, pollVars
  <2>4. \A p \in Pollers : stage'[p] = "idle"
    BY <2>2, <2>3 DEF TypeInv, TypeOK
  <2>5. life # "loaded"
    BY <1>1, <1>6 DEF Close, TypeInv, CloserIdle
  <2>. QED
    BY <1>2, <2>3, <2>4, <2>5 DEF PollInv, PollingFollowsLife
<1>7. ASSUME NEW c \in Calls, Call(c) PROVE PollInv' /\ PollingFollowsLife'
  <2>1. PICK s \in Services : \E ops \in ServicePlans(s) : Enqueue(c, ops)
    BY <1>7 DEF Call
  <2>2. PICK ops \in ServicePlans(s) : Enqueue(c, ops)
    BY <2>1
  <2>3. c \in Tasks \ Pollers /\ UNCHANGED <<life, armed>>
    BY <1>7 DEF Tasks, Call, pollVars
  <2>4. PollersAhead'
    BY <2>2, <2>3, AppendAhead DEF Enqueue, PollInv
  <2>. QED
    BY <1>1, <2>2, <2>3, <2>4, OthersStep DEF Enqueue
<1>8. ASSUME NEW c \in Calls, Cancel(c) PROVE PollInv' /\ PollingFollowsLife'
  BY <1>8, CancelPolling
<1>9. ASSUME NEW t \in Tasks, Acquire(t) PROVE PollInv' /\ PollingFollowsLife'
  BY <1>9, AcquirePolling
<1>10. ASSUME NEW t \in Tasks, Job(t) PROVE PollInv' /\ PollingFollowsLife'
  <2>1. /\ stage[t] \in JobStages /\ UNCHANGED <<queue, plan, life, armed>>
        /\ \E s \in JobStages : stage' = [stage EXCEPT ![t] = s]
    BY <1>10 DEF Job, Write, Read, Fail, Garble, pollVars, JobStages
  <2>2. \A u \in Tasks : /\ stage'[u] # "idle" <=> stage[u] # "idle"
                         /\ stage'[u] \in JobStages => stage[u] \in JobStages
    BY <1>1, <2>1 DEF TypeInv, TypeOK
  <2>3. Closer \in Tasks /\ \A p \in Pollers : p \in Tasks
    BY DEF Tasks
  <2>4. PollInv'
    BY <1>2, <2>1, <2>2, <2>3 DEF PollInv
  <2>5. PollingFollowsLife'
    BY <2>1, <2>2, <2>3 DEF PollingFollowsLife
  <2>. QED
    BY <2>4, <2>5
<1>11. ASSUME NEW t \in Tasks, Resume(t) PROVE PollInv' /\ PollingFollowsLife'
  <2>1. CASE PollSucceeds(t)
    <3>1. /\ Finish(t) /\ queue' = queue /\ armed' = (life' = "loaded")
          /\ life' = "unloaded" => life = "unloaded"
      BY <2>1 DEF PollSucceeds, Rearm
    <3>. QED
      BY <3>1, PollEnds
  <2>2. CASE PollFails(t) \/ PollOverflows(t) \/ PollGarbled(t)
    <3>1. /\ Finish(t) /\ queue' = queue /\ armed' = (life' = "loaded")
          /\ life' = "unloaded" => life = "unloaded"
      BY <2>2 DEF PollFails, PollOverflows, PollGarbled, Rearm
    <3>. QED
      BY <3>1, PollEnds
  <2>3. CASE SetupFails(t)
    BY <2>3, DiscardPolling DEF SetupFails
  <2>4. CASE CommandSucceeds(t)
    <3>1. t \notin Pollers
      BY <1>3, <2>4 DEF CommandSucceeds
    <3>2. /\ plan' = [plan EXCEPT ![t] = Tail(plan[t])] /\ life' = life
          /\ armed' = (armed \/ life = "loaded")
          /\ \/ stage' = [stage EXCEPT ![t] = "idle"] /\ queue' = queue
             \/ stage' = [stage EXCEPT ![t] = "waiting"] /\ queue' = Append(queue, t)
      BY <2>4 DEF CommandSucceeds
    <3>3. PollersAhead'
      BY <1>2, <3>1, <3>2, AppendAhead DEF PollInv
    <3>. QED
      BY <1>1, <3>1, <3>2, <3>3, OthersStep
  <2>5. CASE CommandFails(t)
    <3>1. t \notin Pollers
      BY <1>3, <2>5 DEF CommandFails
    <3>2. /\ stage' = [stage EXCEPT ![t] = "idle"] /\ plan' = [plan EXCEPT ![t] = <<>>]
          /\ UNCHANGED <<queue, life, armed>>
      BY <2>5 DEF CommandFails, Finish, pollVars
    <3>. QED
      BY <1>1, <1>2, <3>1, <3>2, OthersStep
  <2>6. CASE OrphanEnds(t)
    <3>1. t \notin Pollers
      BY <2>6 DEF OrphanEnds, LockInv
    <3>2. /\ stage' = [stage EXCEPT ![t] = "idle"] /\ plan' = [plan EXCEPT ![t] = <<>>]
          /\ UNCHANGED <<queue, life, armed>>
      BY <2>6 DEF OrphanEnds, pollVars
    <3>. QED
      BY <1>1, <1>2, <3>1, <3>2, OthersStep
  <2>. QED
    BY <1>11, <2>1, <2>2, <2>3, <2>4, <2>5, <2>6 DEF Resume
<1>12. CASE Environment
  <2>1. CASE GatewayChange \/ Outage \/ \E w \in due : TakeUp(w)
    <3>1. UNCHANGED <<life, queue, stage, plan, armed>>
      BY <2>1 DEF GatewayChange, Outage, TakeUp, lockVars, pollVars
    <3>. QED
      BY <1>2, <3>1 DEF PollInv, PollingFollowsLife
  <2>2. CASE Restart \/ Reload
    BY <2>2, DiscardPolling DEF Restart, Reload
  <2>3. CASE Unload
    <3>1. /\ Closer \in Tasks \ Pollers /\ life' = "unloading" /\ ~armed'
          /\ queue' = Append(queue, Closer)
          /\ stage' = [stage EXCEPT ![Closer] = "waiting"]
          /\ plan' = [plan EXCEPT ![Closer] = <<"close">>]
      BY <2>3 DEF Unload, Enqueue, Tasks
    <3>2. /\ stage'[Closer] = "waiting"
          /\ \A p \in Pollers : stage'[p] = stage[p] /\ plan'[p] = plan[p]
      BY <3>1 DEF TypeInv, TypeOK, Tasks
    <3>3. PollersAhead'
      BY <3>1, AppendAhead DEF PollInv
    <3>. QED
      BY <1>1, <3>1, <3>2, <3>3 DEF PollInv, PollingFollowsLife
  <2>. QED
    BY <1>12, <2>1, <2>2, <2>3 DEF Environment
<1>13. CASE UNCHANGED vars
  <2>1. UNCHANGED <<life, queue, stage, plan, armed>>
    BY <1>13 DEF vars, lockVars, pollVars
  <2>. QED
    BY <1>2, <2>1 DEF PollInv, PollingFollowsLife
<1>. QED
  BY <1>4, <1>5, <1>6, <1>7, <1>8, <1>9, <1>10, <1>11, <1>12, <1>13 DEF Next

\* For any number of polls and calls, cancelled or not, and any services: a loaded
\* entry is polled again however its polls end, and nothing polls it any more once it
\* is unloaded.
THEOREM PollingFollowsLifeHolds == Spec => []PollingFollowsLife
  BY InitPolling, InitStranded, TypeCorrect, InitLock, NextLock, NextStranded,
     NextPolling, PTL DEF Spec

------------------------------------------------------------------------------
(* The back-off                                                            *)

\* The waiting time is the one for the failures counted, though an overflow leaves
\* it as it was, a command makes the entities available again without touching it,
\* and a poll that ends with an unhandled error is not counted.
BackoffHeld ==
  interval = IF failures = 0 THEN PollInterval ELSE Backoff(failures)

\* From the sixth failure on the waiting time does not grow.
LEMMA BackoffLevel ==
  ASSUME NEW n \in Nat, n > 5
  PROVE  Backoff(n) = MaxRetryInterval
  BY DEF Backoff

\* Every step keeps waiting time and count together, if six failures can be counted
\* and the power of two overflows later than that.
LEMMA NextBackoff ==
  ASSUME MaxFailures >= 6, FloatExponentLimit >= 6
  PROVE  TypeInv /\ BackoffHeld /\ [Next]_vars => BackoffHeld'
<1>. SUFFICES ASSUME TypeInv, BackoffHeld, [Next]_vars PROVE BackoffHeld'
  OBVIOUS
<1>1. ASSUME UNCHANGED <<failures, interval>> PROVE BackoffHeld'
  BY <1>1 DEF BackoffHeld
<1>2. ASSUME failures' = 0, interval' = PollInterval PROVE BackoffHeld'
  BY <1>2 DEF BackoffHeld
<1>3. failures \in 0..MaxFailures /\ MaxFailures \in Nat /\ FloatExponentLimit \in Nat
  BY DEF TypeInv, TypeOK
<1>4. CASE \E t \in Tasks : PollFails(t)
  <2>1. interval' = Backoff(failures + 1) /\ CountFailure
    BY <1>4 DEF PollFails
  <2>2. CASE failures < MaxFailures
    <3>1. failures' = failures + 1 /\ failures' # 0
      BY <1>3, <2>1, <2>2 DEF CountFailure
    <3>. QED
      BY <2>1, <3>1 DEF BackoffHeld
  <2>3. CASE ~(failures < MaxFailures)
    <3>1. failures' = failures /\ failures \in Nat /\ failures > 5
      BY <1>3, <2>1, <2>3 DEF CountFailure
    <3>2. Backoff(failures) = MaxRetryInterval /\ Backoff(failures + 1) = MaxRetryInterval
      BY <3>1 DEF Backoff
    <3>3. failures' # 0 /\ interval' = Backoff(failures')
      BY <2>1, <3>1, <3>2
    <3>. QED
      BY <3>3 DEF BackoffHeld
  <2>. QED
    BY <2>2, <2>3
<1>5. CASE \E t \in Tasks : PollOverflows(t)
  <2>1. failures >= FloatExponentLimit /\ CountFailure /\ interval' = interval
    BY <1>5 DEF PollOverflows
  <2>2. failures \in Nat /\ failures > 5 /\ failures' \in Nat /\ failures' > 5
    BY <1>3, <2>1 DEF CountFailure
  <2>3. Backoff(failures) = MaxRetryInterval /\ Backoff(failures') = MaxRetryInterval
    BY <2>2, BackoffLevel
  <2>4. failures # 0 /\ failures' # 0
    BY <2>2
  <2>. QED
    BY <2>1, <2>3, <2>4 DEF BackoffHeld
<1>6. ASSUME Discard PROVE BackoffHeld'
  BY <1>2, <1>6 DEF Discard
<1>7. ASSUME NEW t \in Tasks, Resume(t) PROVE BackoffHeld'
  <2>1. CASE PollSucceeds(t)
    BY <1>2, <2>1 DEF PollSucceeds
  <2>2. CASE PollGarbled(t) \/ CommandSucceeds(t) \/ CommandFails(t) \/ OrphanEnds(t)
    BY <1>1, <2>2 DEF PollGarbled, CommandSucceeds, CommandFails, OrphanEnds, pollVars
  <2>3. CASE SetupFails(t)
    BY <1>6, <2>3 DEF SetupFails
  <2>. QED
    BY <1>4, <1>5, <1>7, <2>1, <2>2, <2>3 DEF Resume
<1>8. CASE FirstRefresh \/ PollDue \/ Close
  BY <1>1, <1>8 DEF FirstRefresh, PollDue, Close, pollVars
<1>9. ASSUME NEW c \in Calls, Call(c) \/ Cancel(c) PROVE BackoffHeld'
  BY <1>1, <1>9 DEF Call, Cancel, pollVars
<1>10. ASSUME NEW t \in Tasks, Acquire(t) \/ Job(t) PROVE BackoffHeld'
  BY <1>1, <1>10 DEF Acquire, Job, Write, Read, Fail, Garble, pollVars
<1>11. CASE Environment
  BY <1>1, <1>6, <1>11
  DEF Environment, GatewayChange, TakeUp, Outage, Restart, Reload, Unload, pollVars
<1>12. CASE UNCHANGED vars
  BY <1>1, <1>12 DEF vars, pollVars
<1>. QED
  BY <1>7, <1>8, <1>9, <1>10, <1>11, <1>12 DEF Next

\* After n failed polls in a row the next poll comes 10 * 2^(n - 1) seconds later,
\* 300 at most, and after a success 10, whatever commands, overflows and garbled
\* answers come between.
THEOREM BackoffHolds ==
  ASSUME MaxFailures >= 6, FloatExponentLimit >= 6
  PROVE  Spec => []BackoffHeld
<1>1. Init => BackoffHeld
  BY DEF Init, BackoffHeld
<1>2. TypeInv /\ BackoffHeld /\ [Next]_vars => BackoffHeld'
  BY NextBackoff
<1>. QED
  BY <1>1, <1>2, TypeCorrect, PTL DEF Spec

------------------------------------------------------------------------------
(* The unload closes the session                                           *)

\* No service call takes the lock twice.
SingleSection == "room_level" \notin Services

\* Waiting tasks are in the queue; the task that closes the session is the last
\* one in it, and nothing follows it or is left when it is done.
CloseInv ==
  /\ \A t \in Tasks : Len(plan[t]) <= 1
  /\ \A t \in Tasks : stage[t] = "waiting" => \E i \in 1..Len(queue) : queue[i] = t
  /\ life \in {"unloading", "unloaded"} => ~armed
  /\ stage[Closer] # "idle" =>
       stage[Closer] \in {"waiting", "begun"} /\ Op(Closer) = "close" /\ life = "unloading"
  /\ stage[Closer] = "waiting" => queue # <<>> /\ queue[Len(queue)] = Closer
  /\ stage[Closer] = "begun" => queue = <<>>
  /\ life = "unloaded" => ~conn /\ \A t \in Tasks : stage[t] = "idle"

\* Without two-section services every plan has one section.
LEMMA SinglePlan ==
  ASSUME TypeOK, SingleSection, NEW s \in Services, NEW ops \in ServicePlans(s)
  PROVE  Len(ops) = 1
<1>1. \A x : Len(<<x>>) = 1
  OBVIOUS
<1>2. s \in {"mode", "power_on", "power_off", "level"}
  BY DEF SingleSection, ServiceNames
<1>3. CASE s = "mode"
  <2>1. ServicePlans(s) = {<<m>> : m \in Modes}
    BY <1>3 DEF ServicePlans
  <2>. QED
    BY <1>1, <2>1, Zenon
<1>4. CASE s = "power_on" \/ s = "power_off"
  <2>1. ServicePlans(s) = {PowerPlan(TRUE)} \/ ServicePlans(s) = {PowerPlan(FALSE)}
    BY <1>4 DEF ServicePlans
  <2>2. ops = <<lastMode>> \/ ops = <<Off>>
    BY <2>1 DEF PowerPlan
  <2>. QED
    BY <1>1, <2>2, Zenon
<1>5. CASE s = "level"
  <2>1. ServicePlans(s) = {<<"level">>}
    BY <1>5 DEF ServicePlans
  <2>. QED
    BY <1>1, <2>1, Zenon
<1>. QED
  BY <1>2, <1>3, <1>4, <1>5

\* A new coordinator has nothing to close.
LEMMA InitClose == Init => CloseInv
<1>1. Len(<<>>) = 0
  OBVIOUS
<1>. QED
  BY <1>1 DEF Init, CloseInv, Tasks

\* So has one that starts again.
LEMMA DiscardClose ==
  ASSUME Discard
  PROVE  CloseInv'
<1>1. Len(<<>>) = 0
  OBVIOUS
<1>. QED
  BY <1>1 DEF Discard, CloseInv, Tasks

\* A poll or a call joins the queue while nobody is closing the session.
LEMMA EnqueueClose ==
  ASSUME TypeInv, CloseInv, NEW t \in Tasks, t # Closer, NEW ops, Len(ops) = 1,
         Enqueue(t, ops), life \in {"setup", "loaded"},
         UNCHANGED <<life, conn>>
  PROVE  CloseInv'
<1>1. stage[Closer] = "idle"
  BY DEF CloseInv
<1>2. /\ stage' = [stage EXCEPT ![t] = "waiting"] /\ plan' = [plan EXCEPT ![t] = ops]
      /\ stage'[Closer] = "idle"
  BY <1>1 DEF Enqueue, TypeInv, TypeOK, Tasks
<1>3. /\ Len(queue') = Len(queue) + 1 /\ Len(queue) \in Nat
      /\ \A i \in 1..Len(queue) : queue'[i] = queue[i]
      /\ queue'[Len(queue) + 1] = t
  BY AppendProperties DEF TypeInv, TypeOK, Enqueue
<1>4. \A u \in Tasks : Len(plan'[u]) <= 1
  <2>1. \A u \in Tasks : plan'[u] = ops \/ plan'[u] = plan[u]
    BY <1>2 DEF TypeInv, TypeOK
  <2>2. \A u \in Tasks : Len(plan[u]) <= 1
    BY DEF CloseInv
  <2>3. 1 <= 1
    OBVIOUS
  <2>. QED
    BY <2>1, <2>2, <2>3, Zenon
<1>5. ASSUME NEW u \in Tasks, stage'[u] = "waiting"
      PROVE  \E i \in 1..Len(queue') : queue'[i] = u
  <2>1. CASE u = t
    <3>1. Len(queue) + 1 \in 1..Len(queue')
      BY <1>3
    <3>. QED
      BY <1>3, <2>1, <3>1
  <2>2. CASE u # t
    <3>1. stage[u] = "waiting"
      BY <1>2, <1>5, <2>2 DEF TypeInv, TypeOK
    <3>2. PICK i \in 1..Len(queue) : queue[i] = u
      BY <3>1 DEF CloseInv
    <3>3. i \in 1..Len(queue') /\ queue'[i] = u
      BY <1>3, <3>2
    <3>. QED
      BY <3>3
  <2>. QED
    BY <2>1, <2>2
<1>. QED
  BY <1>2, <1>4, <1>5 DEF CloseInv

\* A task other than the closing one goes on to a stage that is not waiting.
LEMMA StageClose ==
  ASSUME TypeInv, CloseInv, NEW t \in Tasks, t # Closer, stage[t] # "idle",
         NEW s, s # "waiting",
         stage' = [stage EXCEPT ![t] = s], queue' = queue,
         life' = life \/ (life = "setup" /\ life' = "loaded"),
         armed' => armed \/ life \in {"setup", "loaded"},
         \A u \in Tasks : plan'[u] = plan[u] \/ (u # Closer /\ plan'[u] = <<>>)
  PROVE  CloseInv'
<1>1. Len(<<>>) = 0
  OBVIOUS
<1>2. /\ stage'[Closer] = stage[Closer] /\ Closer \in Tasks
      /\ \A u \in Tasks : stage'[u] = "waiting" => stage[u] = "waiting"
  BY DEF TypeInv, TypeOK, Tasks
<1>3. plan'[Closer] = plan[Closer]
  BY <1>2
<1>4. \A u \in Tasks : Len(plan'[u]) <= 1
  BY <1>1 DEF CloseInv
<1>5. life # "unloaded"
  BY DEF CloseInv
<1>. QED
  BY <1>2, <1>3, <1>4, <1>5 DEF CloseInv, Op

\* When its turn has come, the closing task is the only one left.
LEMMA ClosesLast ==
  ASSUME TypeInv, LockInv, CloseInv, Cancellable = {}, stage[Closer] = "begun"
  PROVE  \A t \in Tasks \ {Closer} : stage[t] = "idle"
<1>1. Closer \in Tasks /\ stage[Closer] \in JobStages /\ orphans = {}
  BY DEF Tasks, JobStages, LockInv
<1>2. holder = Closer
  BY <1>1 DEF LockInv
<1>3. ASSUME NEW t \in Tasks \ {Closer} PROVE stage[t] = "idle"
  <2>1. stage[t] \notin JobStages
    BY <1>1, <1>2 DEF LockInv
  <2>2. stage[t] # "waiting"
    <3>1. queue = <<>>
      BY DEF CloseInv
    <3>2. Len(queue) = 0
      BY <3>1
    <3>. QED
      BY <3>2 DEF CloseInv
  <2>. QED
    BY <2>1, <2>2 DEF TypeInv, TypeOK, Stages
<1>. QED
  BY <1>3

\* Handing the lock on keeps the closing task last.
LEMMA AcquireClose ==
  ASSUME TypeInv, CloseInv, NEW t \in Tasks, Acquire(t)
  PROVE  CloseInv'
<1>1. /\ queue \in Seq(Tasks) /\ Len(queue) \in Nat /\ Len(queue) > 0 /\ queue[1] = t
      /\ queue' \in Seq(Tasks) /\ Len(queue') = Len(queue) - 1
      /\ \A i \in 1..Len(queue') : queue'[i] = queue[i + 1]
  BY HeadTailProperties DEF Acquire, TypeInv, TypeOK
<1>2. 1 \in 1..Len(queue) /\ Len(queue) \in 1..Len(queue)
  BY <1>1
<1>3. stage[t] = "waiting" /\ stage' = [stage EXCEPT ![t] = "begun"]
  BY <1>1, <1>2 DEF Acquire, TypeInv, QueueInv
<1>4. ASSUME NEW u \in Tasks, stage'[u] = "waiting"
      PROVE  \E i \in 1..Len(queue') : queue'[i] = u
  <2>1. stage[u] = "waiting" /\ u # t
    BY <1>3, <1>4 DEF TypeInv, TypeOK
  <2>2. PICK i \in 1..Len(queue) : queue[i] = u
    BY <2>1 DEF CloseInv
  <2>3. i # 1
    BY <1>1, <2>1, <2>2
  <2>4. i - 1 \in 1..Len(queue') /\ (i - 1) + 1 = i
    BY <1>1, <2>2, <2>3
  <2>. QED
    BY <1>1, <2>2, <2>4
<1>5. UNCHANGED <<plan, life, armed, conn>> /\ Closer \in Tasks
  BY DEF Acquire, pollVars, Tasks
<1>6. CASE t = Closer
  <2>1. queue[Len(queue)] = Closer
    BY <1>3, <1>6 DEF CloseInv
  <2>2. Len(queue) = 1
    BY <1>1, <1>2, <1>6, <2>1 DEF TypeInv, QueueInv
  <2>3. queue' = <<>>
    BY <1>1, <2>2, EmptySeq
  <2>4. life = "unloading" /\ Op(Closer) = "close"
    BY <1>3, <1>6 DEF CloseInv
  <2>5. stage'[Closer] = "begun"
    BY <1>3, <1>5, <1>6 DEF TypeInv, TypeOK
  <2>. QED
    BY <1>4, <1>5, <2>3, <2>4, <2>5 DEF CloseInv, Op
<1>7. CASE t # Closer
  <2>1. stage'[Closer] = stage[Closer]
    BY <1>3, <1>5, <1>7 DEF TypeInv, TypeOK
  <2>2. stage[Closer] # "begun"
    BY <1>1 DEF CloseInv
  <2>3. ASSUME stage[Closer] = "waiting"
        PROVE  queue' # <<>> /\ queue'[Len(queue')] = Closer
    <3>1. queue[Len(queue)] = Closer
      BY <2>3 DEF CloseInv
    <3>2. Len(queue) # 1
      BY <1>1, <1>7, <3>1
    <3>3. Len(queue') \in 1..Len(queue') /\ Len(queue') + 1 = Len(queue)
      BY <1>1, <3>2
    <3>4. queue' # <<>>
      BY <3>3
    <3>. QED
      BY <1>1, <3>1, <3>3, <3>4
  <2>4. life # "unloaded"
    BY <1>3 DEF CloseInv
  <2>. QED
    BY <1>4, <1>5, <2>1, <2>2, <2>3, <2>4 DEF CloseInv, Op
<1>. QED
  BY <1>6, <1>7

\* Every step keeps the closing task last.
LEMMA NextClose ==
  ASSUME Cancellable = {}, SingleSection
  PROVE  TypeInv /\ LockInv /\ CloseInv /\ [Next]_vars => CloseInv'
<1>. SUFFICES ASSUME TypeInv, LockInv, CloseInv, [Next]_vars PROVE CloseInv'
  OBVIOUS
<1>1. \A x : Len(<<x>>) = 1
  OBVIOUS
<1>2. ASSUME NEW t \in Tasks, Finish(t), stage[t] \in JobStages, t # Closer,
             queue' = queue, life' = life \/ (life = "setup" /\ life' = "loaded"),
             armed' => armed \/ life \in {"setup", "loaded"}
      PROVE  CloseInv'
  <2>1. /\ stage[t] # "idle" /\ stage' = [stage EXCEPT ![t] = "idle"]
        /\ \A u \in Tasks : plan'[u] = plan[u] \/ (u # Closer /\ plan'[u] = <<>>)
    BY <1>2 DEF Finish, JobStages, TypeInv, TypeOK
  <2>2. "idle" # "waiting"
    OBVIOUS
  <2>. QED
    BY <1>2, <2>1, <2>2, StageClose, Zenon
<1>3. ASSUME NEW t \in Tasks, stage[t] \in JobStages, stage[t] # "begun" \/ Op(t) # "close"
      PROVE  t # Closer
  BY <1>3 DEF CloseInv, JobStages
<1>4. "close" \notin Modes /\ ~IsCommand("close")
  BY DEF IsCommand, Commands
<1>5. CASE FirstRefresh
  <2>1. PICK t \in Pollers : Enqueue(t, <<"poll">>)
    BY <1>5 DEF FirstRefresh
  <2>2. t \in Tasks /\ t # Closer
    BY DEF Tasks
  <2>. QED
    BY <1>1, <1>5, <2>1, <2>2, EnqueueClose DEF FirstRefresh
<1>6. CASE PollDue
  <2>1. PICK t \in Pollers : Enqueue(t, <<"poll">>)
    BY <1>6 DEF PollDue
  <2>2. t \in Tasks /\ t # Closer
    BY DEF Tasks
  <2>3. life \in {"setup", "loaded"}
    BY <1>6 DEF PollDue, CloseInv, TypeInv, TypeOK
  <2>. QED
    BY <1>1, <1>6, <2>1, <2>2, <2>3, EnqueueClose DEF PollDue
<1>7. CASE Close
  <2>1. \A t \in Tasks \ {Closer} : stage[t] = "idle"
    BY <1>7, ClosesLast DEF Close
  <2>2. /\ \A t \in Tasks : stage'[t] = "idle"
        /\ \A t \in Tasks : plan'[t] = plan[t] \/ plan'[t] = <<>>
        /\ life' = "unloaded" /\ ~conn' /\ armed' = armed /\ life = "unloading"
    BY <1>7, <2>1 DEF Close, Finish, TypeInv, TypeOK, pollVars, CloseInv
  <2>3. Len(<<>>) = 0 /\ Closer \in Tasks
    BY DEF Tasks
  <2>. QED
    BY <2>2, <2>3 DEF CloseInv
<1>8. ASSUME NEW c \in Calls, Call(c) PROVE CloseInv'
  <2>1. PICK s \in Services : \E ops \in ServicePlans(s) : Enqueue(c, ops)
    BY <1>8 DEF Call
  <2>2. PICK ops \in ServicePlans(s) : Enqueue(c, ops)
    BY <2>1
  <2>3. Len(ops) = 1
    BY SinglePlan DEF TypeInv
  <2>4. c \in Tasks /\ c # Closer
    BY DEF Tasks
  <2>. QED
    BY <1>8, <2>2, <2>3, <2>4, EnqueueClose DEF Call
<1>9. ASSUME NEW c \in Calls, Cancel(c) PROVE CloseInv'
  BY <1>9 DEF Cancel
<1>10. ASSUME NEW t \in Tasks, Acquire(t) PROVE CloseInv'
  BY <1>10, AcquireClose
<1>11. ASSUME NEW t \in Tasks, Job(t) PROVE CloseInv'
  <2>1. /\ stage[t] \in {"begun", "written"} /\ UNCHANGED <<life, queue, plan, armed>>
        /\ stage[t] # "begun" \/ Op(t) # "close"
        /\ \E s : s # "waiting" /\ stage' = [stage EXCEPT ![t] = s]
    BY <1>4, <1>11 DEF Job, Write, Read, Fail, Garble, pollVars
  <2>2. t # Closer /\ stage[t] # "idle"
    BY <1>3, <2>1 DEF JobStages
  <2>. QED
    BY <2>1, <2>2, StageClose
<1>12. ASSUME NEW t \in Tasks, Resume(t) PROVE CloseInv'
  <2>1. CASE PollSucceeds(t)
    BY <1>2, <1>3, <2>1 DEF PollSucceeds, Rearm, JobStages
  <2>2. CASE PollFails(t)
    BY <1>2, <1>3, <2>2 DEF PollFails, Rearm, JobStages
  <2>3. CASE PollOverflows(t)
    BY <1>2, <1>3, <2>3 DEF PollOverflows, Rearm, JobStages
  <2>4. CASE PollGarbled(t)
    BY <1>2, <1>3, <2>4 DEF PollGarbled, Rearm, JobStages
  <2>5. CASE SetupFails(t)
    BY <2>5, DiscardClose DEF SetupFails
  <2>6. CASE CommandSucceeds(t)
    <3>1. /\ stage[t] \in JobStages /\ stage[t] # "begun" /\ plan[t] \in Seq(Ops)
          /\ plan[t] # <<>> /\ Len(plan[t]) <= 1
      BY <2>6 DEF CommandSucceeds, JobStages, TypeInv, TypeOK, PlansPending, CloseInv
    <3>2. Len(plan[t]) = 1 /\ Tail(plan[t]) = <<>>
      <4>1. Len(plan[t]) \in Nat /\ Len(plan[t]) # 0
        BY <3>1, EmptySeq
      <4>2. Len(plan[t]) = 1
        <5>1. \A n \in Nat : n # 0 /\ n <= 1 => n = 1
          OBVIOUS
        <5>. QED
          BY <3>1, <4>1, <5>1, Zenon
      <4>3. Tail(plan[t]) \in Seq(Ops) /\ Len(Tail(plan[t])) = 0
        BY <3>1, <4>2, HeadTailProperties
      <4>4. \A ops \in Seq(Ops) : ops # <<>> => Len(ops) \in Nat \ {0}
        BY EmptySeq
      <4>5. Tail(plan[t]) = <<>>
        <5>1. 0 \notin Nat \ {0}
          OBVIOUS
        <5>. QED
          BY <4>3, <4>4, <5>1, Zenon
      <4>. QED
        BY <4>2, <4>5
    <3>3. /\ stage' = [stage EXCEPT ![t] = "idle"] /\ UNCHANGED <<queue, life>>
          /\ plan' = [plan EXCEPT ![t] = <<>>] /\ armed' = (armed \/ life = "loaded")
      BY <2>6, <3>2 DEF CommandSucceeds
    <3>4. t # Closer /\ stage[t] # "idle"
      BY <1>3, <3>1 DEF JobStages
    <3>5. \A u \in Tasks : plan'[u] = plan[u] \/ (u # Closer /\ plan'[u] = <<>>)
      BY <3>3, <3>4 DEF TypeInv, TypeOK
    <3>6. "idle" # "waiting"
      OBVIOUS
    <3>. QED
      BY <3>3, <3>4, <3>5, <3>6, StageClose
  <2>7. CASE CommandFails(t)
    BY <1>2, <1>3, <2>7 DEF CommandFails, JobStages, pollVars
  <2>8. CASE OrphanEnds(t)
    BY <2>8 DEF OrphanEnds, LockInv
  <2>. QED
    BY <1>12, <2>1, <2>2, <2>3, <2>4, <2>5, <2>6, <2>7, <2>8 DEF Resume
<1>13. CASE Environment
  <2>1. CASE GatewayChange \/ Outage \/ \E w \in due : TakeUp(w)
    BY <2>1 DEF GatewayChange, Outage, TakeUp, lockVars, pollVars, CloseInv, Op
  <2>2. CASE Restart \/ Reload
    BY <2>2, DiscardClose DEF Restart, Reload
  <2>3. CASE Unload
    <3>1. /\ Len(queue') = Len(queue) + 1 /\ Len(queue) \in Nat
          /\ \A i \in 1..Len(queue) : queue'[i] = queue[i]
          /\ queue'[Len(queue) + 1] = Closer
      BY <2>3, AppendProperties DEF TypeInv, TypeOK, Unload, Enqueue, Tasks
    <3>2. /\ stage' = [stage EXCEPT ![Closer] = "waiting"]
          /\ plan' = [plan EXCEPT ![Closer] = <<"close">>]
          /\ life' = "unloading" /\ ~armed' /\ Closer \in Tasks
      BY <2>3 DEF Unload, Enqueue, Tasks
    <3>3. /\ stage'[Closer] = "waiting" /\ plan'[Closer] = <<"close">>
          /\ \A t \in Tasks : t # Closer => stage'[t] = stage[t] /\ plan'[t] = plan[t]
      BY <3>2 DEF TypeInv, TypeOK
    <3>4. Op(Closer)' = "close" /\ Len(plan'[Closer]) = 1
      BY <3>3 DEF Op
    <3>5. \A t \in Tasks : Len(plan'[t]) <= 1
      <4>1. \A t \in Tasks : Len(plan[t]) <= 1
        BY DEF CloseInv
      <4>2. \A t \in Tasks : t = Closer \/ plan'[t] = plan[t]
        BY <3>3
      <4>3. Len(plan'[Closer]) <= 1
        BY <3>4
      <4>. QED
        BY <4>1, <4>2, <4>3, Zenon
    <3>6. ASSUME NEW u \in Tasks, stage'[u] = "waiting"
          PROVE  \E i \in 1..Len(queue') : queue'[i] = u
      <4>1. CASE u = Closer
        <5>1. Len(queue) + 1 \in 1..Len(queue')
          BY <3>1
        <5>. QED
          BY <3>1, <4>1, <5>1
      <4>2. CASE u # Closer
        <5>1. PICK i \in 1..Len(queue) : queue[i] = u
          BY <3>3, <3>6, <4>2 DEF CloseInv
        <5>2. i \in 1..Len(queue') /\ queue'[i] = u
          BY <3>1, <5>1
        <5>. QED
          BY <5>2
      <4>. QED
        BY <4>1, <4>2
    <3>7. queue' # <<>> /\ queue'[Len(queue')] = Closer
      BY <3>1
    <3>. QED
      BY <3>2, <3>3, <3>4, <3>5, <3>6, <3>7 DEF CloseInv
  <2>. QED
    BY <1>13, <2>1, <2>2, <2>3 DEF Environment
<1>14. CASE UNCHANGED vars
  BY <1>14 DEF vars, lockVars, pollVars, CloseInv, Op
<1>. QED
  BY <1>5, <1>6, <1>7, <1>8, <1>9, <1>10, <1>11, <1>12, <1>13, <1>14 DEF Next

\* Where no call is cancelled and none takes the lock twice, unloading the entry
\* leaves no session open, whatever was queued or running when it began.
THEOREM UnloadClosesHolds ==
  ASSUME Cancellable = {}, SingleSection
  PROVE  Spec => []UnloadCloses
<1>1. CloseInv => UnloadCloses
  BY DEF CloseInv, UnloadCloses
<1>2. TypeInv /\ LockInv /\ CloseInv /\ [Next]_vars => CloseInv'
  BY NextClose
<1>. QED
  BY <1>1, <1>2, TypeCorrect, InitLock, NextLock, InitClose, PTL DEF Spec
=============================================================================
