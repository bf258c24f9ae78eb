------------------------------ MODULE ConfigFlow ------------------------------
(***************************************************************************)
(* The config flows of the integration: local discovery, the choice of a   *)
(* gateway, physical pairing in an executor thread, and the change of an   *)
(* entry's address.  Several flows may be open at once, gateways change    *)
(* their addresses, the user may close a dialog or restart Home Assistant  *)
(* at any point.  Home Assistant keeps two flows from claiming the same    *)
(* unique id; closing a dialog does not stop the thread that pairs.        *)
(***************************************************************************)
EXTENDS Naturals, FiniteSets

CONSTANTS
  Gateways,      \* gateways, each with its UUID
  Hosts,         \* addresses
  Flows,         \* flows that may be open together
  NoHost,        \* a gateway that cannot be reached; one that has not answered
  Everywhere,    \* the target of a broadcast
  NoEntry,       \* a gateway that is not configured
  NoChoice,      \* no gateway is selected
  Nobody,        \* the flow that started a pairing is gone
  MayGarble,     \* an answer to a pairing request may not parse
  MaxPairings,   \* bound: pairings started
  MaxMoves       \* bound: changes of an address

ASSUME HostsAssumption ==
  /\ NoHost \notin Hosts /\ Everywhere \notin Hosts
  /\ NoEntry \notin [host : Hosts, app : Nat]
  /\ NoChoice \notin [uuid : Gateways, host : Hosts]
  /\ Nobody \notin Flows
ASSUME BoundsAssumption == MaxPairings \in Nat /\ MaxMoves \in Nat /\ MayGarble \in BOOLEAN

VARIABLES
  addr,     \* address of each gateway
  apps,     \* applications registered at each gateway
  places,   \* history: addresses each gateway has had
  moves,    \* changes of an address so far
  entries,  \* config entries by unique id: the address and the paired application
  step,     \* the step each flow is in; "none" for no flow
  probe,    \* where a flow's discovery asks
  found,    \* discovered gateways of each flow, with their addresses
  chosen,   \* _selected
  target,   \* the entry a flow reconfigures
  jobs,     \* pairings under way or ended, with the flow that waits for them
  issued    \* number of pairings started: each proposes a new application

gatewayVars == <<addr, apps, places, moves>>
flowVars == <<step, probe, found, chosen, target>>
vars == <<gatewayVars, entries, flowVars, jobs, issued>>

Steps == {"none", "scan", "menu", "manual", "probe", "select", "confirm", "pair",
          "pair_failed", "crashed", "reconfigure", "verify"}
Listening == {"scan", "probe", "verify"}
Claiming == {"confirm", "pair", "pair_failed", "crashed"}
Nothing == [g \in Gateways |-> NoHost]
Jobs == [flow : Flows \cup {Nobody}, uuid : Gateways, host : Hosts, app : 1..MaxPairings,
         state : {"running", "paired", "failed", "garbled"}]

Init ==
  /\ addr \in [Gateways -> Hosts \cup {NoHost}]
  /\ \A g, k \in Gateways : addr[g] = addr[k] /\ addr[g] # NoHost => g = k
  /\ apps = [g \in Gateways |-> {}]
  /\ places = [g \in Gateways |-> {addr[g]} \cap Hosts] /\ moves = 0
  /\ entries = [g \in Gateways |-> NoEntry]
  /\ step = [f \in Flows |-> "none"] /\ probe = [f \in Flows |-> Everywhere]
  /\ found = [f \in Flows |-> Nothing]
  /\ chosen = [f \in Flows |-> NoChoice] /\ target = [f \in Flows |-> NoChoice]
  /\ jobs = {} /\ issued = 0

------------------------------------------------------------------------------
(* Discovery                                                               *)

Goto(f, next) == step' = [step EXCEPT ![f] = next]

\* discover_gateways sends its request ...
Ask(f, where, next) ==
  /\ Goto(f, next)
  /\ probe' = [probe EXCEPT ![f] = where]
  /\ found' = [found EXCEPT ![f] = Nothing]
  /\ UNCHANGED <<gatewayVars, entries, chosen, target, jobs, issued>>

\* ... and collects the answers with the addresses they come from.
Reply(f, g) ==
  /\ step[f] \in Listening
  /\ addr[g] # NoHost /\ probe[f] \in {Everywhere, addr[g]}
  /\ found' = [found EXCEPT ![f][g] = addr[g]]
  /\ UNCHANGED <<gatewayVars, entries, step, probe, chosen, target, jobs, issued>>

Found(f) == {g \in Gateways : found[f][g] # NoHost}

------------------------------------------------------------------------------
(* Choosing a gateway                                                      *)

\* async_step_user, async_step_retry
Start(f) == step[f] \in {"none", "menu"} /\ Ask(f, Everywhere, "scan")

\* _update_known_hosts
UpdateKnownHosts(f) ==
  entries' = [g \in Gateways |->
                IF g \in Found(f) /\ entries[g] # NoEntry
                THEN [entries[g] EXCEPT !.host = found[f][g]] ELSE entries[g]]

\* A flow that ends leaves nothing behind but the thread that pairs for it.
FlowEnds(f) ==
  /\ Goto(f, "none")
  /\ chosen' = [chosen EXCEPT ![f] = NoChoice]
  /\ target' = [target EXCEPT ![f] = NoChoice]

\* Mutant of Free: unique ids are not claimed.
FreeAlways(f, g) == TRUE

\* async_set_unique_id: no other flow has claimed the gateway.
Free(f, g) ==
  \A other \in Flows \ {f} :
    step[other] \in Claiming => chosen[other].uuid # g

Claim(f, g) ==
  IF Free(f, g)
  THEN /\ Goto(f, "confirm")
       /\ chosen' = [chosen EXCEPT ![f] = [uuid |-> g, host |-> found[f][g]]]
       /\ UNCHANGED target
  ELSE FlowEnds(f)

\* async_step_confirm for a gateway found at an address: aborted if another flow
\* has it, or if it is configured, in which case its address is updated.
AtConfirm(f, g) ==
  IF Free(f, g) /\ entries[g] # NoEntry
  THEN FlowEnds(f) /\ entries' = [entries EXCEPT ![g].host = found[f][g]]
  ELSE Claim(f, g) /\ UNCHANGED entries

\* The scan ends: none, one or several gateways are not configured yet, and are
\* what can be chosen from.
ScanEnds(f) ==
  LET new == {g \in Found(f) : entries[g] = NoEntry}
      one == Cardinality(new) = 1
  IN  /\ step[f] = "scan"
      /\ UpdateKnownHosts(f)
      /\ found' = [found EXCEPT ![f] =
                     [g \in Gateways |-> IF g \in new THEN found[f][g] ELSE NoHost]]
      /\ \/ ~one /\ Goto(f, IF new = {} THEN "menu" ELSE "select")
            /\ UNCHANGED <<chosen, target>>
         \/ one /\ \E g \in new : Claim(f, g)
      /\ UNCHANGED <<gatewayVars, probe, jobs, issued>>

\* async_step_select
Select(f) ==
  /\ step[f] = "select"
  /\ \E g \in Found(f) : AtConfirm(f, g)
  /\ UNCHANGED <<gatewayVars, probe, found, jobs, issued>>

\* async_step_manual: an address is asked, and the form shown again without one.
Manual(f) ==
  /\ step[f] = "menu"
  /\ Goto(f, "manual")
  /\ UNCHANGED <<gatewayVars, entries, probe, found, chosen, target, jobs, issued>>
Probe(f, host) == step[f] = "manual" /\ Ask(f, host, "probe")
ProbeEnds(f) ==
  /\ step[f] = "probe"
  /\ \/ /\ Found(f) = {} /\ Goto(f, "manual")
        /\ UNCHANGED <<entries, chosen, target>>
     \/ \E g \in Found(f) : AtConfirm(f, g)
  /\ UNCHANGED <<gatewayVars, probe, found, jobs, issued>>

------------------------------------------------------------------------------
(* Pairing                                                                 *)

\* async_step_pair starts the task; pair proposes a new application.
StartPairing(f) ==
  /\ issued < MaxPairings
  /\ issued' = issued + 1
  /\ Goto(f, "pair")
  /\ jobs' = jobs \cup {[flow |-> f, uuid |-> chosen[f].uuid, host |-> chosen[f].host,
                         app |-> issued + 1, state |-> "running"]}
  /\ UNCHANGED <<chosen, target, entries>>

\* The user submits the confirmation, which first repeats its checks.
Confirm(f) ==
  /\ step[f] = "confirm"
  /\ LET g == chosen[f].uuid
     IN  IF entries[g] # NoEntry
         THEN /\ FlowEnds(f)
              /\ entries' = [entries EXCEPT ![g].host = chosen[f].host]
              /\ UNCHANGED <<jobs, issued>>
         ELSE StartPairing(f)
  /\ UNCHANGED <<gatewayVars, probe, found>>

\* async_step_pair_failed
Retry(f) ==
  /\ step[f] = "pair_failed" /\ StartPairing(f)
  /\ UNCHANGED <<gatewayVars, probe, found>>

JobEnds(j, state) == jobs' = (jobs \ {j}) \cup {[j EXCEPT !.state = state]}

\* The TLS connection reaches the gateway that was selected.
Reached(j) == addr[j.uuid] = j.host

\* The user presses the button of the gateway, which registers the application;
\* its answer arrives, is lost, or does not parse.
Pair(j) ==
  /\ j.state = "running" /\ Reached(j)
  /\ apps' = [apps EXCEPT ![j.uuid] = @ \cup {j.app}]
  /\ \E state \in {"paired", "failed"} \cup (IF MayGarble THEN {"garbled"} ELSE {}) :
       JobEnds(j, state)
  /\ UNCHANGED <<addr, places, moves, entries, flowVars, issued>>

\* No button is pressed in time, nobody or another gateway answers at the address.
PairFails(j) ==
  /\ j.state = "running" /\ JobEnds(j, "failed")
  /\ UNCHANGED <<gatewayVars, entries, flowVars, issued>>

\* Mutant of Paired: any task that is done has paired.
TaskDone(j) == j.state # "running"

Paired(j) == j.state = "paired"

\* async_step_finish: the entry is created ...
CreateEntry(f) ==
  /\ step[f] = "pair"
  /\ \E j \in jobs :
       /\ j.flow = f /\ Paired(j)
       /\ jobs' = jobs \ {j}
       /\ entries' = [entries EXCEPT ![j.uuid] = [host |-> chosen[f].host, app |-> j.app]]
  /\ FlowEnds(f)
  /\ UNCHANGED <<gatewayVars, probe, found, issued>>
\* Mutant of PairingFailed: the form names a step that does not exist.
PairingFailedMisnamed(f) ==
  /\ step[f] = "pair"
  /\ \E j \in jobs : j.flow = f /\ j.state = "failed" /\ jobs' = jobs \ {j}
  /\ Goto(f, "pairing_failed")
  /\ UNCHANGED <<gatewayVars, entries, probe, found, chosen, target, issued>>

\* ... or the user may try again ...
PairingFailed(f) ==
  /\ step[f] = "pair"
  /\ \E j \in jobs : j.flow = f /\ j.state = "failed" /\ jobs' = jobs \ {j}
  /\ Goto(f, "pair_failed")
  /\ UNCHANGED <<gatewayVars, entries, probe, found, chosen, target, issued>>
\* ... or an exception that is not handled ends the step; the task stays.
FinishCrashes(f) ==
  /\ step[f] = "pair"
  /\ \E j \in jobs : j.flow = f /\ j.state = "garbled"
  /\ Goto(f, "crashed")
  /\ UNCHANGED <<gatewayVars, entries, probe, found, chosen, target, jobs, issued>>

------------------------------------------------------------------------------
(* Changing the address of an entry                                        *)

Reconfigure(f, g) ==
  /\ step[f] = "none" /\ entries[g] # NoEntry
  /\ Goto(f, "reconfigure") /\ target' = [target EXCEPT ![f] = g]
  /\ UNCHANGED <<gatewayVars, entries, probe, found, chosen, jobs, issued>>
Verify(f, host) == step[f] = "reconfigure" /\ Ask(f, host, "verify")

\* Mutant of Expected: some gateway answers at the address.
AnyAnswer(f) == Found(f) # {}

Expected(f) == target[f] \in Found(f)
VerifyEnds(f) ==
  /\ step[f] = "verify" /\ entries[target[f]] # NoEntry
  /\ IF Expected(f)
     THEN /\ FlowEnds(f)
          /\ entries' = [entries EXCEPT ![target[f]].host = probe[f]]
     ELSE Goto(f, "reconfigure") /\ UNCHANGED <<entries, chosen, target>>
  /\ UNCHANGED <<gatewayVars, probe, found, jobs, issued>>

------------------------------------------------------------------------------
(* The user, Home Assistant and the network                                *)

Orphan(j) == [j EXCEPT !.flow = Nobody]

\* The dialog is closed: the flow's task is cancelled, its thread is not.
CloseDialog(f) ==
  /\ step[f] # "none"
  /\ FlowEnds(f)
  /\ jobs' = {IF j.flow = f THEN Orphan(j) ELSE j : j \in jobs}
  /\ UNCHANGED <<gatewayVars, entries, probe, found, issued>>
RemoveEntry(g) ==
  /\ entries[g] # NoEntry
  /\ entries' = [entries EXCEPT ![g] = NoEntry]
  /\ UNCHANGED <<gatewayVars, flowVars, jobs, issued>>
Restart ==
  /\ \E f \in Flows : step[f] # "none"
  /\ step' = [f \in Flows |-> "none"]
  /\ chosen' = [f \in Flows |-> NoChoice] /\ target' = [f \in Flows |-> NoChoice]
  /\ jobs' = {}
  /\ UNCHANGED <<gatewayVars, entries, probe, found, issued>>
Move(g) ==
  /\ moves < MaxMoves /\ moves' = moves + 1
  /\ \E h \in (Hosts \cup {NoHost}) \ {addr[g]} :
       /\ h \in Hosts => \A k \in Gateways : addr[k] # h
       /\ addr' = [addr EXCEPT ![g] = h]
       /\ places' = [places EXCEPT ![g] = @ \cup ({h} \cap Hosts)]
  /\ UNCHANGED <<apps, entries, flowVars, jobs, issued>>

FlowStep(f) ==
  \/ Start(f) \/ ScanEnds(f) \/ Select(f) \/ Manual(f) \/ ProbeEnds(f)
  \/ Confirm(f) \/ Retry(f) \/ CreateEntry(f) \/ PairingFailed(f) \/ FinishCrashes(f)
  \/ VerifyEnds(f) \/ CloseDialog(f)
  \/ \E h \in Hosts : Probe(f, h) \/ Verify(f, h)
  \/ \E g \in Gateways : Reply(f, g) \/ Reconfigure(f, g)

Next ==
  \/ \E f \in Flows : FlowStep(f)
  \/ \E j \in jobs : Pair(j) \/ PairFails(j)
  \/ \E g \in Gateways : RemoveEntry(g) \/ Move(g)
  \/ Restart

Spec == Init /\ [][Next]_vars

------------------------------------------------------------------------------
(* Properties                                                              *)

\* A flow is in a step that exists, an entry has an address and an application,
\* and a pairing belongs to a flow or to nobody.
TypeOK ==
  /\ addr \in [Gateways -> Hosts \cup {NoHost}]
  /\ apps \in [Gateways -> SUBSET (1..MaxPairings)]
  /\ places \in [Gateways -> SUBSET Hosts] /\ moves \in 0..MaxMoves
  /\ entries \in [Gateways -> [host : Hosts, app : 1..MaxPairings] \cup {NoEntry}]
  /\ step \in [Flows -> Steps] /\ probe \in [Flows -> Hosts \cup {Everywhere}]
  /\ found \in [Flows -> [Gateways -> Hosts \cup {NoHost}]]
  /\ chosen \in [Flows -> [uuid : Gateways, host : Hosts] \cup {NoChoice}]
  /\ target \in [Flows -> Gateways \cup {NoChoice}]
  /\ jobs \subseteq Jobs /\ issued \in 0..MaxPairings

\* The flows as a registry of gateways: an application is awaited while an open flow
\* has paired it and not yet created the entry.
Promise == INSTANCE Registry WITH
  Applications <- 1..MaxPairings,
  awaited <- [g \in Gateways |->
                {j.app : j \in {i \in jobs : i.uuid = g /\ i.flow # Nobody /\ i.state = "paired"}}]

\* Whatever flows are open together, closed while their threads pair, or overtaken by
\* a scan, a gateway's entry is created from a pairing of this gateway that ended well
\* and was awaited, one for each pairing, and afterwards only given addresses the
\* gateway has answered from (config_flow.py:124-217).
ImplementsRegistry == Promise!Spec

\* The address of an entry is one its own gateway has answered from, whatever
\* gateways swapped their addresses meanwhile (config_flow.py:202, "Update a
\* gateway address without replacing its paired identity", and :213-214).
OwnAddress ==
  \A g \in Gateways : entries[g] # NoEntry => entries[g].host \in places[g]

\* Two open flows never pair with the same gateway.
OnePairing ==
  \A f, k \in Flows :
    step[f] = "pair" /\ step[k] = "pair" /\ chosen[f].uuid = chosen[k].uuid => f = k

\* While a gateway is configured its paired identity stays: no flow that was open
\* when the entry was created replaces it.
IdentityKept ==
  [][\A g \in Gateways :
       entries[g] # NoEntry /\ entries'[g] # NoEntry
         => entries'[g].app = entries[g].app]_entries
=============================================================================
