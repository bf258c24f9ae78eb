--------------------------- MODULE ConfigFlowProofs ---------------------------
(***************************************************************************)
(* What the config flows guarantee for any gateways, addresses, flows and  *)
(* numbers of pairings: an entry is paired, has an address of its own      *)
(* gateway and keeps its identity, since a gateway is claimed by at most   *)
(* one flow from the confirmation to the end of the pairing.               *)
(***************************************************************************)
EXTENDS ConfigFlow, TLAPS

Entry == [host : Hosts, app : 1..MaxPairings]

\* Every address that is kept is one the gateway has had.
PlacesInv ==
  /\ \A g \in Gateways : addr[g] # NoHost => addr[g] \in places[g]
  /\ \A f \in Flows : \A g \in Gateways :
       found[f][g] # NoHost => found[f][g] \in places[g]
  /\ \A f \in Flows : chosen[f] # NoChoice => chosen[f].host \in places[chosen[f].uuid]

\* A gateway that is claimed is not configured, and no other flow claims it.
ClaimInv ==
  /\ \A f \in Flows :
       step[f] \in Claiming => chosen[f] # NoChoice /\ entries[chosen[f].uuid] = NoEntry
  /\ \A f, k \in Flows :
       /\ step[f] \in Claiming /\ step[k] \in Claiming
       /\ chosen[f].uuid = chosen[k].uuid
       => f = k

\* A flow has at most one pairing, of the gateway it has claimed.
JobInv ==
  /\ \A j \in jobs : j.flow \in Flows =>
       step[j.flow] \in {"pair", "crashed"} /\ chosen[j.flow].uuid = j.uuid
  /\ \A j, k \in jobs : j.flow = k.flow /\ j.flow \in Flows => j = k
  /\ \A j \in jobs : j.state = "paired" => j.app \in apps[j.uuid]

\* An entry is created "only after pairing completed" (config_flow.py:167): the
\* gateway it stands for has registered its application.
EntriesPaired ==
  \A g \in Gateways : entries[g] # NoEntry => entries[g].app \in apps[g]

\* A changed address is verified at that address only.
VerifyInv ==
  \A f \in Flows : step[f] = "verify" =>
    /\ probe[f] \in Hosts
    /\ \A g \in Gateways : found[f][g] # NoHost => found[f][g] = probe[f]

Inv == /\ TypeOK /\ PlacesInv /\ ClaimInv /\ JobInv /\ VerifyInv
       /\ EntriesPaired /\ OwnAddress

LEMMA InitInv == Init => Inv
<1>. SUFFICES ASSUME Init PROVE Inv
  OBVIOUS
<1>1. TypeOK
  <2>1. /\ addr \in [Gateways -> Hosts \cup {NoHost}]
        /\ apps \in [Gateways -> SUBSET (1..MaxPairings)]
        /\ places \in [Gateways -> SUBSET Hosts] /\ moves \in 0..MaxMoves
    BY BoundsAssumption DEF Init
  <2>2. /\ entries \in [Gateways -> Entry \cup {NoEntry}]
        /\ step \in [Flows -> Steps] /\ probe \in [Flows -> Hosts \cup {Everywhere}]
        /\ found \in [Flows -> [Gateways -> Hosts \cup {NoHost}]]
    BY DEF Init, Steps, Nothing
  <2>3. /\ chosen \in [Flows -> [uuid : Gateways, host : Hosts] \cup {NoChoice}]
        /\ target \in [Flows -> Gateways \cup {NoChoice}]
        /\ jobs \subseteq Jobs /\ issued \in 0..MaxPairings
    BY BoundsAssumption DEF Init
  <2>. QED
    BY <2>1, <2>2, <2>3 DEF TypeOK, Entry
<1>2. PlacesInv /\ OwnAddress
  BY DEF Init, PlacesInv, OwnAddress, Nothing
<1>3. ClaimInv /\ JobInv /\ VerifyInv /\ EntriesPaired
  BY DEF Init, ClaimInv, JobInv, VerifyInv, EntriesPaired, Claiming
<1>. QED
  BY <1>1, <1>2, <1>3 DEF Inv

\* Entries are removed or get another address of their own gateway.
Readdressed ==
  /\ entries' \in [Gateways -> Entry \cup {NoEntry}]
  /\ \A g \in Gateways : entries'[g] # NoEntry =>
       /\ entries[g] # NoEntry /\ entries'[g].app = entries[g].app
       /\ entries'[g].host \in places[g]

LEMMA ReaddressOne ==
  ASSUME Inv, NEW g \in Gateways, entries[g] # NoEntry, NEW h \in places[g],
         entries' = [entries EXCEPT ![g].host = h]
  PROVE  Readdressed
<1>1. h \in Hosts /\ entries[g] \in Entry
  BY DEF Inv, TypeOK, Entry
<1>2. entries'[g] = [entries[g] EXCEPT !.host = h] /\ entries' \in [Gateways -> Entry \cup {NoEntry}]
  BY <1>1 DEF Inv, TypeOK, Entry
<1>3. entries'[g].app = entries[g].app /\ entries'[g].host = h
  BY <1>1, <1>2 DEF Entry
<1>4. \A k \in Gateways \ {g} : entries'[k] = entries[k]
  BY DEF Inv, TypeOK
<1>. QED
  BY <1>2, <1>3, <1>4 DEF Readdressed, Inv, OwnAddress

LEMMA ReaddressNone ==
  ASSUME Inv, UNCHANGED entries
  PROVE  Readdressed
BY DEF Readdressed, Inv, TypeOK, OwnAddress, Entry

\* Answers are kept, or forgotten.
Narrowed(f) ==
  /\ found' \in [Flows -> [Gateways -> Hosts \cup {NoHost}]]
  /\ \A k \in Flows \ {f} : found'[k] = found[k]
  /\ \A g \in Gateways : found'[f][g] # NoHost => found'[f][g] = found[f][g]

\* A flow goes on to a step that claims no gateway.
LEMMA UnclaimedInv ==
  ASSUME Inv, NEW f \in Flows, NEW s \in Steps \ Claiming,
         step[f] \notin {"pair", "crashed"}, step' = [step EXCEPT ![f] = s],
         s = "verify" => probe'[f] \in Hosts /\ \A g \in Gateways : found'[f][g] = NoHost,
         probe' \in [Flows -> Hosts \cup {Everywhere}],
         \A k \in Flows \ {f} : probe'[k] = probe[k],
         Narrowed(f), Readdressed,
         chosen' \in {chosen, [chosen EXCEPT ![f] = NoChoice]},
         target' \in [Flows -> Gateways \cup {NoChoice}],
         UNCHANGED <<gatewayVars, jobs, issued>>
  PROVE  Inv'
<1>1. step' \in [Flows -> Steps] /\ step'[f] = s
      /\ \A k \in Flows \ {f} : step'[k] = step[k]
  BY DEF Inv, TypeOK
<1>2. /\ chosen' \in [Flows -> [uuid : Gateways, host : Hosts] \cup {NoChoice}]
      /\ chosen'[f] \in {chosen[f], NoChoice}
      /\ \A k \in Flows \ {f} : chosen'[k] = chosen[k]
  BY DEF Inv, TypeOK
<1>3. UNCHANGED <<addr, apps, places, moves>>
  BY DEF gatewayVars
<1>4. TypeOK'
  BY <1>1, <1>2, <1>3 DEF Inv, TypeOK, Narrowed, Readdressed, Entry
<1>5. PlacesInv'
  <2>1. \A k \in Flows : \A g \in Gateways :
          found'[k][g] # NoHost => found'[k][g] \in places'[g]
    BY <1>3 DEF Inv, PlacesInv, Narrowed
  <2>2. \A k \in Flows : chosen'[k] # NoChoice => chosen'[k].host \in places'[chosen'[k].uuid]
    BY <1>2, <1>3 DEF Inv, PlacesInv
  <2>. QED
    BY <1>3, <2>1, <2>2 DEF Inv, PlacesInv
<1>6. ClaimInv'
  <2>1. \A k \in Flows : step'[k] \in Claiming => step[k] \in Claiming /\ chosen'[k] = chosen[k]
    BY <1>1, <1>2
  <2>2. \A k \in Flows : step[k] \in Claiming => chosen[k].uuid \in Gateways
    BY DEF Inv, TypeOK, ClaimInv
  <2>. QED
    BY <2>1, <2>2 DEF Inv, ClaimInv, Readdressed
<1>7. JobInv'
  <2>1. \A j \in jobs : j.flow # f
    BY DEF Inv, JobInv
  <2>. QED
    BY <1>1, <1>2, <1>3, <2>1 DEF Inv, JobInv
<1>8. VerifyInv'
  BY <1>1 DEF Inv, VerifyInv, Narrowed
<1>9. EntriesPaired' /\ OwnAddress'
  BY <1>3 DEF Inv, EntriesPaired, OwnAddress, Readdressed
<1>. QED
  BY <1>4, <1>5, <1>6, <1>7, <1>8, <1>9 DEF Inv

\* A flow claims a gateway that is free and not configured.
LEMMA ClaimedInv ==
  ASSUME Inv, NEW f \in Flows, NEW g \in Gateways, Free(f, g), entries[g] = NoEntry,
         found[f][g] # NoHost, step[f] \notin {"pair", "crashed"},
         step' = [step EXCEPT ![f] = "confirm"],
         chosen' = [chosen EXCEPT ![f] = [uuid |-> g, host |-> found[f][g]]],
         Narrowed(f), Readdressed, UNCHANGED <<probe, target, gatewayVars, jobs, issued>>
  PROVE  Inv'
<1>0. found[f][g] \in Hosts /\ found[f][g] \in places[g]
  BY DEF Inv, TypeOK, PlacesInv
<1>1. step' \in [Flows -> Steps] /\ step'[f] = "confirm"
      /\ \A k \in Flows \ {f} : step'[k] = step[k]
  BY DEF Inv, TypeOK, Steps
<1>2. /\ chosen' \in [Flows -> [uuid : Gateways, host : Hosts] \cup {NoChoice}]
      /\ chosen'[f].uuid = g /\ chosen'[f].host = found[f][g] /\ chosen'[f] # NoChoice
      /\ \A k \in Flows \ {f} : chosen'[k] = chosen[k]
  BY <1>0, HostsAssumption DEF Inv, TypeOK
<1>3. UNCHANGED <<addr, apps, places, moves>>
  BY DEF gatewayVars
<1>4. TypeOK'
  BY <1>1, <1>2, <1>3 DEF Inv, TypeOK, Narrowed, Readdressed, Entry
<1>5. PlacesInv'
  BY <1>0, <1>2, <1>3 DEF Inv, PlacesInv, Narrowed
<1>6. ClaimInv'
  <2>1. \A k \in Flows \ {f} : step[k] \in Claiming => chosen[k].uuid \in Gateways \ {g}
    BY DEF Inv, TypeOK, ClaimInv, Free
  <2>2. entries'[g] = NoEntry
    BY DEF Readdressed
  <2>. QED
    BY <1>1, <1>2, <2>1, <2>2 DEF Inv, ClaimInv, Readdressed
<1>7. JobInv'
  <2>1. \A j \in jobs : j.flow # f
    BY DEF Inv, JobInv
  <2>. QED
    BY <1>1, <1>2, <1>3, <2>1 DEF Inv, JobInv
<1>8. VerifyInv'
  BY <1>1 DEF Inv, VerifyInv, Narrowed
<1>9. EntriesPaired' /\ OwnAddress'
  BY <1>3 DEF Inv, EntriesPaired, OwnAddress, Readdressed
<1>. QED
  BY <1>4, <1>5, <1>6, <1>7, <1>8, <1>9 DEF Inv
\* A flow discovers, or ends what it has discovered.
LEMMA AskInv ==
  ASSUME Inv, NEW f \in Flows, NEW s \in {"scan", "probe", "verify"},
         NEW where \in Hosts \cup {Everywhere}, s = "verify" => where \in Hosts,
         step[f] \notin {"pair", "crashed"}, Ask(f, where, s)
  PROVE  Inv'
<1>1. s \in Steps \ Claiming /\ step' = [step EXCEPT ![f] = s]
  BY DEF Ask, Goto, Steps, Claiming
<1>2. /\ probe' \in [Flows -> Hosts \cup {Everywhere}] /\ probe'[f] = where
      /\ \A k \in Flows \ {f} : probe'[k] = probe[k]
  BY DEF Ask, Inv, TypeOK
<1>3. Narrowed(f) /\ \A g \in Gateways : found'[f][g] = NoHost
  BY DEF Ask, Narrowed, Nothing, Inv, TypeOK
<1>4. /\ Readdressed /\ target' \in [Flows -> Gateways \cup {NoChoice}] /\ chosen' = chosen
      /\ UNCHANGED <<gatewayVars, jobs, issued>>
  BY ReaddressNone DEF Ask, Inv, TypeOK
<1>. QED
  BY <1>1, <1>2, <1>3, <1>4, UnclaimedInv

\* A flow ends, or shows another form.
LEMMA ShownInv ==
  ASSUME Inv, NEW f \in Flows, step[f] \notin {"pair", "crashed"}, Readdressed, Narrowed(f),
         \/ FlowEnds(f)
         \/ /\ \E s \in {"menu", "select", "manual", "reconfigure"} : Goto(f, s)
            /\ UNCHANGED chosen /\ target' \in [Flows -> Gateways \cup {NoChoice}],
         UNCHANGED <<probe, gatewayVars, jobs, issued>>
  PROVE  Inv'
<1>1. \E s \in Steps \ Claiming : s # "verify" /\ step' = [step EXCEPT ![f] = s]
  BY DEF FlowEnds, Goto, Steps, Claiming
<1>2. /\ chosen' \in {chosen, [chosen EXCEPT ![f] = NoChoice]}
      /\ target' \in [Flows -> Gateways \cup {NoChoice}]
      /\ probe' \in [Flows -> Hosts \cup {Everywhere}]
  BY DEF FlowEnds, Inv, TypeOK
<1>3. \A k \in Flows \ {f} : probe'[k] = probe[k]
  OBVIOUS
<1>. QED
  BY <1>1, <1>2, <1>3, UnclaimedInv

LEMMA NarrowedSame ==
  ASSUME Inv, NEW f \in Flows, UNCHANGED found
  PROVE  Narrowed(f)
BY DEF Narrowed, Inv, TypeOK

\* A gateway that has been found is confirmed, or the flow ends.
LEMMA ClaimStep ==
  ASSUME Inv, NEW f \in Flows, NEW g \in Gateways, Claim(f, g), entries[g] = NoEntry,
         found[f][g] # NoHost, step[f] \notin {"pair", "crashed"},
         Narrowed(f), Readdressed, UNCHANGED <<probe, gatewayVars, jobs, issued>>
  PROVE  Inv'
<1>1. CASE Free(f, g)
  BY <1>1, ClaimedInv DEF Claim, Goto
<1>2. CASE ~Free(f, g)
  BY <1>2, ShownInv DEF Claim
<1>. QED
  BY <1>1, <1>2

LEMMA AtConfirmInv ==
  ASSUME Inv, NEW f \in Flows, NEW g \in Gateways, AtConfirm(f, g), found[f][g] # NoHost,
         step[f] \notin {"pair", "crashed"},
         UNCHANGED <<found, probe, gatewayVars, jobs, issued>>
  PROVE  Inv'
<1>1. Narrowed(f)
  BY NarrowedSame
<1>2. CASE Free(f, g) /\ entries[g] # NoEntry
  <2>1. found[f][g] \in places[g]
    BY DEF Inv, PlacesInv
  <2>2. Readdressed
    BY <1>2, <2>1, ReaddressOne DEF AtConfirm
  <2>. QED
    BY <1>1, <1>2, <2>2, ShownInv DEF AtConfirm
<1>3. CASE ~(Free(f, g) /\ entries[g] # NoEntry)
  <2>1. Claim(f, g) /\ Readdressed
    BY <1>3, ReaddressNone DEF AtConfirm
  <2>2. CASE entries[g] = NoEntry
    BY <1>1, <2>1, <2>2, ClaimStep
  <2>3. CASE ~Free(f, g)
    BY <1>1, <2>1, <2>3, ShownInv DEF Claim
  <2>. QED
    BY <1>3, <2>2, <2>3
<1>. QED
  BY <1>2, <1>3

\* The scan updates addresses and keeps the gateways that are not configured.
LEMMA ScanEndsInv ==
  ASSUME Inv, NEW f \in Flows, ScanEnds(f)
  PROVE  Inv'
<1>. DEFINE new == {g \in Found(f) : entries[g] = NoEntry}
<1>1. Narrowed(f)
  <2>1. found' = [found EXCEPT ![f] = [g \in Gateways |-> IF g \in new THEN found[f][g] ELSE NoHost]]
    BY DEF ScanEnds
  <2>. QED
    BY <2>1 DEF Narrowed, Inv, TypeOK, Found
<1>2. Readdressed
  <2>1. \A g \in Gateways : entries[g] # NoEntry => entries[g] \in Entry
    BY DEF Inv, TypeOK, Entry
  <2>2. \A g \in Found(f) : g \in Gateways /\ found[f][g] \in Hosts /\ found[f][g] \in places[g]
    BY DEF Inv, TypeOK, PlacesInv, Found
  <2>3. \A g \in Gateways : entries'[g] =
           IF g \in Found(f) /\ entries[g] # NoEntry
           THEN [entries[g] EXCEPT !.host = found[f][g]] ELSE entries[g]
    BY DEF ScanEnds, UpdateKnownHosts
  <2>4. ASSUME NEW g \in Gateways, g \in Found(f), entries[g] # NoEntry
        PROVE  /\ entries'[g] \in Entry /\ entries'[g].app = entries[g].app
               /\ entries'[g].host \in places[g]
    BY <2>1, <2>2, <2>3, <2>4 DEF Entry
  <2>5. \A g \in Gateways : ~(g \in Found(f) /\ entries[g] # NoEntry) => entries'[g] = entries[g]
    BY <2>3
  <2>6. entries' = [g \in Gateways |-> entries'[g]]
    BY DEF ScanEnds, UpdateKnownHosts
  <2>7. \A g \in Gateways : entries'[g] \in Entry \cup {NoEntry}
    BY <2>1, <2>4, <2>5
  <2>8. entries' \in [Gateways -> Entry \cup {NoEntry}]
    BY <2>6, <2>7
  <2>. QED
    BY <2>4, <2>5, <2>8 DEF Readdressed, Inv, OwnAddress
<1>3. step[f] = "scan" /\ UNCHANGED <<probe, gatewayVars, jobs, issued>>
  BY DEF ScanEnds
<1>4. CASE \E g \in new : Claim(f, g)
  <2>1. PICK g \in new : Claim(f, g)
    BY <1>4
  <2>2. g \in Gateways /\ found[f][g] # NoHost /\ entries[g] = NoEntry
    BY DEF Found
  <2>. QED
    BY <1>1, <1>2, <1>3, <2>1, <2>2, ClaimStep
<1>5. CASE Goto(f, IF new = {} THEN "menu" ELSE "select") /\ UNCHANGED <<chosen, target>>
  <2>1. /\ \E s \in {"menu", "select", "manual", "reconfigure"} : Goto(f, s)
        /\ target' \in [Flows -> Gateways \cup {NoChoice}]
    BY <1>5 DEF Inv, TypeOK
  <2>. QED
    BY <1>1, <1>2, <1>3, <1>5, <2>1, ShownInv
<1>. QED
  BY <1>4, <1>5 DEF ScanEnds

\* A changed address is taken over if the gateway has answered there.
LEMMA VerifyEndsInv ==
  ASSUME Inv, NEW f \in Flows, VerifyEnds(f)
  PROVE  Inv'
<1>1. Narrowed(f) /\ step[f] = "verify" /\ UNCHANGED <<probe, gatewayVars, jobs, issued>>
  BY NarrowedSame DEF VerifyEnds
<1>2. CASE Expected(f)
  <2>1. /\ target[f] \in Gateways /\ entries[target[f]] # NoEntry
        /\ probe[f] \in places[target[f]]
    BY <1>1, <1>2 DEF VerifyEnds, Expected, Found, Inv, PlacesInv, VerifyInv
  <2>2. Readdressed
    BY <1>2, <2>1, ReaddressOne DEF VerifyEnds
  <2>. QED
    BY <1>1, <1>2, <2>2, ShownInv DEF VerifyEnds
<1>3. CASE ~Expected(f)
  BY <1>1, <1>3, ReaddressNone, ShownInv DEF VerifyEnds, Inv, TypeOK
<1>. QED
  BY <1>2, <1>3

\* An answer is noted with the address it comes from.
LEMMA ReplyInv ==
  ASSUME Inv, NEW f \in Flows, NEW g \in Gateways, Reply(f, g)
  PROVE  Inv'
<1>1. addr[g] \in Hosts /\ addr[g] \in places[g] /\ probe[f] \in {Everywhere, addr[g]}
  BY DEF Reply, Inv, TypeOK, PlacesInv
<1>2. /\ found' \in [Flows -> [Gateways -> Hosts \cup {NoHost}]]
      /\ found'[f][g] = addr[g]
      /\ \A k \in Gateways \ {g} : found'[f][k] = found[f][k]
      /\ \A k \in Flows \ {f} : found'[k] = found[k]
  BY <1>1 DEF Reply, Inv, TypeOK
<1>3. UNCHANGED <<addr, apps, places, moves, entries, step, probe, chosen, target, jobs, issued>>
  BY DEF Reply, gatewayVars
<1>4. TypeOK'
  BY <1>2, <1>3 DEF Inv, TypeOK
<1>5. PlacesInv'
  <2>1. \A k \in Flows : \A h \in Gateways :
          found'[k][h] # NoHost => found'[k][h] \in places'[h]
    BY <1>1, <1>2, <1>3 DEF Inv, PlacesInv
  <2>. QED
    BY <1>3, <2>1 DEF Inv, PlacesInv
<1>6. VerifyInv'
  BY <1>1, <1>2, <1>3, HostsAssumption DEF Inv, VerifyInv
<1>7. ClaimInv' /\ JobInv' /\ EntriesPaired' /\ OwnAddress'
  BY <1>3 DEF Inv, ClaimInv, JobInv, EntriesPaired, OwnAddress
<1>. QED
  BY <1>4, <1>5, <1>6, <1>7 DEF Inv

\* A claiming flow starts to pair.
LEMMA StartPairingInv ==
  ASSUME Inv, NEW f \in Flows, step[f] \in {"confirm", "pair_failed"}, StartPairing(f),
         UNCHANGED <<gatewayVars, probe, found>>
  PROVE  Inv'
<1>. DEFINE new == [flow |-> f, uuid |-> chosen[f].uuid, host |-> chosen[f].host,
                    app |-> issued + 1, state |-> "running"]
<1>1. /\ chosen[f] \in [uuid : Gateways, host : Hosts] /\ issued + 1 \in 1..MaxPairings
      /\ entries[chosen[f].uuid] = NoEntry
  BY BoundsAssumption DEF Inv, TypeOK, ClaimInv, Claiming, StartPairing
<1>2. /\ step' \in [Flows -> Steps] /\ step'[f] = "pair"
      /\ \A k \in Flows \ {f} : step'[k] = step[k]
  BY DEF Inv, TypeOK, StartPairing, Goto, Steps
<1>3. UNCHANGED <<addr, apps, places, moves, entries, probe, found, chosen, target>>
  BY DEF gatewayVars, StartPairing
<1>4. jobs' = jobs \cup {new} /\ issued' = issued + 1
  BY DEF StartPairing
<1>5. new \in Jobs
  BY <1>1 DEF Jobs
<1>6. \A j \in jobs : j.flow # f
  BY DEF Inv, JobInv
<1>7. TypeOK'
  BY <1>1, <1>2, <1>3, <1>4, <1>5, BoundsAssumption DEF Inv, TypeOK
<1>8. PlacesInv' /\ EntriesPaired' /\ OwnAddress'
  BY <1>3 DEF Inv, PlacesInv, EntriesPaired, OwnAddress
<1>9. ClaimInv'
  BY <1>2, <1>3 DEF Inv, ClaimInv, Claiming
<1>10. JobInv'
  <2>1. \A j \in jobs' : j.flow \in Flows =>
          step'[j.flow] \in {"pair", "crashed"} /\ chosen'[j.flow].uuid = j.uuid
    BY <1>2, <1>3, <1>4, <1>6 DEF Inv, JobInv
  <2>2. \A j, k \in jobs' : j.flow = k.flow /\ j.flow \in Flows => j = k
    BY <1>4, <1>6 DEF Inv, JobInv
  <2>3. \A j \in jobs' : j.state = "paired" => j.app \in apps'[j.uuid]
    BY <1>3, <1>4 DEF Inv, JobInv
  <2>. QED
    BY <2>1, <2>2, <2>3 DEF JobInv
<1>11. VerifyInv'
  BY <1>2, <1>3 DEF Inv, VerifyInv
<1>. QED
  BY <1>7, <1>8, <1>9, <1>10, <1>11 DEF Inv

\* A pairing ends; the gateway may have registered the application.
LEMMA JobEndsInv ==
  ASSUME Inv, NEW j \in jobs, j.state = "running",
         NEW state \in {"paired", "failed", "garbled"}, JobEnds(j, state),
         apps' \in {apps, [apps EXCEPT ![j.uuid] = @ \cup {j.app}]},
         state = "paired" => j.app \in apps'[j.uuid],
         UNCHANGED <<addr, places, moves, entries, flowVars, issued>>
  PROVE  Inv'
<1>. DEFINE ended == [j EXCEPT !.state = state]
<1>0. j \in Jobs
  BY DEF Inv, TypeOK
<1>1. j \in Jobs /\ ended \in Jobs
  BY <1>0 DEF Jobs
<1>2. /\ ended.flow = j.flow /\ ended.uuid = j.uuid /\ ended.app = j.app /\ ended.state = state
      /\ jobs' = (jobs \ {j}) \cup {ended}
  BY <1>1 DEF JobEnds, Jobs
<1>. HIDE DEF ended
<1>3. UNCHANGED <<step, probe, found, chosen, target>>
  BY DEF flowVars
<1>4. /\ apps' \in [Gateways -> SUBSET (1..MaxPairings)]
      /\ \A g \in Gateways : apps[g] \subseteq apps'[g]
  <2>1. j.uuid \in Gateways /\ j.app \in 1..MaxPairings
    BY <1>0 DEF Jobs
  <2>2. apps \in [Gateways -> SUBSET (1..MaxPairings)]
    BY DEF Inv, TypeOK
  <2>. QED
    BY <2>1, <2>2
<1>5. TypeOK'
  BY <1>1, <1>2, <1>3, <1>4 DEF Inv, TypeOK
<1>6. PlacesInv' /\ ClaimInv' /\ VerifyInv' /\ OwnAddress'
  BY <1>3 DEF Inv, PlacesInv, ClaimInv, VerifyInv, OwnAddress
<1>7. EntriesPaired'
  BY <1>4 DEF Inv, EntriesPaired
<1>8. JobInv'
  <2>1. \A i \in jobs' : i.flow \in Flows =>
          step'[i.flow] \in {"pair", "crashed"} /\ chosen'[i.flow].uuid = i.uuid
    BY <1>2, <1>3 DEF Inv, JobInv
  <2>2. \A i, k \in jobs' : i.flow = k.flow /\ i.flow \in Flows => i = k
    BY <1>2 DEF Inv, JobInv
  <2>3. \A i \in jobs' : i.state = "paired" => i.app \in apps'[i.uuid]
    BY <1>2, <1>4 DEF Inv, JobInv, TypeOK, Jobs
  <2>. QED
    BY <2>1, <2>2, <2>3 DEF JobInv
<1>. QED
  BY <1>5, <1>6, <1>7, <1>8 DEF Inv

\* The entry of a paired gateway is created; it was not configured before.
LEMMA CreateEntryStep ==
  ASSUME Inv, NEW f \in Flows, CreateEntry(f)
  PROVE  \E j \in jobs :
           /\ j.flow = f /\ j.uuid = chosen[f].uuid /\ j.app \in apps[j.uuid]
           /\ jobs' = jobs \ {j} /\ entries[j.uuid] = NoEntry
           /\ entries' = [entries EXCEPT ![j.uuid] = [host |-> chosen[f].host, app |-> j.app]]
<1>1. step[f] = "pair"
  BY DEF CreateEntry
<1>2. PICK j \in jobs :
        /\ j.flow = f /\ j.state = "paired" /\ jobs' = jobs \ {j}
        /\ entries' = [entries EXCEPT ![j.uuid] = [host |-> chosen[f].host, app |-> j.app]]
  BY DEF CreateEntry, Paired
<1>3. j.uuid = chosen[f].uuid /\ j.app \in apps[j.uuid]
  BY <1>2 DEF Inv, JobInv
<1>4. entries[j.uuid] = NoEntry
  BY <1>1, <1>3 DEF Inv, ClaimInv, Claiming
<1>. QED
  BY <1>2, <1>3, <1>4

LEMMA CreateEntryInv ==
  ASSUME Inv, NEW f \in Flows, CreateEntry(f)
  PROVE  Inv'
<1>1. PICK j \in jobs :
           /\ j.flow = f /\ j.uuid = chosen[f].uuid /\ j.app \in apps[j.uuid]
           /\ jobs' = jobs \ {j} /\ entries[j.uuid] = NoEntry
           /\ entries' = [entries EXCEPT ![j.uuid] = [host |-> chosen[f].host, app |-> j.app]]
  BY CreateEntryStep
<1>2. /\ step[f] = "pair" /\ chosen[f] \in [uuid : Gateways, host : Hosts]
      /\ chosen[f].host \in places[j.uuid] /\ j \in Jobs
  BY <1>1 DEF CreateEntry, Inv, TypeOK, ClaimInv, PlacesInv, Claiming
<1>3. /\ step' \in [Flows -> Steps] /\ step'[f] = "none"
      /\ \A k \in Flows \ {f} : step'[k] = step[k]
      /\ chosen' \in [Flows -> [uuid : Gateways, host : Hosts] \cup {NoChoice}]
      /\ chosen'[f] = NoChoice /\ \A k \in Flows \ {f} : chosen'[k] = chosen[k]
      /\ target' \in [Flows -> Gateways \cup {NoChoice}]
  BY DEF CreateEntry, FlowEnds, Goto, Inv, TypeOK, Steps
<1>4. UNCHANGED <<addr, apps, places, moves, probe, found, issued>>
  BY DEF CreateEntry, gatewayVars
<1>5. /\ entries' \in [Gateways -> Entry \cup {NoEntry}]
      /\ entries'[j.uuid].host = chosen[f].host /\ entries'[j.uuid].app = j.app
      /\ \A g \in Gateways \ {j.uuid} : entries'[g] = entries[g]
  BY <1>1, <1>2 DEF Inv, TypeOK, Jobs, Entry
<1>6. TypeOK'
  BY <1>1, <1>3, <1>4, <1>5 DEF Inv, TypeOK, Entry
<1>7. PlacesInv'
  BY <1>3, <1>4 DEF Inv, PlacesInv
<1>8. ClaimInv'
  <2>1. \A k \in Flows \ {f} : step[k] \in Claiming => chosen[k].uuid \in Gateways \ {j.uuid}
    BY <1>1, <1>2 DEF Inv, TypeOK, ClaimInv, Claiming
  <2>2. "none" \notin Claiming
    BY DEF Claiming
  <2>. QED
    BY <1>3, <1>5, <2>1, <2>2 DEF Inv, ClaimInv
<1>9. JobInv'
  <2>1. \A i \in jobs' : i \in jobs /\ i.flow # f
    BY <1>1 DEF Inv, JobInv
  <2>. QED
    BY <1>3, <1>4, <2>1 DEF Inv, JobInv
<1>10. VerifyInv'
  BY <1>3, <1>4 DEF Inv, VerifyInv
<1>11. EntriesPaired' /\ OwnAddress'
  BY <1>1, <1>2, <1>4, <1>5 DEF Inv, EntriesPaired, OwnAddress
<1>. QED
  BY <1>6, <1>7, <1>8, <1>9, <1>10, <1>11 DEF Inv

\* A pairing has failed, or its answer ends the step with an exception.
LEMMA PairingStopsInv ==
  ASSUME Inv, NEW f \in Flows, PairingFailed(f) \/ FinishCrashes(f)
  PROVE  Inv'
<1>1. /\ step[f] = "pair" /\ step' \in [Flows -> Steps] /\ step'[f] \in {"pair_failed", "crashed"}
      /\ \A k \in Flows \ {f} : step'[k] = step[k]
  BY DEF PairingFailed, FinishCrashes, Goto, Inv, TypeOK, Steps
<1>2. UNCHANGED <<addr, apps, places, moves, entries, probe, found, chosen, target, issued>>
  BY DEF PairingFailed, FinishCrashes, gatewayVars
<1>3. /\ jobs' \subseteq jobs
      /\ step'[f] = "pair_failed" => \A j \in jobs' : j.flow # f
  <2>1. CASE PairingFailed(f)
    BY <2>1 DEF PairingFailed, Inv, JobInv
  <2>2. CASE FinishCrashes(f)
    BY <2>2 DEF FinishCrashes, Goto, Inv, TypeOK
  <2>. QED
    BY <2>1, <2>2
<1>4. TypeOK' /\ PlacesInv' /\ EntriesPaired' /\ OwnAddress'
  BY <1>1, <1>2, <1>3 DEF Inv, TypeOK, PlacesInv, EntriesPaired, OwnAddress
<1>5. ClaimInv'
  BY <1>1, <1>2 DEF Inv, ClaimInv, Claiming
<1>6. JobInv'
  BY <1>1, <1>2, <1>3 DEF Inv, JobInv
<1>7. VerifyInv'
  BY <1>1, <1>2 DEF Inv, VerifyInv
<1>. QED
  BY <1>4, <1>5, <1>6, <1>7 DEF Inv

\* A dialog is closed; its pairing goes on for nobody.
LEMMA CloseDialogInv ==
  ASSUME Inv, NEW f \in Flows, CloseDialog(f)
  PROVE  Inv'
<1>1. /\ step' \in [Flows -> Steps] /\ step'[f] = "none"
      /\ \A k \in Flows \ {f} : step'[k] = step[k]
      /\ chosen' \in [Flows -> [uuid : Gateways, host : Hosts] \cup {NoChoice}]
      /\ chosen'[f] = NoChoice /\ \A k \in Flows \ {f} : chosen'[k] = chosen[k]
      /\ target' \in [Flows -> Gateways \cup {NoChoice}]
  BY DEF CloseDialog, FlowEnds, Goto, Inv, TypeOK, Steps
<1>2. UNCHANGED <<addr, apps, places, moves, entries, probe, found, issued>>
  BY DEF CloseDialog, gatewayVars
<1>3. \A i \in jobs' :
        \/ i \in jobs /\ i.flow # f
        \/ /\ i \in Jobs /\ i.flow = Nobody
           /\ \E j \in jobs : i.state = j.state /\ i.app = j.app /\ i.uuid = j.uuid
  <2>1. ASSUME NEW j \in jobs
        PROVE  /\ Orphan(j) \in Jobs /\ Orphan(j).flow = Nobody
               /\ Orphan(j).state = j.state /\ Orphan(j).app = j.app /\ Orphan(j).uuid = j.uuid
    <3>1. j \in Jobs
      BY DEF Inv, TypeOK
    <3>. QED
      BY <3>1 DEF Jobs, Orphan
  <2>. QED
    BY <2>1 DEF CloseDialog
<1>4. TypeOK' /\ EntriesPaired' /\ OwnAddress'
  BY <1>1, <1>2, <1>3 DEF Inv, TypeOK, EntriesPaired, OwnAddress
<1>5. PlacesInv'
  BY <1>1, <1>2 DEF Inv, PlacesInv
<1>6. ClaimInv'
  BY <1>1, <1>2 DEF Inv, ClaimInv, Claiming
<1>7. JobInv'
  <2>1. \A i \in jobs' : i.flow \in Flows => i \in jobs /\ i.flow # f
    BY <1>3, HostsAssumption
  <2>2. \A i \in jobs' : i.state = "paired" => i.app \in apps'[i.uuid]
    BY <1>2, <1>3 DEF Inv, JobInv
  <2>. QED
    BY <1>1, <2>1, <2>2 DEF Inv, JobInv
<1>8. VerifyInv'
  BY <1>1, <1>2 DEF Inv, VerifyInv
<1>. QED
  BY <1>4, <1>5, <1>6, <1>7, <1>8 DEF Inv

\* An entry is removed, Home Assistant restarts, or a gateway gets another address.
LEMMA EnvironmentInv ==
  ASSUME Inv, (\E g \in Gateways : RemoveEntry(g) \/ Move(g)) \/ Restart
  PROVE  Inv'
<1>1. ASSUME NEW g \in Gateways, RemoveEntry(g) PROVE Inv'
  <2>1. /\ entries' \in [Gateways -> Entry \cup {NoEntry}]
        /\ \A k \in Gateways : entries'[k] \in {entries[k], NoEntry}
    BY <1>1 DEF RemoveEntry, Inv, TypeOK, Entry
  <2>2. UNCHANGED <<addr, apps, places, moves, step, probe, found, chosen, target, jobs, issued>>
    BY <1>1 DEF RemoveEntry, gatewayVars, flowVars
  <2>3. TypeOK' /\ PlacesInv' /\ JobInv' /\ VerifyInv' /\ EntriesPaired' /\ OwnAddress'
    BY <2>1, <2>2
       DEF Inv, TypeOK, PlacesInv, JobInv, VerifyInv, EntriesPaired, OwnAddress, Entry
  <2>4. ClaimInv'
    <3>1. \A k \in Flows : step[k] \in Claiming => chosen[k].uuid \in Gateways
      BY DEF Inv, TypeOK, ClaimInv
    <3>. QED
      BY <2>1, <2>2, <3>1 DEF Inv, ClaimInv
  <2>. QED
    BY <2>3, <2>4 DEF Inv
<1>2. CASE Restart
  <2>1. /\ step' = [f \in Flows |-> "none"] /\ chosen' = [f \in Flows |-> NoChoice]
        /\ target' = [f \in Flows |-> NoChoice] /\ jobs' = {}
        /\ UNCHANGED <<addr, apps, places, moves, entries, probe, found, issued>>
    BY <1>2 DEF Restart, gatewayVars
  <2>2. TypeOK'
    BY <2>1 DEF Inv, TypeOK, Steps
  <2>3. PlacesInv' /\ EntriesPaired' /\ OwnAddress'
    BY <2>1 DEF Inv, PlacesInv, EntriesPaired, OwnAddress
  <2>4. ClaimInv' /\ JobInv' /\ VerifyInv'
    BY <2>1 DEF ClaimInv, JobInv, VerifyInv, Claiming
  <2>. QED
    BY <2>2, <2>3, <2>4 DEF Inv
<1>3. ASSUME NEW g \in Gateways, Move(g) PROVE Inv'
  <2>1. PICK h \in Hosts \cup {NoHost} :
          /\ addr' = [addr EXCEPT ![g] = h]
          /\ places' = [places EXCEPT ![g] = @ \cup ({h} \cap Hosts)]
    BY <1>3 DEF Move
  <2>2. /\ addr' \in [Gateways -> Hosts \cup {NoHost}] /\ places' \in [Gateways -> SUBSET Hosts]
        /\ moves' \in 0..MaxMoves /\ addr'[g] = h
        /\ h # NoHost => h \in places'[g]
        /\ \A k \in Gateways \ {g} : addr'[k] = addr[k]
        /\ \A k \in Gateways : places[k] \subseteq places'[k]
    BY <1>3, <2>1, BoundsAssumption DEF Move, Inv, TypeOK
  <2>3. UNCHANGED <<apps, entries, step, probe, found, chosen, target, jobs, issued>>
    BY <1>3 DEF Move, flowVars
  <2>4. TypeOK'
    BY <2>2, <2>3 DEF Inv, TypeOK
  <2>5. PlacesInv'
    <3>1. \A k \in Flows : chosen[k] # NoChoice => chosen[k].uuid \in Gateways
      BY DEF Inv, TypeOK
    <3>2. \A k \in Gateways : addr'[k] # NoHost => addr'[k] \in places'[k]
      BY <2>2 DEF Inv, PlacesInv
    <3>. QED
      BY <2>2, <2>3, <3>1, <3>2 DEF Inv, PlacesInv
  <2>6. ClaimInv' /\ JobInv' /\ VerifyInv' /\ EntriesPaired' /\ OwnAddress'
    BY <2>2, <2>3 DEF Inv, ClaimInv, JobInv, VerifyInv, EntriesPaired, OwnAddress
  <2>. QED
    BY <2>4, <2>5, <2>6 DEF Inv
<1>. QED
  BY <1>1, <1>2, <1>3

\* Every step of a flow keeps the invariant.
LEMMA FlowStepInv ==
  ASSUME Inv, NEW f \in Flows, FlowStep(f)
  PROVE  Inv'
<1>1. CASE Start(f)
  BY <1>1, AskInv DEF Start
<1>2. CASE Select(f) \/ ProbeEnds(f)
  <2>1. /\ step[f] \in {"select", "probe"}
        /\ UNCHANGED <<found, probe, gatewayVars, jobs, issued>>
    BY <1>2 DEF Select, ProbeEnds
  <2>2. ASSUME NEW g \in Found(f), AtConfirm(f, g) PROVE Inv'
    <3>1. g \in Gateways /\ found[f][g] # NoHost
      BY DEF Found
    <3>. QED
      BY <2>1, <2>2, <3>1, AtConfirmInv
  <2>3. ASSUME Goto(f, "manual"), UNCHANGED <<entries, chosen, target>> PROVE Inv'
    BY <2>1, <2>3, NarrowedSame, ReaddressNone, ShownInv DEF Inv, TypeOK
  <2>. QED
    BY <1>2, <2>2, <2>3 DEF Select, ProbeEnds
<1>3. CASE Manual(f)
  BY <1>3, NarrowedSame, ReaddressNone, ShownInv DEF Manual, Inv, TypeOK
<1>4. CASE Confirm(f)
  <2>1. entries[chosen[f].uuid] = NoEntry /\ step[f] = "confirm"
    BY <1>4 DEF Confirm, Inv, ClaimInv, Claiming
  <2>. QED
    BY <1>4, <2>1, StartPairingInv DEF Confirm
<1>5. CASE Retry(f)
  BY <1>5, StartPairingInv DEF Retry
<1>6. ASSUME NEW h \in Hosts, Probe(f, h) \/ Verify(f, h) PROVE Inv'
  BY <1>6, AskInv DEF Probe, Verify
<1>7. ASSUME NEW g \in Gateways, Reconfigure(f, g) PROVE Inv'
  <2>1. target' \in [Flows -> Gateways \cup {NoChoice}]
    BY <1>7 DEF Reconfigure, Inv, TypeOK
  <2>. QED
    BY <1>7, <2>1, NarrowedSame, ReaddressNone, ShownInv DEF Reconfigure
<1>. QED
  BY <1>1, <1>2, <1>3, <1>4, <1>5, <1>6, <1>7, ScanEndsInv, CreateEntryInv, PairingStopsInv,
     VerifyEndsInv, CloseDialogInv, ReplyInv DEF FlowStep

LEMMA NextInv ==
  ASSUME Inv, [Next]_vars
  PROVE  Inv'
<1>1. ASSUME NEW j \in jobs, Pair(j) PROVE Inv'
  <2>1. /\ j.state = "running" /\ j.uuid \in Gateways
        /\ apps' = [apps EXCEPT ![j.uuid] = @ \cup {j.app}]
        /\ UNCHANGED <<addr, places, moves, entries, flowVars, issued>>
        /\ \E state \in {"paired", "failed", "garbled"} : JobEnds(j, state)
    BY <1>1 DEF Pair, Inv, TypeOK, Jobs
  <2>2. j.app \in apps'[j.uuid]
    BY <2>1 DEF Inv, TypeOK
  <2>. QED
    BY <2>1, <2>2, JobEndsInv
<1>2. ASSUME NEW j \in jobs, PairFails(j) PROVE Inv'
  BY <1>2, JobEndsInv DEF PairFails, gatewayVars
<1>3. CASE UNCHANGED vars
  BY <1>3 DEF vars, gatewayVars, flowVars, Inv, TypeOK, PlacesInv, ClaimInv, JobInv, VerifyInv,
       EntriesPaired, OwnAddress
<1>. QED
  BY <1>1, <1>2, <1>3, FlowStepInv, EnvironmentInv DEF Next

LEMMA Invariant == Spec => []Inv
<1>1. Inv /\ [Next]_vars => Inv'
  BY NextInv
<1>. QED
  BY InitInv, <1>1, PTL DEF Spec

\* Type correctness, for any gateways, addresses and flows.
THEOREM TypeCorrect == Spec => []TypeOK
<1>1. Inv => TypeOK
  BY DEF Inv
<1>. QED
  BY <1>1, Invariant, PTL

\* The gateway of every entry has registered the entry's application.
THEOREM EntriesPairedHolds == Spec => []EntriesPaired
<1>1. Inv => EntriesPaired
  BY DEF Inv
<1>. QED
  BY <1>1, Invariant, PTL

\* The address of every entry is one its own gateway has had.
THEOREM OwnAddressHolds == Spec => []OwnAddress
<1>1. Inv => OwnAddress
  BY DEF Inv
<1>. QED
  BY <1>1, Invariant, PTL

\* No two open flows pair with the same gateway.
THEOREM OnePairingHolds == Spec => []OnePairing
<1>1. Inv => OnePairing
  BY DEF Inv, ClaimInv, Claiming, OnePairing
<1>. QED
  BY <1>1, Invariant, PTL

\* While a gateway is configured its paired identity stays.
THEOREM IdentityKeptHolds == Spec => IdentityKept
<1>1. ASSUME Inv, [Next]_vars, NEW g \in Gateways, entries[g] # NoEntry, entries'[g] # NoEntry
      PROVE  entries'[g].app = entries[g].app
  <2>1. entries[g] \in Entry
    BY <1>1 DEF Inv, TypeOK, Entry
  <2>2. ASSUME NEW k, NEW h, entries' = [entries EXCEPT ![k].host = h]
        PROVE  entries'[g].app = entries[g].app
    BY <2>1, <2>2 DEF Inv, TypeOK, Entry
  <2>3. CASE UNCHANGED entries
    BY <2>3
  <2>4. ASSUME NEW f \in Flows, FlowStep(f)
        PROVE  entries'[g].app = entries[g].app
    <3>1. CASE ScanEnds(f)
      <4>1. entries'[g] \in {entries[g], [entries[g] EXCEPT !.host = found[f][g]]}
        BY <3>1 DEF ScanEnds, UpdateKnownHosts
      <4>. QED
        BY <2>1, <4>1 DEF Entry
    <3>2. CASE Select(f) \/ ProbeEnds(f)
      BY <2>2, <2>3, <3>2 DEF Select, ProbeEnds, AtConfirm
    <3>3. CASE Confirm(f) \/ Retry(f)
      BY <2>2, <2>3, <3>3 DEF Confirm, Retry, StartPairing
    <3>4. CASE CreateEntry(f)
      <4>1. PICK j \in jobs :
              /\ entries[j.uuid] = NoEntry
              /\ entries' = [entries EXCEPT ![j.uuid] = [host |-> chosen[f].host, app |-> j.app]]
        BY <1>1, <3>4, CreateEntryStep
      <4>2. j.uuid # g
        BY <1>1, <4>1
      <4>3. g \in DOMAIN entries
        BY <1>1 DEF Inv, TypeOK
      <4>. QED
        BY <4>1, <4>2, <4>3
    <3>5. CASE VerifyEnds(f)
      BY <2>2, <2>3, <3>5 DEF VerifyEnds
    <3>6. CASE Start(f) \/ Manual(f) \/ PairingFailed(f) \/ FinishCrashes(f) \/ CloseDialog(f)
      BY <2>3, <3>6 DEF Start, Ask, Manual, PairingFailed, FinishCrashes, CloseDialog
    <3>7. CASE (\E h \in Hosts : Probe(f, h) \/ Verify(f, h))
                 \/ \E k \in Gateways : Reply(f, k) \/ Reconfigure(f, k)
      BY <2>3, <3>7 DEF Probe, Verify, Ask, Reply, Reconfigure
    <3>. QED
      BY <2>4, <3>1, <3>2, <3>3, <3>4, <3>5, <3>6, <3>7 DEF FlowStep
  <2>5. CASE \E k \in Gateways : RemoveEntry(k)
    BY <1>1, <2>5 DEF RemoveEntry, Inv, TypeOK
  <2>. QED
    BY <1>1, <2>3, <2>4, <2>5 DEF Next, Pair, PairFails, Move, Restart, vars
<1>2. Inv /\ [Next]_vars
      => [\A g \in Gateways :
            entries[g] # NoEntry /\ entries'[g] # NoEntry
              => entries'[g].app = entries[g].app]_entries
  BY <1>1
<1>. QED
  BY <1>2, Invariant, PTL DEF Spec, IdentityKept

------------------------------------------------------------------------------
(* The flows implement the registry                                        *)

\* Every pairing proposes an application of its own, which no gateway knows while it
\* is under way.
FreshInv ==
  /\ \A j \in jobs : j.app <= issued
  /\ \A g \in Gateways : \A app \in apps[g] : app <= issued
  /\ \A i, j \in jobs : i.app = j.app => i = j
  /\ \A j \in jobs : j.state = "running" => \A g \in Gateways : j.app \notin apps[g]

\* What a step may do to the pairings.
LEMMA JobSteps ==
  ASSUME Inv, [Next]_vars
  PROVE  \/ UNCHANGED <<jobs, apps, issued>>
         \/ \E f \in Flows : StartPairing(f) /\ UNCHANGED <<gatewayVars, entries>>
         \/ \E j \in jobs : Pair(j) \/ PairFails(j)
         \/ \E f \in Flows : CreateEntry(f) \/ PairingFailed(f) \/ CloseDialog(f)
         \/ Restart
<1>1. ASSUME NEW f \in Flows, FlowStep(f)
      PROVE  \/ UNCHANGED <<jobs, apps, issued>>
             \/ StartPairing(f) /\ UNCHANGED <<gatewayVars, entries>>
             \/ CreateEntry(f) \/ PairingFailed(f) \/ CloseDialog(f)
  <2>1. CASE Confirm(f)
    <3>1. entries[chosen[f].uuid] = NoEntry
      BY <2>1 DEF Confirm, Inv, ClaimInv, Claiming
    <3>. QED
      BY <2>1, <3>1 DEF Confirm, StartPairing
  <2>2. CASE Retry(f)
    BY <2>2 DEF Retry, StartPairing
  <2>3. CASE Start(f) \/ ScanEnds(f) \/ Select(f) \/ Manual(f) \/ ProbeEnds(f)
             \/ FinishCrashes(f) \/ VerifyEnds(f)
    BY <2>3 DEF Start, Ask, ScanEnds, Select, Manual, ProbeEnds, FinishCrashes, VerifyEnds,
       gatewayVars
  <2>4. CASE (\E h \in Hosts : Probe(f, h) \/ Verify(f, h))
               \/ \E g \in Gateways : Reply(f, g) \/ Reconfigure(f, g)
    BY <2>4 DEF Probe, Verify, Ask, Reply, Reconfigure, gatewayVars
  <2>. QED
    BY <1>1, <2>1, <2>2, <2>3, <2>4 DEF FlowStep
<1>2. CASE \E g \in Gateways : RemoveEntry(g) \/ Move(g)
  BY <1>2 DEF RemoveEntry, Move, gatewayVars
<1>3. CASE UNCHANGED vars
  BY <1>3 DEF vars, gatewayVars
<1>. QED
  BY <1>1, <1>2, <1>3 DEF Next

LEMMA InitFresh == Init => FreshInv
  BY DEF Init, FreshInv

\* The pairing that starts has the next number; one that ends keeps it.
LEMMA NextFresh ==
  ASSUME Inv, FreshInv, [Next]_vars
  PROVE  FreshInv'
<1>1. CASE UNCHANGED <<jobs, apps, issued>>
  BY <1>1 DEF FreshInv
<1>2. ASSUME NEW f \in Flows, StartPairing(f), UNCHANGED <<gatewayVars, entries>>
      PROVE  FreshInv'
  <2>. DEFINE new == [flow |-> f, uuid |-> chosen[f].uuid, host |-> chosen[f].host,
                      app |-> issued + 1, state |-> "running"]
  <2>1. jobs' = jobs \cup {new} /\ issued' = issued + 1 /\ new.app = issued + 1
        /\ issued \in Nat /\ UNCHANGED apps
    BY <1>2, BoundsAssumption DEF StartPairing, gatewayVars, Inv, TypeOK
  <2>2. \A g \in Gateways : apps[g] \subseteq Nat
    BY BoundsAssumption DEF Inv, TypeOK
  <2>3. \A j \in jobs : j.app \in Nat
    BY BoundsAssumption DEF Inv, TypeOK, Jobs
  <2>. HIDE DEF new
  <2>. QED
    BY <2>1, <2>2, <2>3 DEF FreshInv
<1>3. ASSUME NEW j \in jobs, Pair(j) \/ PairFails(j)
      PROVE  FreshInv'
  <2>0. j \in Jobs /\ j.uuid \in Gateways /\ apps \in [Gateways -> SUBSET (1..MaxPairings)]
    BY DEF Inv, TypeOK, Jobs
  <2>1. PICK state \in {"paired", "failed", "garbled"} : JobEnds(j, state)
    BY <1>3 DEF Pair, PairFails
  <2>. DEFINE ended == [j EXCEPT !.state = state]
  <2>2. /\ ended.app = j.app /\ ended.state = state
        /\ jobs' = (jobs \ {j}) \cup {ended}
    BY <2>0, <2>1 DEF JobEnds, Jobs
  <2>. HIDE DEF ended
  <2>3. j.state = "running" /\ UNCHANGED issued
        /\ \A g \in Gateways : apps'[g] \subseteq apps[g] \cup {j.app}
    <3>1. CASE Pair(j)
      BY <3>1, <2>0 DEF Pair
    <3>2. CASE PairFails(j)
      BY <3>2 DEF PairFails, gatewayVars
    <3>. QED
      BY <1>3, <3>1, <3>2
  <2>. QED
    BY <2>2, <2>3 DEF FreshInv
<1>4. ASSUME NEW f \in Flows, CreateEntry(f) \/ PairingFailed(f)
      PROVE  FreshInv'
  <2>1. jobs' \subseteq jobs /\ UNCHANGED <<apps, issued>>
    BY <1>4 DEF CreateEntry, PairingFailed, gatewayVars
  <2>. QED
    BY <2>1 DEF FreshInv
<1>5. ASSUME NEW f \in Flows, CloseDialog(f)
      PROVE  FreshInv'
  <2>1. ASSUME NEW j \in jobs
        PROVE  Orphan(j).app = j.app /\ Orphan(j).state = j.state
    <3>1. j \in Jobs
      BY DEF Inv, TypeOK
    <3>. QED
      BY <3>1 DEF Jobs, Orphan
  <2>2. jobs' = {IF j.flow = f THEN Orphan(j) ELSE j : j \in jobs} /\ UNCHANGED <<apps, issued>>
    BY <1>5 DEF CloseDialog, gatewayVars
  <2>3. \A i \in jobs' : \E j \in jobs :
          i = (IF j.flow = f THEN Orphan(j) ELSE j) /\ i.app = j.app /\ i.state = j.state
    BY <2>1, <2>2
  <2>. QED
    BY <2>2, <2>3 DEF FreshInv
<1>6. CASE Restart
  BY <1>6 DEF Restart, FreshInv, gatewayVars
<1>. QED
  BY <1>1, <1>2, <1>3, <1>4, <1>5, <1>6, JobSteps

\* The pairings an open flow has finished and not yet used.
Awaited == [g \in Gateways |->
              {j.app : j \in {i \in jobs : i.uuid = g /\ i.flow # Nobody /\ i.state = "paired"}}]

LEMMA InitRegistry == Init => Promise!Init
<1>. SUFFICES ASSUME Init PROVE Promise!Init
  OBVIOUS
<1>1. Awaited = [g \in Gateways |-> {}]
  BY DEF Init, Awaited
<1>2. places \in [Gateways -> SUBSET Hosts]
  BY DEF Init
<1>. QED
  BY <1>1, <1>2 DEF Init, Awaited, Promise!Init

\* Addresses are given to entries of gateways that have had them.
LEMMA ReaddressStep ==
  ASSUME Inv, NEW f \in Flows,
         \/ UNCHANGED entries
         \/ \E g \in Gateways : \E h \in places[g] :
              entries[g] # NoEntry /\ entries' = [entries EXCEPT ![g].host = h]
         \/ UpdateKnownHosts(f),
         UNCHANGED <<places, apps, jobs>>
  PROVE  [Promise!Next]_(Promise!vars)
<1>1. UNCHANGED Awaited
  BY DEF Awaited
<1>2. ASSUME NEW some \in SUBSET Gateways, NEW to \in [some -> Hosts],
             \A g \in some : entries[g] # NoEntry /\ to[g] \in places[g],
             entries' = [g \in Gateways |-> IF g \in some THEN [entries[g] EXCEPT !.host = to[g]]
                                            ELSE entries[g]]
      PROVE  Promise!Next
  <2>1. Promise!Readdress(some)
    BY <1>1, <1>2 DEF Promise!Readdress, Awaited
  <2>. QED
    BY <2>1 DEF Promise!Next
<1>3. CASE UNCHANGED entries
  BY <1>1, <1>3 DEF Promise!vars, Awaited
<1>4. ASSUME NEW g \in Gateways, NEW h \in places[g], entries[g] # NoEntry,
             entries' = [entries EXCEPT ![g].host = h]
      PROVE  Promise!Next
  <2>. DEFINE some == {g}
              to == [k \in some |-> h]
  <2>1. h \in Hosts
    BY DEF Inv, TypeOK
  <2>2. some \in SUBSET Gateways /\ to \in [some -> Hosts]
        /\ \A k \in some : entries[k] # NoEntry /\ to[k] \in places[k]
    BY <1>4, <2>1
  <2>3. entries' = [k \in Gateways |-> IF k \in some THEN [entries[k] EXCEPT !.host = to[k]]
                                       ELSE entries[k]]
    BY <1>4 DEF Inv, TypeOK
  <2>. HIDE DEF some, to
  <2>. QED
    BY <1>2, <2>2, <2>3
<1>5. CASE UpdateKnownHosts(f)
  <2>. DEFINE some == {g \in Found(f) : entries[g] # NoEntry}
              to == [g \in some |-> found[f][g]]
  <2>1. \A g \in some : g \in Gateways /\ found[f][g] \in Hosts /\ found[f][g] \in places[g]
    BY DEF Found, Inv, TypeOK, PlacesInv
  <2>2. some \in SUBSET Gateways /\ to \in [some -> Hosts]
        /\ \A g \in some : entries[g] # NoEntry /\ to[g] \in places[g]
    BY <2>1
  <2>3. entries' = [g \in Gateways |-> IF g \in some THEN [entries[g] EXCEPT !.host = to[g]]
                                       ELSE entries[g]]
    BY <1>5 DEF UpdateKnownHosts
  <2>. HIDE DEF some, to
  <2>. QED
    BY <1>2, <2>2, <2>3
<1>. QED
  BY <1>3, <1>4, <1>5

\* Every step of a flow that leaves the pairings alone.
LEMMA FlowRegistry ==
  ASSUME Inv, NEW f \in Flows, FlowStep(f),
         ~CreateEntry(f), ~PairingFailed(f), ~CloseDialog(f),
         ~(StartPairing(f) /\ UNCHANGED <<gatewayVars, entries>>)
  PROVE  [Promise!Next]_(Promise!vars)
<1>1. ASSUME NEW g \in Gateways, found[f][g] # NoHost, AtConfirm(f, g),
             UNCHANGED <<gatewayVars, jobs>>
      PROVE  [Promise!Next]_(Promise!vars)
  <2>1. found[f][g] \in places[g]
    BY <1>1 DEF Inv, PlacesInv
  <2>2. \/ UNCHANGED entries
        \/ entries[g] # NoEntry /\ entries' = [entries EXCEPT ![g].host = found[f][g]]
    BY <1>1 DEF AtConfirm
  <2>. QED
    BY <1>1, <2>1, <2>2, ReaddressStep DEF gatewayVars
<1>2. ASSUME UNCHANGED <<gatewayVars, entries, jobs>>
      PROVE  [Promise!Next]_(Promise!vars)
  BY <1>2, ReaddressStep DEF gatewayVars
<1>3. CASE ScanEnds(f)
  BY <1>3, ReaddressStep DEF ScanEnds, gatewayVars
<1>4. CASE Select(f) \/ ProbeEnds(f)
  <2>1. UNCHANGED <<gatewayVars, jobs>>
    BY <1>4 DEF Select, ProbeEnds
  <2>2. UNCHANGED entries \/ \E g \in Found(f) : AtConfirm(f, g)
    BY <1>4 DEF Select, ProbeEnds
  <2>. QED
    BY <1>1, <1>2, <2>1, <2>2 DEF Found
<1>5. CASE VerifyEnds(f)
  <2>1. UNCHANGED <<gatewayVars, jobs>> /\ step[f] = "verify"
    BY <1>5 DEF VerifyEnds
  <2>2. CASE Expected(f)
    <3>1. /\ target[f] \in Gateways /\ entries[target[f]] # NoEntry
          /\ probe[f] \in places[target[f]]
      BY <1>5, <2>1, <2>2 DEF VerifyEnds, Expected, Found, Inv, PlacesInv, VerifyInv
    <3>. QED
      BY <1>5, <2>1, <2>2, <3>1, ReaddressStep DEF VerifyEnds, gatewayVars
  <2>3. CASE ~Expected(f)
    BY <1>2, <1>5, <2>1, <2>3 DEF VerifyEnds
  <2>. QED
    BY <2>2, <2>3
<1>6. CASE Confirm(f) \/ Retry(f)
  <2>1. step[f] = "confirm" => entries[chosen[f].uuid] = NoEntry
    BY DEF Inv, ClaimInv, Claiming
  <2>. QED
    BY <1>6, <2>1 DEF Confirm, Retry, StartPairing
<1>7. CASE Start(f) \/ Manual(f) \/ FinishCrashes(f)
  BY <1>2, <1>7 DEF Start, Ask, Manual, FinishCrashes
<1>8. CASE (\E h \in Hosts : Probe(f, h) \/ Verify(f, h))
             \/ \E g \in Gateways : Reply(f, g) \/ Reconfigure(f, g)
  BY <1>2, <1>8 DEF Probe, Verify, Ask, Reply, Reconfigure
<1>. QED
  BY <1>3, <1>4, <1>5, <1>6, <1>7, <1>8 DEF FlowStep

\* A pairing ends: if it went well and its flow is still open, its application is the
\* one an entry may be created for, since the flow has claimed the gateway alone.
LEMMA PairRegistry ==
  ASSUME Inv, FreshInv, NEW j \in jobs, Pair(j)
  PROVE  Promise!Next
<1>. DEFINE g == j.uuid
<1>1. /\ j \in Jobs /\ g \in Gateways /\ j.app \in 1..MaxPairings /\ j.state = "running"
      /\ UNCHANGED <<places, entries>>
  BY DEF Pair, Inv, TypeOK, Jobs
<1>2. /\ \A k \in Gateways : j.app \notin apps[k]
      /\ apps' = [apps EXCEPT ![g] = @ \cup {j.app}]
  BY <1>1 DEF Pair, FreshInv
<1>3. PICK state \in {"paired", "failed", "garbled"} : JobEnds(j, state)
  BY DEF Pair
<1>. DEFINE ended == [j EXCEPT !.state = state]
<1>4. /\ ended.app = j.app /\ ended.state = state /\ ended.flow = j.flow /\ ended.uuid = g
      /\ jobs' = (jobs \ {j}) \cup {ended}
  BY <1>1, <1>3 DEF JobEnds, Jobs
<1>. HIDE DEF ended
<1>5. CASE state = "paired" /\ j.flow # Nobody
  <2>1. j.flow \in Flows
    BY <1>1, <1>5 DEF Jobs
  <2>2. step[j.flow] \in Claiming /\ chosen[j.flow].uuid = g
    BY <2>1 DEF Inv, JobInv, Claiming
  <2>3. entries[g] = NoEntry
    BY <2>1, <2>2 DEF Inv, ClaimInv
  <2>4. ASSUME NEW i \in jobs, i.uuid = g, i.flow # Nobody, i.state = "paired"
        PROVE  FALSE
    <3>1. i.flow \in Flows
      BY <2>4 DEF Inv, TypeOK, Jobs
    <3>2. step[i.flow] \in Claiming /\ chosen[i.flow].uuid = g
      BY <2>4, <3>1 DEF Inv, JobInv, Claiming
    <3>3. i.flow = j.flow
      BY <2>1, <2>2, <3>1, <3>2 DEF Inv, ClaimInv
    <3>4. i = j
      BY <2>1, <3>3 DEF Inv, JobInv
    <3>. QED
      BY <1>1, <2>4, <3>4
  <2>5. Awaited[g] = {}
    BY <1>1, <2>4 DEF Awaited
  <2>6. ASSUME NEW k \in Gateways
        PROVE  Awaited'[k] = IF k = g THEN {j.app} ELSE Awaited[k]
    <3>1. CASE k = g
      <4>1. \A i \in jobs' : i.uuid = k /\ i.flow # Nobody /\ i.state = "paired" <=> i = ended
        BY <1>4, <1>5, <2>4, <3>1
      <4>2. ended \in jobs'
        BY <1>4
      <4>. QED
        BY <1>4, <3>1, <4>1, <4>2 DEF Awaited
    <3>2. CASE k # g
      <4>1. \A i : i \in jobs' /\ i.uuid = k <=> i \in jobs /\ i.uuid = k
        BY <1>4, <3>2
      <4>. QED
        BY <3>2, <4>1 DEF Awaited
    <3>. QED
      BY <3>1, <3>2
  <2>7. Awaited' = [Awaited EXCEPT ![g] = {j.app}]
    <3>. SUFFICES Awaited' = [k \in Gateways |-> IF k = g THEN {j.app} ELSE Awaited[k]]
      BY DEF Awaited
    <3>. QED
      BY <2>6 DEF Awaited
  <2>8. Promise!Register(g, j.app)
    BY <1>1, <1>2, <2>3, <2>5, <2>7 DEF Promise!Register, Awaited
  <2>. QED
    BY <1>1, <2>8 DEF Promise!Next
<1>6. CASE ~(state = "paired" /\ j.flow # Nobody)
  <2>1. \A i : /\ i \in jobs' /\ i.flow # Nobody /\ i.state = "paired"
               <=> i \in jobs /\ i.flow # Nobody /\ i.state = "paired"
    BY <1>1, <1>4, <1>6
  <2>2. UNCHANGED Awaited
    BY <2>1 DEF Awaited
  <2>3. Promise!Register(g, j.app)
    BY <1>1, <1>2, <2>2 DEF Promise!Register, Awaited
  <2>. QED
    BY <1>1, <2>3 DEF Promise!Next
<1>. QED
  BY <1>5, <1>6

\* The entry is created for the application that is awaited.
LEMMA CreateRegistry ==
  ASSUME Inv, FreshInv, NEW f \in Flows, CreateEntry(f)
  PROVE  Promise!Next
<1>1. PICK j \in jobs :
        /\ j.flow = f /\ j.state = "paired" /\ jobs' = jobs \ {j}
        /\ entries' = [entries EXCEPT ![j.uuid] = [host |-> chosen[f].host, app |-> j.app]]
  BY DEF CreateEntry, Paired
<1>2. /\ j.uuid = chosen[f].uuid /\ step[f] \in Claiming
      /\ UNCHANGED <<places, apps>>
  BY <1>1 DEF CreateEntry, Inv, JobInv, Claiming, gatewayVars
<1>3. /\ chosen[f] \in [uuid : Gateways, host : Hosts]
      /\ chosen[f].host \in places[j.uuid] /\ entries[j.uuid] = NoEntry
  BY <1>2 DEF Inv, TypeOK, ClaimInv, PlacesInv
<1>4. f # Nobody /\ j.uuid \in Gateways /\ chosen[f].host \in Hosts
  BY <1>2, <1>3, HostsAssumption
<1>5. ASSUME NEW i \in jobs, i.uuid = j.uuid, i.flow # Nobody
      PROVE  i = j
  <2>1. i.flow \in Flows
    BY <1>5 DEF Inv, TypeOK, Jobs
  <2>2. step[i.flow] \in Claiming /\ chosen[i.flow].uuid = chosen[f].uuid
    BY <1>2, <1>5, <2>1 DEF Inv, JobInv, Claiming
  <2>3. i.flow = f
    BY <1>2, <2>1, <2>2 DEF Inv, ClaimInv
  <2>. QED
    BY <1>1, <2>3 DEF Inv, JobInv
<1>6. j.app \in Awaited[j.uuid]
  BY <1>1, <1>4 DEF Awaited
<1>7. ASSUME NEW k \in Gateways
      PROVE  Awaited'[k] = IF k = j.uuid THEN {} ELSE Awaited[k]
  <2>1. CASE k = j.uuid
    <3>1. \A i \in jobs' : ~(i.uuid = k /\ i.flow # Nobody)
      BY <1>1, <1>5, <2>1
    <3>. QED
      BY <2>1, <3>1 DEF Awaited
  <2>2. CASE k # j.uuid
    <3>1. \A i : i \in jobs' /\ i.uuid = k <=> i \in jobs /\ i.uuid = k
      BY <1>1, <2>2
    <3>. QED
      BY <2>2, <3>1 DEF Awaited
  <2>. QED
    BY <2>1, <2>2
<1>8. Awaited' = [Awaited EXCEPT ![j.uuid] = {}]
  <2>. SUFFICES Awaited' = [k \in Gateways |-> IF k = j.uuid THEN {} ELSE Awaited[k]]
    BY DEF Awaited
  <2>. QED
    BY <1>7 DEF Awaited
<1>9. PICK h \in Hosts : h = chosen[f].host
  BY <1>4
<1>10. Promise!Create(j.uuid, h)
  BY <1>1, <1>2, <1>3, <1>6, <1>8, <1>9 DEF Promise!Create, Awaited
<1>. QED
  BY <1>4, <1>10 DEF Promise!Next

\* A dialog is closed, or all of them with Home Assistant: what they awaited is lost.
LEMMA GiveUpRegistry ==
  ASSUME Inv, UNCHANGED <<places, apps, entries>>, NEW f \in Flows \cup {Nobody},
         \/ jobs' = {}
         \/ /\ jobs' = {IF j.flow = f THEN Orphan(j) ELSE j : j \in jobs} /\ f \in Flows
            /\ \A j, i \in jobs : j.flow = f /\ i.uuid = j.uuid /\ i.flow # Nobody => i = j
  PROVE  Promise!Next
<1>. DEFINE lost == IF jobs' = {} THEN Gateways
                    ELSE {g \in Gateways : \E j \in jobs : j.flow = f /\ j.uuid = g}
<1>1. ASSUME NEW g \in Gateways
      PROVE  Awaited'[g] = IF g \in lost THEN {} ELSE Awaited[g]
  <2>1. CASE jobs' = {}
    BY <2>1 DEF Awaited
  <2>2. CASE jobs' # {}
    <3>1. jobs' = {IF j.flow = f THEN Orphan(j) ELSE j : j \in jobs}
          /\ \A j, i \in jobs : j.flow = f /\ i.uuid = j.uuid /\ i.flow # Nobody => i = j
      BY <2>2
    <3>2. \A j \in jobs : Orphan(j).flow = Nobody
      BY DEF Inv, TypeOK, Jobs, Orphan
    <3>3. \A i : i \in jobs' /\ i.flow # Nobody <=> i \in jobs /\ i.flow # Nobody /\ i.flow # f
      BY <2>2, <3>1, <3>2
    <3>4. CASE g \in lost
      <4>1. \A i \in jobs' : ~(i.uuid = g /\ i.flow # Nobody)
        BY <2>2, <3>1, <3>3, <3>4
      <4>. QED
        BY <3>4, <4>1 DEF Awaited
    <3>5. CASE g \notin lost
      <4>1. \A i : /\ i \in jobs' /\ i.uuid = g /\ i.flow # Nobody
                   <=> i \in jobs /\ i.uuid = g /\ i.flow # Nobody
        BY <2>2, <3>3, <3>5
      <4>. QED
        BY <3>5, <4>1 DEF Awaited
    <3>. QED
      BY <3>4, <3>5
  <2>. QED
    BY <2>1, <2>2
<1>2. Awaited' = [g \in Gateways |-> IF g \in lost THEN {} ELSE Awaited[g]]
  BY <1>1 DEF Awaited
<1>3. lost \in SUBSET Gateways
  OBVIOUS
<1>4. PICK some \in SUBSET Gateways : some = lost
  BY <1>3
<1>. HIDE DEF lost
<1>5. Promise!GiveUp(some)
  BY <1>2, <1>4 DEF Promise!GiveUp, Awaited
<1>. QED
  BY <1>5 DEF Promise!Next

\* Every step of the flows is one of the registry, or concerns it not.
LEMMA NextRegistry ==
  ASSUME Inv, FreshInv, [Next]_vars
  PROVE  [Promise!Next]_(Promise!vars)
<1>1. ASSUME UNCHANGED <<places, apps, entries>>,
             \A i : /\ i \in jobs' /\ i.flow # Nobody /\ i.state = "paired"
                    <=> i \in jobs /\ i.flow # Nobody /\ i.state = "paired"
      PROVE  UNCHANGED Promise!vars
  BY <1>1 DEF Promise!vars
<1>2. ASSUME NEW f \in Flows, StartPairing(f), UNCHANGED <<gatewayVars, entries>>
      PROVE  UNCHANGED Promise!vars
  BY <1>1, <1>2 DEF StartPairing, gatewayVars
<1>3. ASSUME NEW j \in jobs, PairFails(j)
      PROVE  UNCHANGED Promise!vars
  <2>1. j \in Jobs /\ j.state = "running"
    BY <1>3 DEF PairFails, Inv, TypeOK
  <2>. DEFINE ended == [j EXCEPT !.state = "failed"]
  <2>2. ended.state = "failed" /\ jobs' = (jobs \ {j}) \cup {ended}
    BY <1>3, <2>1 DEF PairFails, JobEnds, Jobs
  <2>. HIDE DEF ended
  <2>. QED
    BY <1>1, <1>3, <2>1, <2>2 DEF PairFails, gatewayVars
<1>4. ASSUME NEW f \in Flows, PairingFailed(f)
      PROVE  UNCHANGED Promise!vars
  BY <1>1, <1>4 DEF PairingFailed, gatewayVars
<1>5. ASSUME NEW f \in Flows, CloseDialog(f)
      PROVE  Promise!Next
  <2>1. ASSUME NEW j \in jobs, NEW i \in jobs, j.flow = f, i.uuid = j.uuid, i.flow # Nobody
        PROVE  i = j
    <3>1. i.flow \in Flows
      BY <2>1 DEF Inv, TypeOK, Jobs
    <3>2. step[i.flow] \in Claiming /\ step[f] \in Claiming /\ chosen[i.flow].uuid = chosen[f].uuid
      BY <2>1, <3>1 DEF Inv, JobInv, Claiming
    <3>3. i.flow = f
      BY <3>1, <3>2 DEF Inv, ClaimInv
    <3>. QED
      BY <2>1, <3>3 DEF Inv, JobInv
  <2>2. UNCHANGED <<places, apps, entries>>
        /\ jobs' = {IF j.flow = f THEN Orphan(j) ELSE j : j \in jobs}
    BY <1>5 DEF CloseDialog, gatewayVars
  <2>. QED
    BY <2>1, <2>2, GiveUpRegistry
<1>6. CASE Restart
  <2>1. jobs' = {} /\ UNCHANGED <<places, apps, entries>>
    BY <1>6 DEF Restart, gatewayVars
  <2>2. Nobody \in Flows \cup {Nobody}
    OBVIOUS
  <2>. QED
    BY <2>1, <2>2, GiveUpRegistry
<1>7. ASSUME NEW g \in Gateways, RemoveEntry(g)
      PROVE  Promise!Next
  <2>1. Promise!Remove(g)
    BY <1>7 DEF RemoveEntry, Promise!Remove, gatewayVars
  <2>. QED
    BY <2>1 DEF Promise!Next
<1>8. ASSUME NEW g \in Gateways, Move(g)
      PROVE  [Promise!Next]_(Promise!vars)
  <2>1. PICK h \in Hosts \cup {NoHost} : places' = [places EXCEPT ![g] = @ \cup ({h} \cap Hosts)]
    BY <1>8 DEF Move
  <2>2. UNCHANGED <<apps, entries, jobs>>
    BY <1>8 DEF Move
  <2>3. CASE h \in Hosts
    <3>1. places' = [places EXCEPT ![g] = @ \cup {h}]
      BY <2>1, <2>3 DEF Inv, TypeOK
    <3>2. Promise!Move(g, h)
      BY <2>2, <3>1 DEF Promise!Move
    <3>. QED
      BY <2>3, <3>2 DEF Promise!Next
  <2>4. CASE h \notin Hosts
    <3>1. places' = places
      BY <2>1, <2>4 DEF Inv, TypeOK
    <3>. QED
      BY <1>1, <2>2, <3>1
  <2>. QED
    BY <2>3, <2>4
<1>9. CASE UNCHANGED vars
  BY <1>1, <1>9 DEF vars, gatewayVars
<1>. QED
  BY <1>2, <1>3, <1>4, <1>5, <1>6, <1>7, <1>8, <1>9, FlowRegistry, PairRegistry,
     CreateRegistry DEF Next

\* The flows implement the registry: an entry stands for a pairing of its own gateway
\* that an open flow awaited, one for each pairing, and keeps its identity.
THEOREM FlowsImplementRegistry == Spec => ImplementsRegistry
<1>1. Inv /\ FreshInv /\ [Next]_vars => FreshInv'
  BY NextFresh
<1>2. Inv /\ FreshInv /\ [Next]_vars => [Promise!Next]_(Promise!vars)
  BY NextRegistry
<1>. QED
  BY <1>1, <1>2, InitRegistry, InitFresh, Invariant, PTL
  DEF Spec, ImplementsRegistry, Promise!Spec
=============================================================================
