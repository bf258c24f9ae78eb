------------------------------- MODULE Registry -------------------------------
(***************************************************************************)
(* What the config flows promise, apart from dialogs, scans and threads:   *)
(* every gateway goes through one life.  It registers a new application;   *)
(* if somebody waits for that, the application becomes the identity of the *)
(* gateway's entry, once and for this gateway only; the entry keeps it and *)
(* is given no address but the gateway's own, until the user removes it.   *)
(***************************************************************************)
CONSTANTS
  Gateways, Hosts,
  Applications,   \* identities that may be proposed for pairing
  NoEntry         \* a gateway that is not configured

VARIABLES
  places,    \* addresses each gateway has had
  apps,      \* applications registered at each gateway
  awaited,   \* of them, the one an entry may be created for: {} or {app}
  entries    \* the entry of each gateway

vars == <<places, apps, awaited, entries>>

Init ==
  /\ places \in [Gateways -> SUBSET Hosts]
  /\ apps = [g \in Gateways |-> {}] /\ awaited = [g \in Gateways |-> {}]
  /\ entries = [g \in Gateways |-> NoEntry]

Move(g, h) ==
  /\ places' = [places EXCEPT ![g] = @ \cup {h}]
  /\ UNCHANGED <<apps, awaited, entries>>

\* Nobody may be waiting any more, or the answer be lost.
Register(g, app) ==
  /\ \A k \in Gateways : app \notin apps[k]
  /\ apps' = [apps EXCEPT ![g] = @ \cup {app}]
  /\ \/ UNCHANGED awaited
     \/ /\ awaited[g] = {} /\ entries[g] = NoEntry
        /\ awaited' = [awaited EXCEPT ![g] = {app}]
  /\ UNCHANGED <<places, entries>>

Create(g, h) ==
  /\ entries[g] = NoEntry /\ h \in places[g]
  /\ \E app \in awaited[g] : entries' = [entries EXCEPT ![g] = [host |-> h, app |-> app]]
  /\ awaited' = [awaited EXCEPT ![g] = {}]
  /\ UNCHANGED <<places, apps>>

\* Whoever waits gives up, for some gateways.
GiveUp(some) ==
  /\ awaited' = [g \in Gateways |-> IF g \in some THEN {} ELSE awaited[g]]
  /\ UNCHANGED <<places, apps, entries>>

Readdress(some) ==
  /\ \A g \in some : entries[g] # NoEntry
  /\ \E to \in [some -> Hosts] :
       /\ \A g \in some : to[g] \in places[g]
       /\ entries' = [g \in Gateways |-> IF g \in some THEN [entries[g] EXCEPT !.host = to[g]]
                                         ELSE entries[g]]
  /\ UNCHANGED <<places, apps, awaited>>

Remove(g) ==
  /\ entries' = [entries EXCEPT ![g] = NoEntry]
  /\ UNCHANGED <<places, apps, awaited>>

Next ==
  \/ \E g \in Gateways : Remove(g)
  \/ \E g \in Gateways : \E h \in Hosts : Move(g, h) \/ Create(g, h)
  \/ \E g \in Gateways : \E app \in Applications : Register(g, app)
  \/ \E some \in SUBSET Gateways : GiveUp(some) \/ Readdress(some)

Spec == Init /\ [][Next]_vars
=============================================================================
