---------------------------- MODULE SnapshotStore ----------------------------
(***************************************************************************)
(* What the coordinator promises the entities, apart from how tasks, lock  *)
(* and executor threads achieve it: the gateway's states are numbered in   *)
(* the order they come about, and the entities look at one of them.        *)
(* Clients take turns.  A turn ends with a view that is at least as new as *)
(* the turn's beginning and as whatever change of its own it waited for,   *)
(* or it ends without touching the view.                                   *)
(***************************************************************************)
EXTENDS Naturals

CONSTANTS
  Clients,    \* whoever takes turns
  Nobody,     \* no turn is under way
  Nothing     \* nothing is in view

VARIABLES
  world,      \* number of the gateway's current state
  view,       \* number of the state in view
  turn,       \* the client whose turn it is
  floor       \* oldest state the turn may bring into view

vars == <<world, view, turn, floor>>

Init == world \in Nat /\ view = Nothing /\ turn = Nobody /\ floor = 0

\* The gateway's state changes: through the app, through a client that has been
\* given up, or when something a client asked for comes about late.
Change == world' = world + 1 /\ UNCHANGED <<view, turn, floor>>

Begin(c) ==
  /\ turn = Nobody /\ turn' = c
  /\ floor' = world
  /\ UNCHANGED <<world, view>>

\* What the client in turn has asked for comes about while it waits.
Apply(c) ==
  /\ turn = c
  /\ world' = world + 1 /\ floor' = world'
  /\ UNCHANGED <<view, turn>>

Show(c) ==
  /\ turn = c /\ turn' = Nobody
  /\ view' \in floor..world
  /\ UNCHANGED <<world, floor>>

\* The turn ends in an error, is cancelled, or had nothing to show.
GiveUp(c) == turn = c /\ turn' = Nobody /\ UNCHANGED <<world, view, floor>>

\* The view is lost, and with it the turn.
Forget ==
  /\ view' = Nothing /\ turn' = Nobody /\ floor' = 0
  /\ UNCHANGED world

Next ==
  \/ Change \/ Forget
  \/ \E c \in Clients : Begin(c) \/ Apply(c) \/ Show(c) \/ GiveUp(c)

Spec == Init /\ [][Next]_vars

\* The view never goes back.
Forward == [][view # Nothing /\ view' # Nothing => view' >= view]_view
=============================================================================
