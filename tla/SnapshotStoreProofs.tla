------------------------- MODULE SnapshotStoreProofs -------------------------
(* What follows from the promise of SnapshotStore, for any set of clients. *)
EXTENDS SnapshotStore, TLAPS

\* What is in view is behind the turn under way, and that is behind the world.
BehindInv ==
  /\ world \in Nat /\ floor \in Nat
  /\ view # Nothing => view \in Nat /\ view <= world
  /\ turn # Nobody => floor <= world /\ (view # Nothing => view <= floor)

\* Whoever takes turns and however they end, the view never goes back: a promise
\* every implementation of the store inherits.
THEOREM ForwardHolds ==
  ASSUME Nobody \notin Clients
  PROVE  Spec => Forward
<1>1. Init => BehindInv
  BY DEF Init, BehindInv
<1>2. BehindInv /\ [Next]_vars
        => BehindInv' /\ [view # Nothing /\ view' # Nothing => view' >= view]_view
  <2>. SUFFICES ASSUME BehindInv, [Next]_vars
                PROVE  /\ BehindInv'
                       /\ view # Nothing /\ view' # Nothing => view' >= view
    OBVIOUS
  <2>1. CASE Change
    BY <2>1 DEF Change, BehindInv
  <2>2. CASE Forget
    BY <2>2 DEF Forget, BehindInv
  <2>3. ASSUME NEW c \in Clients, Begin(c) \/ Apply(c) \/ GiveUp(c)
        PROVE  /\ BehindInv'
               /\ view # Nothing /\ view' # Nothing => view' >= view
    BY <2>3 DEF Begin, Apply, GiveUp, BehindInv
  <2>4. ASSUME NEW c \in Clients, Show(c)
        PROVE  /\ BehindInv'
               /\ view # Nothing /\ view' # Nothing => view' >= view
    BY <2>4 DEF Show, BehindInv
  <2>5. CASE UNCHANGED vars
    BY <2>5 DEF vars, BehindInv
  <2>. QED
    BY <2>1, <2>2, <2>3, <2>4, <2>5 DEF Next
<1>. QED
  BY <1>1, <1>2, PTL DEF Spec, Forward
=============================================================================
