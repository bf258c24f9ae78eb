------------------------------ MODULE Exchange ------------------------------
(***************************************************************************)
(* What a session promises its user, apart from frames, references and the *)
(* connection: requests are made one at a time, the gateway decides each   *)
(* of them at most once, and a request that does not fail ends with the    *)
(* decision on itself.  A failure says nothing of what the gateway has     *)
(* done.                                                                   *)
(***************************************************************************)
EXTENDS Naturals

VARIABLES
  made,       \* number of requests made
  decision,   \* on the request under way: "open", "accepted" or "refused";
              \* "none" if there is none
  outcome     \* how the latest request that has ended did

vars == <<made, decision, outcome>>

Init == made = 0 /\ decision = "none" /\ outcome = [kind |-> "none", serial |-> 0]

Ask ==
  /\ decision = "none" /\ decision' = "open"
  /\ made' = made + 1
  /\ UNCHANGED outcome

Decide ==
  /\ decision = "open" /\ decision' \in {"accepted", "refused"}
  /\ UNCHANGED <<made, outcome>>

End(kind) ==
  /\ decision' = "none"
  /\ outcome' = [kind |-> kind, serial |-> made]
  /\ UNCHANGED made

Respond == decision = "accepted" /\ End("response")

Refuse == decision = "refused" /\ End("refused")

\* Before or after the decision.
Fail == decision # "none" /\ End("failed")

Next == Ask \/ Decide \/ Respond \/ Refuse \/ Fail

Spec == Init /\ [][Next]_vars
=============================================================================
