--------------------------- MODULE MCPropertyReads ---------------------------
(* TLC values of the constants of PropertyReads. *)
EXTENDS PropertyReads

CONSTANTS spot1, spot2

\* Sequences of two and three requests stand for the real three to thirteen:
\* first, middle and last are the cases the code tells apart.
TwoAndThree == [k \in Kinds |-> IF k \in {"core", "fan"} THEN 3 ELSE 2]
AllTwo == [k \in Kinds |-> 2]
\* Every kind of sequence is refused by one unit, and the fan state by the other.
SomeRefuse == ({spot1} \X {"core", "fan", "optional"}) \cup {<<spot2, "fan">>}
=============================================================================
