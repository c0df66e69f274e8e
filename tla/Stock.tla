------------------------------- MODULE Stock -------------------------------
(***************************************************************************)
(* What every safe reservation strategy promises: units move from the      *)
(* shelf to reservations, a whole order at a time, and only units that are *)
(* there.                                                                  *)
(***************************************************************************)
EXTENDS Integers

CONSTANTS Catalogue, Quantities, InitialStock

VARIABLES stock, reserved

Init ==
  /\ stock = InitialStock
  /\ reserved = [p \in Catalogue |-> 0]

Reserve(p, q) ==
  /\ stock[p] >= q
  /\ stock' = [stock EXCEPT ![p] = @ - q]
  /\ reserved' = [reserved EXCEPT ![p] = @ + q]

Next == \E p \in Catalogue, q \in Quantities : Reserve(p, q)

Spec == Init /\ [][Next]_<<stock, reserved>>
============================================================================
