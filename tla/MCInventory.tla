---------------------------- MODULE MCInventory ----------------------------
(* A small instance of Inventory for TLC. *)
EXTENDS Inventory, TLC

CONSTANTS r1, r2, r3, widget, gadget, lamp, unlisted, Shelf

MCInitialStock == [p \in Catalogue |-> Shelf]

\* A safe mix for each product, which is all that two products have in common.
MCStrategies ==
  [p \in Products |->
     CASE p = widget -> {"pessimistic", "atomic"}
       [] p = gadget -> {"optimistic"}
       [] p = lamp -> {"locked"}
       [] p = unlisted -> {"atomic", "locked"}]

MCEveryStrategy == [p \in Products |-> AllStrategies]

MCSymmetry == Permutations(Requests)
============================================================================
