----------------------------- MODULE MCPayment -----------------------------
(* Small instances of Payment for TLC. *)
EXTENDS Payment, TLC

CONSTANTS r1, r2, r3, k1, k2, alice, nobody

\* Enough for one charge of 2 or two of 1, so that racing charges can exhaust it.
MCInitialBalance == [c \in Accounts |-> 2]

MCSymmetry == Permutations(Requests)
===========================================================================
