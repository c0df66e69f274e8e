------------------------------ MODULE MCWebhooks ------------------------------
(* Small instances of Webhooks for TLC. *)
EXTENDS Webhooks

CONSTANTS e1, e2, t1, t2, f1

\* Two deliveries that may stop each other, and one that may wait for their slots.
MCMayTarget == [e \in Events |-> IF e = e1 THEN {t1, t2} ELSE {t1}]
=============================================================================
