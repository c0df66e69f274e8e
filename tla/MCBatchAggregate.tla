--------------------------- MODULE MCBatchAggregate ---------------------------
(* Small instances of BatchAggregate for TLC. *)
EXTENDS BatchAggregate

CONSTANTS r1, r2, r3, weather
=============================================================================
