---------------------------- MODULE MCJobQueue ----------------------------
(* Small instances of JobQueue for TLC. *)
EXTENDS JobQueue

CONSTANTS c1, c2, d1, j1, j2
============================================================================
