---------------------------- MODULE MCWebSockets ----------------------------
(* Small instances of WebSockets for TLC. *)
EXTENDS WebSockets

CONSTANTS c1, c2, b1, b2, b3
============================================================================
