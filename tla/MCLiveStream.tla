---------------------------- MODULE MCLiveStream ----------------------------
(* A small instance of LiveStream for TLC. *)
EXTENDS LiveStream

CONSTANTS weather, news, finance, c1
=============================================================================
