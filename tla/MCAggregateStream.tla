-------------------------- MODULE MCAggregateStream --------------------------
(* The three sources of the service, as model values. *)
EXTENDS AggregateStream

CONSTANTS weather, news, finance
============================================================================
