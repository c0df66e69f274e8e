--------------------------- MODULE MCConsistency ---------------------------
(* Small instances of Consistency for TLC. *)
EXTENDS Consistency, TLC

CONSTANTS c1, c2, c3, d1, d2

\* Two clients on one document, so that they get in each other's way, and one on another.
MCDocOf == [c \in Clients |-> IF c = c3 THEN d2 ELSE d1]

With(n, calls) ==
  [pool |-> n, calls |-> [c \in Clients |-> IF c \in DOMAIN calls THEN calls[c] ELSE <<>>]]

\* The sessions of the demos beside a quorum write of their document.
Sessions ==
  {With(2, c1 :> demo @@ c2 :> PartitionedQuorum) :
     demo \in {ReadYourWritesDemo("replica2"), ReplicationLag("replica2"), QuorumAndStatus,
              MonotonicReads("replica2")}}

\* Demo 04: asynchronous calls beside a quorum write of another document, with a
\* connection for each, and with one for both.
Partitioned == {With(n, c2 :> PartitionedQuorum @@ c3 :> PartitionedAsync) : n \in {1, 2}}

MCWorkloads == Sessions \cup Partitioned
============================================================================
