----------------------------- MODULE WebSockets -----------------------------
(***************************************************************************)
(* The live update channel: WebSocketManager of websocket/manager.py and   *)
(* the handler of api/routes/websocket.py.                                 *)
(*                                                                         *)
(* Per client, the handler runs a sender and a receiver task. Services     *)
(* broadcast from their own tasks. The manager's lock never covers an      *)
(* await and put on a queue with room does not suspend, so a broadcast     *)
(* runs in one step up to the first full client, where it waits for the    *)
(* socket to be closed. A message is named by the broadcast that sends it. *)
(***************************************************************************)
EXTENDS Integers, Sequences, FiniteSets, SequencesExt

CONSTANTS
  Clients,     \* connections, each with its own client_id
  Broadcasts,  \* calls of broadcast()
  QueueSize,   \* websocket_queue_size
  ClientsLeave, \* may clients disconnect?
  None

ASSUME QueueAssumption == QueueSize \in Nat \ {0}
ASSUME ClientsLeaveAssumption == ClientsLeave \in BOOLEAN
ASSUME NoneAssumption == None \notin Broadcasts \cup Clients

VARIABLES
  handler,   \* client -> "absent", "open" or "gone"
  registry,  \* _connections: client ids in insertion order
  outbox,    \* client -> its bounded queue
  sending,   \* client -> the message its sender waits to have sent, or None
  got,       \* client -> messages that reached it
  peer,      \* client -> "up" or "gone"
  closed,    \* clients whose socket the application has closed
  state,     \* broadcast -> "idle", "closing", "done", "raised" or "cancelled"
  snapshot,  \* broadcast -> the clients it has to serve
  rest,      \* broadcast -> those it has not come to yet
  victim     \* broadcast -> the client it is closing, or None

channel ==
  <<handler, registry, outbox, sending, got, peer, closed, state, snapshot, rest, victim>>
sockets == <<handler, sending, got, peer>>

----------------------------------------------------------------------------
(* The connection's handler.                                               *)

\* Mutant: the sender's finally does not call disconnect.
KeepRegistered(c) == UNCHANGED registry

\* disconnect(): pop the client id, if it is there.
Disconnect(c) ==
  registry' = IF c \in ToSet(registry)
                THEN RemoveAt(registry, CHOOSE i \in DOMAIN registry : registry[i] = c)
                ELSE registry

\* connect(): accept, then register.
Connect(c) ==
  /\ handler[c] = "absent"
  /\ handler' = [handler EXCEPT ![c] = "open"]
  /\ registry' = Append(registry, c)
  /\ UNCHANGED <<outbox, sending, got, peer, closed, state, snapshot, rest, victim>>

\* The handler leaves its TaskGroup; the sender's finally deregisters the client
\* whichever task failed first.
Exit(c) ==
  /\ handler' = [handler EXCEPT ![c] = "gone"]
  /\ sending' = [sending EXCEPT ![c] = None]
  /\ Disconnect(c)

\* sender_loop: take the next message and send it. On a socket the application
\* has closed, send_text raises and takes the handler down.
Send(c) ==
  /\ handler[c] = "open"
  /\ sending[c] = None
  /\ outbox[c] # <<>>
  /\ outbox' = [outbox EXCEPT ![c] = Tail(@)]
  /\ IF c \in closed
       THEN Exit(c)
       ELSE /\ sending' = [sending EXCEPT ![c] = Head(outbox[c])]
            /\ UNCHANGED <<handler, registry>>
  /\ UNCHANGED <<got, peer, closed, state, snapshot, rest, victim>>

\* The transport took the message; a message to a client that has gone is lost.
Sent(c) ==
  /\ sending[c] # None
  /\ sending' = [sending EXCEPT ![c] = None]
  /\ got' = IF peer[c] = "up" THEN [got EXCEPT ![c] = Append(@, sending[c])] ELSE got
  /\ UNCHANGED <<handler, registry, outbox, peer, closed, state, snapshot, rest, victim>>

\* receive_loop sees the end of the connection, whoever ended it.
Receive(c) ==
  /\ handler[c] = "open"
  /\ peer[c] = "gone" \/ c \in closed
  /\ Exit(c)
  /\ UNCHANGED <<outbox, got, peer, closed, state, snapshot, rest, victim>>

LeaveClient(c) ==
  /\ ClientsLeave
  /\ handler[c] = "open"
  /\ peer[c] = "up"
  /\ peer' = [peer EXCEPT ![c] = "gone"]
  /\ UNCHANGED <<handler, registry, outbox, sending, got, closed, state, snapshot, rest, victim>>

----------------------------------------------------------------------------
(* broadcast().                                                            *)

Full(c) == Len(outbox[c]) >= QueueSize

\* The position of the first full client, one past the end if there is none.
FirstFull(list) ==
  LET full == {i \in DOMAIN list : Full(list[i])}
  IN IF full = {} THEN Len(list) + 1 ELSE CHOOSE i \in full : \A j \in full : i <= j

\* Mutant: the loop ends at the first eviction.
NothingAfter(list, i) == <<>>

After(list, i) == SubSeq(list, i + 1, Len(list))

End(b, how) ==
  /\ state' = [state EXCEPT ![b] = how]
  /\ rest' = [rest EXCEPT ![b] = <<>>]
  /\ victim' = [victim EXCEPT ![b] = None]

\* websocket.close(): raises on a socket closed before, may raise on one whose
\* client is gone, otherwise waits for the close to go through.
Close(b, c, list) ==
  \/ /\ c \in closed \/ peer[c] = "gone"
     /\ End(b, "raised")
     /\ UNCHANGED closed
  \/ /\ c \notin closed
     /\ closed' = closed \cup {c}
     /\ state' = [state EXCEPT ![b] = "closing"]
     /\ victim' = [victim EXCEPT ![b] = c]
     /\ rest' = [rest EXCEPT ![b] = list]

\* Serve the clients of the list up to the first full one; deregister and close
\* that one.
Serve(b, list) ==
  LET i == FirstFull(list) IN
  /\ outbox' = [c \in Clients |->
       IF c \in ToSet(SubSeq(list, 1, i - 1)) THEN Append(outbox[c], b) ELSE outbox[c]]
  /\ IF i > Len(list)
       THEN /\ End(b, "done")
            /\ UNCHANGED <<registry, closed>>
       ELSE /\ Disconnect(list[i])
            /\ Close(b, list[i], After(list, i))

Begin(b) ==
  /\ state[b] = "idle"
  /\ snapshot' = [snapshot EXCEPT ![b] = registry]
  /\ Serve(b, registry)
  /\ UNCHANGED sockets

\* close() returned, or found the transport gone.
Resume(b) ==
  /\ state[b] = "closing"
  /\ \/ Serve(b, rest[b])
     \/ /\ peer[victim[b]] = "gone"
        /\ End(b, "raised")
        /\ UNCHANGED <<outbox, registry, closed>>
  /\ UNCHANGED <<sockets, snapshot>>

\* The tasks of some callers are cancelled while they wait for close(). Tasks of
\* one group are cancelled together.
Cancel(callers) ==
  /\ \A b \in callers : state[b] = "closing"
  /\ state' = [b \in Broadcasts |-> IF b \in callers THEN "cancelled" ELSE state[b]]
  /\ rest' = [b \in Broadcasts |-> IF b \in callers THEN <<>> ELSE rest[b]]
  /\ victim' = [b \in Broadcasts |-> IF b \in callers THEN None ELSE victim[b]]
  /\ UNCHANGED <<sockets, registry, outbox, closed, snapshot>>

----------------------------------------------------------------------------
ChannelInit ==
  /\ handler = [c \in Clients |-> "absent"]
  /\ registry = <<>>
  /\ outbox = [c \in Clients |-> <<>>]
  /\ sending = [c \in Clients |-> None]
  /\ got = [c \in Clients |-> <<>>]
  /\ peer = [c \in Clients |-> "up"]
  /\ closed = {}
  /\ state = [b \in Broadcasts |-> "idle"]
  /\ snapshot = [b \in Broadcasts |-> <<>>]
  /\ rest = [b \in Broadcasts |-> <<>>]
  /\ victim = [b \in Broadcasts |-> None]

ChannelNext ==
  \/ \E c \in Clients : Connect(c) \/ Send(c) \/ Sent(c) \/ Receive(c) \/ LeaveClient(c)
  \/ \E b \in Broadcasts : Begin(b) \/ Resume(b)
  \/ \E callers \in SUBSET Broadcasts : Cancel(callers)

ChannelSpec == ChannelInit /\ [][ChannelNext]_channel

\* The event loop runs ready tasks; a close ends, by its handshake or its
\* time-out. Nothing says that a client takes its messages.
ChannelFairness ==
  /\ \A c \in Clients : WF_channel(Send(c)) /\ WF_channel(Receive(c))
  /\ \A b \in Broadcasts : WF_channel(Resume(b))

FairChannel == ChannelSpec /\ ChannelFairness

----------------------------------------------------------------------------
(* Properties.                                                             *)

\* Types; no queue ever exceeds its size, so no put of a broadcast waits.
ChannelTypeOK ==
  /\ handler \in [Clients -> {"absent", "open", "gone"}]
  /\ registry \in Seq(Clients)
  /\ outbox \in [Clients -> Seq(Broadcasts)]
  /\ \A c \in Clients : Len(outbox[c]) <= QueueSize
  /\ sending \in [Clients -> Broadcasts \cup {None}]
  /\ got \in [Clients -> Seq(Broadcasts)]
  /\ peer \in [Clients -> {"up", "gone"}]
  /\ closed \subseteq Clients
  /\ state \in [Broadcasts -> {"idle", "closing", "done", "raised", "cancelled"}]
  /\ snapshot \in [Broadcasts -> Seq(Clients)]
  /\ rest \in [Broadcasts -> Seq(Clients)]
  /\ victim \in [Broadcasts -> Clients \cup {None}]

\* Dead sockets do not remain in the registry, and a live one leaves it only when
\* it is being evicted.
RegistryIsLive ==
  /\ IsInjective(registry)
  /\ \A c \in Clients :
       /\ c \in ToSet(registry) => handler[c] = "open"
       /\ handler[c] = "open" /\ c \notin ToSet(registry) =>
            c \in closed \/ \E b \in Broadcasts : state[b] = "raised"

\* The broadcast's message is with the client or on its way, or the client is
\* evicted or has left.
Served(b, c) ==
  \/ b \in ToSet(got[c]) \cup ToSet(outbox[c]) \cup {sending[c]}
  \/ c \in closed
  \/ peer[c] = "gone"

\* A broadcast that returns was queued for every client it found registered,
\* except those that were evicted or have left.
ReturnedMeansServed ==
  \A b \in Broadcasts : state[b] = "done" => \A c \in ToSet(snapshot[b]) : Served(b, c)

\* A broadcast that waits for a close has served everybody it is not to serve yet.
WaitingHasServed ==
  \A b \in Broadcasts : state[b] = "closing" =>
    \A c \in ToSet(snapshot[b]) : c \in ToSet(rest[b]) \/ Served(b, c)

\* The inductive invariant behind RegistryIsLive and ReturnedMeansServed.
ChannelInv == ChannelTypeOK /\ RegistryIsLive /\ WaitingHasServed /\ ReturnedMeansServed

\* An evicted client's handler ends and its registration is gone for good.
EvictedLeaves ==
  \A c \in Clients : c \in closed ~> [](handler[c] = "gone" /\ c \notin ToSet(registry))
============================================================================
