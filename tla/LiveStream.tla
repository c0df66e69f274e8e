------------------------------ MODULE LiveStream ------------------------------
(***************************************************************************)
(* A streamed aggregation together with the live update channel that its   *)
(* source tasks broadcast on: AggregateStream's choice of what a broadcast *)
(* does to its caller is here what WebSockets makes of it. Other streams   *)
(* and the webhook deliveries broadcast on the same channel.               *)
(***************************************************************************)
EXTENDS AggregateStream, WebSockets

\* A source's task broadcasts its result once: the call is named by the source.
SourcesBroadcast == Sources \subseteq Broadcasts

\* The calls of broadcast() by other requests.
OtherBroadcasts == Broadcasts \ Sources

\* _run_source after its fetch: put, then the broadcast up to its first wait.
FetchedLive(s) ==
  /\ Fetched(s)
  /\ Begin(s)
  /\ task'[s] = state'[s]

\* The broadcast goes on: it may meet another slow client.
BroadcastedLive(s) ==
  /\ task[s] = "closing"
  /\ Resume(s)
  /\ \/ state'[s] = "closing" /\ UNCHANGED vars
     \/ state'[s] = "done" /\ Broadcasted(s) /\ task'[s] = "late"
     \/ state'[s] = "raised" /\ Broadcasted(s) /\ task'[s] = "raised"

\* A source task that is cancelled in its broadcast takes the broadcast with it.
StoppedLive ==
  /\ Abort \/ StopProducer
  /\ Cancel({s \in Sources : task[s] = "closing"})

\* The generator and the cancellation handler do not broadcast.
StreamAlone ==
  /\ Open \/ Generate \/ Cleanup \/ CommitFails \/ Leave
  /\ UNCHANGED channel

ChannelAlone ==
  /\ \/ \E c \in Clients :
          Connect(c) \/ Send(c) \/ Sent(c) \/ Receive(c) \/ LeaveClient(c)
     \/ \E b \in OtherBroadcasts : Begin(b) \/ Resume(b)
     \/ \E callers \in SUBSET OtherBroadcasts : Cancel(callers)
  /\ UNCHANGED vars

LiveInit == Init /\ ChannelInit

LiveNext ==
  \/ StreamAlone
  \/ ChannelAlone
  \/ StoppedLive
  \/ \E s \in Sources : FetchedLive(s) \/ BroadcastedLive(s)

liveVars == <<vars, channel>>

LiveSpec == LiveInit /\ [][LiveNext]_liveVars

\* The fairness of both parts.
LiveFairSpec ==
  /\ LiveSpec
  /\ WF_liveVars(Generate /\ UNCHANGED channel)
  /\ WF_liveVars(Cleanup /\ UNCHANGED channel)
  /\ WF_liveVars(StoppedLive)
  /\ \A s \in Sources : WF_liveVars(FetchedLive(s) \/ BroadcastedLive(s))
  /\ \A c \in Clients :
       WF_liveVars((Send(c) \/ Receive(c)) /\ UNCHANGED vars)

----------------------------------------------------------------------------
(* Properties.                                                             *)

\* Where a source's task stands is where its broadcast stands.
TasksAreCallers ==
  \A s \in Sources :
    /\ task[s] \in {"none", "fetching"} => state[s] = "idle"
    /\ task[s] \in {"done", "late"} => state[s] = "done"
    /\ task[s] \in {"closing", "raised"} => state[s] = task[s]
    /\ task[s] = "stopped" => state[s] \in {"idle", "cancelled"}

\* What a completed request means on the live channel: every client that was
\* registered when a result came was queued that result, unless it was evicted or
\* has left.
CompletedWasBroadcast ==
  row = "COMPLETED" => \A s \in Sources : \A c \in ToSet(snapshot[s]) : Served(s, c)
=============================================================================
