--------------------------- MODULE AggregateStream ---------------------------
(***************************************************************************)
(* One streamed aggregation: AggregationService.stream_aggregate.          *)
(*                                                                         *)
(* The generator that Starlette iterates (the consumer, variable pc), the  *)
(* producer task with its TaskGroup of source tasks, and the detached task *)
(* that marks a cancelled request all run on one event loop. An action is  *)
(* the code between two awaits that really suspend: Queue.put on a queue   *)
(* with room, Lock.acquire on a free lock and Queue.get on a filled queue  *)
(* do not. What WebSocketManager.broadcast may do to its caller (return at *)
(* once, wait for a slow client to be closed, raise) is in WebSockets.     *)
(***************************************************************************)
EXTENDS Integers, FiniteSets, Sequences, SequencesExt

CONSTANTS
  Sources,    \* SOURCE_NAMES
  Evicting,   \* may a broadcast meet a slow client, which it then closes?
  Leaving,    \* may the client disconnect?
  Faults      \* may database calls fail?

ASSUME SwitchAssumption == {Evicting, Leaving, Faults} \subseteq BOOLEAN
ASSUME SourcesAssumption ==
  IsFiniteSet(Sources) /\ {"started", "completed"} \cap Sources = {}

VARIABLES
  pc,         \* where the generator is
  task,       \* source -> state of its task
  failed,     \* sources whose fetch failed; their results say so
  queue,      \* results not yet consumed
  event,      \* the result being stored
  completed,  \* completion_event
  producer,   \* state of producer_task
  row,        \* status in aggregate_requests, or "none"
  saved,      \* sources with a committed source_results row
  sent,       \* the SSE events handed to the client
  cleanup     \* the detached task of the cancellation handler

vars ==
  <<pc, task, failed, queue, event, completed, producer, row, saved, sent, cleanup>>
production == <<task, failed, queue, completed, producer>>
records == <<row, saved>>

Yielding == {"yield_started", "yield_event", "yield_completed"}
Guarded == {"getting", "saving", "joining", "finishing"}
Ended == {"ended", "raised", "db_error", "cancelled", "closed"}
TaskEnded == {"done", "late", "raised", "stopped"}
Events == Sources \cup {"started", "completed"}

Goto(label) == pc' = label

----------------------------------------------------------------------------
(* The generator.                                                          *)

\* The first __anext__: the row is inserted and committed.
Open ==
  /\ pc = "idle"
  /\ Goto("creating")
  /\ UNCHANGED <<production, records, event, sent, cleanup>>

Create ==
  /\ pc = "creating"
  /\ row' = "RUNNING"
  /\ sent' = Append(sent, "started")
  /\ Goto("yield_started")
  /\ UNCHANGED <<production, saved, event, cleanup>>

\* producer_task and its source tasks are created; the generator waits.
Start ==
  /\ pc = "yield_started"
  /\ task' = [s \in Sources |-> "fetching"]
  /\ producer' = "running"
  /\ Goto("getting")
  /\ UNCHANGED <<failed, queue, completed, records, event, sent, cleanup>>

\* Mutant: the loop ends with the producer, whatever is still queued.
LastEventIgnoresQueue == completed

\* Mutant: the loop waits for another event, whatever happened to the producer.
NoLastEvent == FALSE

LastEvent == completed /\ queue = <<>>

\* The head of the loop, after the client took an event.
Loop ==
  /\ pc = "yield_event"
  /\ Goto(IF LastEvent THEN "joining" ELSE "getting")
  /\ UNCHANGED <<production, records, event, sent, cleanup>>

Get ==
  /\ pc = "getting"
  /\ queue # <<>>
  /\ event' = Head(queue)
  /\ queue' = Tail(queue)
  /\ Goto("saving")
  /\ UNCHANGED <<task, failed, completed, producer, records, sent, cleanup>>

Save ==
  /\ pc = "saving"
  /\ saved' = saved \cup {event}
  /\ sent' = Append(sent, event)
  /\ Goto("yield_event")
  /\ UNCHANGED <<production, row, event, cleanup>>

\* await producer_task: its exception group, if any, leaves the generator.
Join ==
  /\ pc = "joining"
  /\ producer \in {"done", "failed"}
  /\ Goto(IF producer = "done" THEN "finishing" ELSE "raised")
  /\ UNCHANGED <<production, records, event, sent, cleanup>>

Finish ==
  /\ pc = "finishing"
  /\ row' = "COMPLETED"
  /\ sent' = Append(sent, "completed")
  /\ Goto("yield_completed")
  /\ UNCHANGED <<production, saved, event, cleanup>>

Return ==
  /\ pc = "yield_completed"
  /\ Goto("ended")
  /\ UNCHANGED <<production, records, event, sent, cleanup>>

\* A commit raises, having taken effect or not. Nobody stops the producer.
CommitFails ==
  /\ Faults
  /\ Goto("db_error")
  /\ \/ pc = "creating" /\ UNCHANGED saved /\ row' \in {"none", "RUNNING"}
     \/ pc = "saving" /\ UNCHANGED row /\ saved' \in {saved, saved \cup {event}}
     \/ pc = "finishing" /\ UNCHANGED saved /\ row' \in {row, "COMPLETED"}
  /\ UNCHANGED <<production, event, sent, cleanup>>

----------------------------------------------------------------------------
(* The producer. From the last source task's end to completion_event.set() *)
(* no callback needs I/O, so no database call ends in between: one step.   *)

EndTask(s, how) ==
  LET now == [task EXCEPT ![s] = how] IN
  /\ task' = now
  /\ IF \A x \in Sources : now[x] \in TaskEnded
       THEN /\ completed' = TRUE
            /\ producer' = IF producer = "cancelling" THEN "cancelled"
                           ELSE IF \E x \in Sources : now[x] = "raised" THEN "failed"
                           ELSE "done"
       ELSE UNCHANGED <<completed, producer>>

\* Mutant: a queue of one slot drops what does not fit.
PutOrDrop(s) == queue' = IF queue = <<>> THEN <<s>> ELSE queue

\* The queue holds one more than there are sources, so put does not wait.
Put(s) == queue' = Append(queue, s)

\* _fetch_source turns every error into a result; put, then the broadcast.
Fetched(s) ==
  /\ task[s] = "fetching"
  /\ Put(s)
  /\ failed' \in {failed, failed \cup {s}}
  /\ \/ EndTask(s, "done")
     \/ /\ Evicting
        /\ EndTask(s, "raised")
     \/ /\ Evicting
        /\ task' = [task EXCEPT ![s] = "closing"]
        /\ UNCHANGED <<completed, producer>>
  /\ UNCHANGED <<pc, records, event, sent, cleanup>>

\* The broadcast was waiting for a slow client to be closed.
Broadcasted(s) ==
  /\ task[s] = "closing"
  /\ EndTask(s, "late") \/ EndTask(s, "raised")
  /\ UNCHANGED <<pc, failed, queue, records, event, sent, cleanup>>

StopTasks(how) ==
  /\ task' = [s \in Sources |-> IF task[s] \in TaskEnded THEN task[s] ELSE "stopped"]
  /\ completed' = TRUE
  /\ producer' = how

\* The TaskGroup cancels the siblings of a task that raised.
Abort ==
  /\ producer = "running"
  /\ \E s \in Sources : task[s] = "raised"
  /\ StopTasks("failed")
  /\ UNCHANGED <<pc, failed, queue, records, event, sent, cleanup>>

\* producer_task.cancel() arrives.
StopProducer ==
  /\ producer = "cancelling"
  /\ StopTasks("cancelled")
  /\ UNCHANGED <<pc, failed, queue, records, event, sent, cleanup>>

----------------------------------------------------------------------------
(* Disconnection.                                                          *)

\* Mutant: the handler forgets to schedule the marking.
RaiseOnly ==
  /\ Goto("cancelled")
  /\ producer' = IF producer = "running" THEN "cancelling" ELSE producer
  /\ UNCHANGED cleanup

\* except asyncio.CancelledError.
HandleCancelled ==
  /\ Goto("cancelled")
  /\ producer' = IF producer = "running" THEN "cancelling" ELSE producer
  /\ cleanup' = "scheduled"

\* Mutant: a closed generator is handled like a cancelled one.
CloseAsCancelled == HandleCancelled

\* GeneratorExit is not a CancelledError.
CloseGenerator ==
  /\ Goto("closed")
  /\ UNCHANGED <<producer, cleanup>>

\* Starlette cancels the response. An await in the generator raises
\* CancelledError (a commit in flight may have taken effect); a generator that
\* waits at a yield is closed instead; one that has not reached its try block
\* only ends.
Leave ==
  /\ Leaving
  /\ \/ /\ pc = "creating"
        /\ Goto("closed")
        /\ row' \in {row, "RUNNING"}
        /\ UNCHANGED <<producer, cleanup, saved>>
     \/ /\ pc \in Guarded
        /\ HandleCancelled
        /\ saved' \in {saved} \cup (IF pc = "saving" THEN {saved \cup {event}} ELSE {})
        /\ row' \in {row} \cup (IF pc = "finishing" THEN {"COMPLETED"} ELSE {})
     \/ /\ pc \in Yielding
        /\ CloseGenerator
        /\ UNCHANGED records
  /\ UNCHANGED <<task, failed, queue, completed, event, sent>>

\* _mark_cancelled_in_fresh_session; its errors are only logged.
Cleanup ==
  /\ cleanup = "scheduled"
  /\ \/ /\ row' = "CANCELLED"
        /\ cleanup' = "done"
     \/ /\ Faults
        /\ cleanup' = "failed"
        /\ UNCHANGED row
  /\ UNCHANGED <<pc, production, saved, event, sent>>

----------------------------------------------------------------------------
Init ==
  /\ pc = "idle"
  /\ task = [s \in Sources |-> "none"]
  /\ failed = {}
  /\ queue = <<>>
  /\ event \in Sources
  /\ completed = FALSE
  /\ producer = "none"
  /\ row = "none"
  /\ saved = {}
  /\ sent = <<>>
  /\ cleanup = "none"

Generate == Create \/ Start \/ Loop \/ Get \/ Save \/ Join \/ Finish \/ Return

Produce == Abort \/ StopProducer \/ \E s \in Sources : Fetched(s) \/ Broadcasted(s)

Next == Open \/ Generate \/ Produce \/ Cleanup \/ CommitFails \/ Leave

Spec == Init /\ [][Next]_vars

\* The event loop runs every ready task. Upstream calls end: the HTTP client has
\* a timeout. A client that stays takes its events.
Fairness ==
  /\ WF_vars(Generate)
  /\ WF_vars(Cleanup)
  /\ WF_vars(Abort \/ StopProducer)
  /\ \A s \in Sources : WF_vars(Fetched(s) \/ Broadcasted(s))

FairSpec == Spec /\ Fairness

----------------------------------------------------------------------------
(* Properties.                                                             *)

TypeOK ==
  /\ pc \in {"idle", "creating"} \cup Yielding \cup Guarded \cup Ended
  /\ task \in [Sources -> {"none", "fetching", "closing"} \cup TaskEnded]
  /\ failed \subseteq Sources
  /\ queue \in Seq(Sources)
  /\ event \in Sources
  /\ completed \in BOOLEAN
  /\ producer \in {"none", "running", "done", "failed", "cancelling", "cancelled"}
  /\ row \in {"none", "RUNNING", "COMPLETED", "CANCELLED"}
  /\ saved \subseteq Sources
  /\ sent \in Seq(Events)
  /\ cleanup \in {"none", "scheduled", "done", "failed"}

\* The queue never holds more than the sources, so no put ever waits.
PutsNeverWait == Len(queue) <= Cardinality(Sources)

\* The events of a complete stream: a start, each source once in the order of
\* arrival, a completion.
CompleteStream(events) ==
  /\ Len(events) = Cardinality(Sources) + 2
  /\ events[1] = "started"
  /\ Last(events) = "completed"
  /\ ToSet(events) = Events

\* A request is called COMPLETED, to the client or in the table, only when every
\* source has a stored result and the client was given each of them once.
CompletedIsComplete ==
  /\ "completed" \in ToSet(sent) => CompleteStream(sent)
  /\ row = "COMPLETED" =>
       /\ saved = Sources
       /\ \A s \in Sources : task[s] \in {"done", "late"}
       /\ "completed" \in ToSet(sent) \/ CompleteStream(Append(sent, "completed"))

\* What the client was told stays true: a late disconnect does not turn an
\* announced completion into a cancellation.
AnnouncedStays ==
  "completed" \in ToSet(sent) => row = "COMPLETED"

\* States of a source task that has queued its result.
Queued == {"closing", "done", "late", "raised"}

\* Nothing is lost or duplicated between the source tasks and the client.
NothingLost ==
  LET inHand == IF pc = "saving" THEN <<event>> ELSE <<>>
      all == sent \o inHand \o queue
  IN pc \notin {"cancelled", "db_error"} =>
       /\ IsInjective(all)
       /\ {s \in Sources : task[s] \in Queued} \subseteq ToSet(all)

\* A stream whose generator was cancelled is recorded as cancelled, unless the
\* database refuses.
CancelledIsRecorded ==
  pc = "cancelled" ~> (row = "CANCELLED" \/ cleanup = "failed")

\* A stream that was opened ends: the test of the endpoint waits for the
\* "completed" event of every stream it opens.
StreamEnds == pc # "idle" ~> pc \in Ended

\* It does so at least when none of its broadcasts met a slow client.
StreamEndsUndisturbed ==
  pc # "idle" ~>
    (pc \in Ended \/ \E s \in Sources : task[s] \in {"closing", "late", "raised"})

----------------------------------------------------------------------------
(* The inductive invariant behind them.                                    *)

Beginning == {"idle", "creating", "yield_started"}

\* What the generator's label says: tasks run only after the first event, an event is
\* "started" only at the head and "completed" only at the end, nothing is queued once
\* the producer is awaited, and only a cancelled stream is cleaned up.
InOrder ==
  /\ pc \in Beginning => producer = "none" /\ ~completed /\ \A s \in Sources : task[s] = "none"
  /\ pc \in {"idle", "creating"} => sent = <<>>
  /\ sent # <<>> => sent[1] = "started"
  /\ pc \in Yielding \cup Guarded => sent # <<>>
  /\ "completed" \in ToSet(sent) =>
       pc \in {"yield_completed", "ended", "closed"} /\ Last(sent) = "completed"
  /\ pc = "joining" => completed /\ queue = <<>>
  /\ cleanup # "none" => pc = "cancelled"

\* The producer is done when every task is, and tasks are stopped all at once.
ProducerInOrder ==
  /\ completed \/ (\E s \in Sources : task[s] = "stopped") =>
       \A s \in Sources : task[s] \in TaskEnded
  /\ producer = "done" => \A s \in Sources : task[s] \in {"done", "late"}

InHand == IF pc = "saving" THEN {event} ELSE {}

\* A source is in one place at a time, and in none before its task has put it there.
NoDuplicates ==
  /\ IsInjective(sent) /\ IsInjective(queue)
  /\ ToSet(queue) \cap ToSet(sent) = {}
  /\ InHand \cap (ToSet(queue) \cup ToSet(sent)) = {}
  /\ \A s \in Sources : task[s] \in {"none", "fetching"} =>
       s \notin ToSet(queue) \cup InHand \cup ToSet(sent)

\* Until the generator is interrupted, what was put is in the queue, in hand or sent,
\* and what was sent is saved.
Kept ==
  pc \notin {"cancelled", "db_error"} =>
    /\ saved = Sources \cap ToSet(sent)
    /\ {s \in Sources : task[s] \in Queued} \subseteq ToSet(queue) \cup InHand \cup ToSet(sent)

\* A request is only completed, or about to be, with everything sent and saved.
Stored ==
  row = "COMPLETED" \/ pc = "finishing" =>
    /\ saved = Sources
    /\ \A s \in Sources : task[s] \in {"done", "late"}
    /\ Sources \cup {"started"} \subseteq ToSet(sent)

IInv ==
  TypeOK /\ InOrder /\ ProducerInOrder /\ NoDuplicates /\ Kept /\ Stored /\ AnnouncedStays
============================================================================
