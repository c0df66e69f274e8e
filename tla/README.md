# Verification of async-data-hub

TLA+ models of the application's core services, the TLC runs that check them on
small instances, and TLAPS proofs of their main properties for every value of
the constants. Everything is translated from the code under `app/`; where a doc,
a docstring or a test says something else, that is noted under
[Disagreements](#disagreements-met-while-modelling).

`tlc -config <cfg> <MC module>` runs a check, `tlapm <X>Proofs.tla` a proof.
`PROJECT.json` lists components, runs, theorems and hazards, maps each
definition to the lines it models, and names for every property a mutant: a
definition changed the way a plausible bug would, under which TLC finds the
property violated.

## The system

A FastAPI application, asynchronous throughout: one event loop per worker
process, any number of workers, PostgreSQL through SQLAlchemy sessions (one per
request, `expire_on_commit=False`), Redis or an in-memory dictionary behind
`AsyncCache`, an HTTP client shared by all requests of a process.

| component | state it keeps | operations that change it | what makes it correct |
|---|---|---|---|
| PaymentService | idempotency records in the cache (60 s), `customer_accounts`, `charges` | charge, buggy charge, expiry | no unit lost or spent twice, one success per key, answers backed by a row, every call answered |
| InventoryService | `products` (stock, version), `product_reservations` | reserve by five strategies | no lost update, no oversell, answers agree with what was booked |
| DistributedLock | a token per name in Redis, with a TTL | acquire, release, expiry | one holder; nobody releases another's lease |
| AggregationService, streamed | queue, completion event, producer and source tasks, `aggregate_requests`, `source_results` | generator, producer, detached cancellation | complete only if everything was stored and delivered; the stream ends |
| AggregationService, batch; RequestCoalescer | task registry, cache, rows | aggregate, run, build, detached cleanup | one fan-out per query at a time, answers agree with rows, nothing stays registered |
| WebSocketManager | registry of connections, a bounded queue each | connect, disconnect, broadcast, sender and receiver | registry of live connections, a returned broadcast served everyone |
| WebhookService, ConcurrencyLimiter | `webhook_events`, `webhook_delivery_attempts`, slots of two semaphores | trigger_event, delivery with one retry | outcome agrees with the attempts on record, no slot leaks, every call ends |
| DBLockService | `db_queue_jobs` | enqueue, claim (three strategies), complete | no double claim, oldest first, nothing revived |
| AsyncCache | Redis or a dictionary | get, set, setnx, delete, eval, get_or_set | what its callers above need of it |
| ConsistencyService, replication | `documents` on a primary and two streaming standbys; the LSN tokens its clients keep | start-up with retries, quorum and asynchronous writes, reads from any node, with or without an LSN to wait for | a session never goes back behind what it wrote, the primary is current, a quorum write is on a standby, calls end |
| DBConcurrencyService | accounts | transfers | its router is not mounted |
| MediaService, StreamCounter | the active-stream counter, open upstream responses | progressive, seekable and remote streaming | the bytes announced and sent are those asked for, counter and connections come back, every stream ends |
| Health, CPU analysis, mock upstreams, logging, SSE framing | none | | |
| Start-up and wiring | the objects above | once | |
| Frontend, scripts, `build/lib` | none of the server's | | |

How they interact. The routes call one service each. The aggregation and the
webhook services broadcast through WebSocketManager from inside their own tasks,
so that a slow client acts on *their* control flow. Aggregation fetches and
webhook posts share the HTTP limiter; webhook posts also take a slot of their
own limiter, in a fixed order. InventoryService uses DistributedLock; Payment,
Inventory and the batch aggregation meet in AsyncCache only as users of it. The
consistency demo has databases and session factories of its own; the media
service proxies upstreams (one of them this application's mock source) through
the HTTP client the other services share.

What is hard here:

* **Two stores, no common transaction** (cache record and charge; lease and row;
  cached payload and row). A worker may die, or an answer be lost, between them.
* **TTLs race their owners**: idempotency records and leases expire on a clock
  that does not look at the handler.
* **READ COMMITTED**: what was read by a plain SELECT is old when it is used.
* **Cancellation** arrives at any await; shared tasks are cancelled by one waiter
  on behalf of all; detached tasks write rows later.
* **TaskGroups** stop all siblings when one raises, and a broadcast may raise.
* **Replication**: a commit is on a standby before its transaction is over, a
  standby shows it before the primary does or long after, and a paused one not
  at all; a quorum commit waits without a deadline.
* **A response is announced before it is read**: the file may change, the upstream
  break and the client leave after Content-Length is on the wire, and a generator
  nobody iterates any more is closed by the event loop's finalizer.

Each such place is a line in `PROJECT.json` "hazards", with the properties
that watch it.

## The modules

| module | models | abstract specification | proofs |
|---|---|---|---|
| `Payment` | `services/payment_service.py`, the cache as it uses it | `Ledger` | `PaymentProofs` |
| `Inventory` | `services/inventory_service.py`, `utils/distributed_lock.py` | `Stock` | `InventoryProofs` |
| `JobQueue` | `services/db_lock_service.py` | `WorkQueue` | `JobQueueProofs` |
| `BatchAggregate` | `AggregationService.aggregate`, `cache/request_coalescer.py`, `get_or_set` | `SharedFlights` | `BatchAggregateProofs` |
| `AggregateStream` | `AggregationService.stream_aggregate` | | `LiveStreamProofs` |
| `WebSockets` | `websocket/manager.py`, `api/routes/websocket.py` | | `LiveStreamProofs` |
| `LiveStream` | a stream together with the live channel its tasks broadcast on | `AggregateStream` and `WebSockets` | `LiveStreamProofs` |
| `Webhooks` | `services/webhook_service.py`, `utils/concurrency.py` | | `WebhooksProofs` |
| `Consistency` | `services/consistency.py`, `db/replication_base.py`, `api/routes/consistency.py`; its clients are the sessions of `scripts/consistency/simulate.py` | | `ConsistencyProofs` |
| `Media` | `services/media_service.py`, `utils/stream_counter.py`, `api/routes/media.py`, the media asset of `api/routes/mock_sources.py` | the bytes a Range header selects (`Wanted`) | `MediaProofs` |

`MC<Module>.tla` instantiates a module for TLC, `MC<Module>_<run>.cfg` gives the
constants of a run.

An action is the code between two awaits that other tasks can observe: awaits
that never suspend (a `put` on a queue with room, a free `asyncio.Lock`) are not
interleaving points, and an await on a store is one. A database transaction is
the statements that lock, wait or read, and its commit. Handlers are named by
request, and `pc[r]` says at which await a handler is. Where a component may be
given calls that fail, workers that die, clients that leave, each is a constant
switch (`Faults`, `Leaving`, `ClientsLeave`, `Evicting`, `Unreachable`, `Pausing`), on in
every run, except that `stream_hang` keeps only the slow clients.

**Payment.** `Acquire` is `setnx` of the record; `HandleExisting` the replies to a
key that is taken; `Debit`, `Commit`, `Decline` the transaction (conditional
UPDATE with the CHECK constraint, flush with the partial unique index, the second
transaction that records FAILED); `Complete` and `Release` the final `set` and
the `delete` of the error path, both of which act on whatever record is there.
`BuggyReceive/BuggyRead/BuggyWrite` is the route that reads, sleeps and writes
back. `Expire`, `Crash`, `DatabaseFails`, `CacheFails`, `AcquireFails` and
`Restart` are the environment. The in-memory backend decodes differently from
Redis (`Unreadable`) and is lost with the process; only Redis's calls can fail. Which of
them the settings name is chosen at the start (`backend`).

**Inventory.** `Read`/`WriteBack` serve naive and locked, `Read`/`CompareAndSet`/
`BackOff` optimistic, `ReadForUpdate`/`WriteBack` pessimistic, `AtomicUpdate`
atomic; `Commit` publishes the row and the reservation together. `AcquireLease`,
`LeaseTimeout`, `ReleaseLease`, `ExpireLease` are the lock. `Strategies` says for
each product which strategies its buyers may use: transactions touch one row, so
that mixes on different products do not meet.

**JobQueue.** A claim takes its candidates from a snapshot, then locks them in
order of position and looks again at the latest version, as PostgreSQL does for
`SELECT ... FOR UPDATE ... LIMIT 1`; the three strategies differ at a locked row
(`SkipLocked`, `NoWait`, or waiting). `Insert`/`CommitInsert` separate the moment
a position is drawn from the moment the row is visible.

**BatchAggregate.** A build is one run of `_build_response_payload`, named after
the request that started it. `Join` and `Pop` are the two halves of
`RequestCoalescer.run` around its await; `Check` is the second look at the cache
inside the task; `Cancel` hands a waiter's cancellation to the build all wait
for; `Cleanup` is the detached task that marks the row. `SharedFlights` is what a
coalescing cache promises: at most one flight per key, which goes for a value only
when none is kept; callers board it while it is under way, nobody gets off before it
lands, and those aboard get what it brings, or its failure. A coalesced build is a flight from
its registration to its end (`Stage`, `Place` and `Flights` are the mapping); one
without the cache is its caller's own.

**AggregateStream.** One stream; streams share only what `WebSockets` and the HTTP
limiter model. The generator (`pc`), the producer with its source tasks, and the
detached cleanup. What a broadcast does to the source task that calls it (return,
wait for a slow client to be closed, raise) is a choice here, which `LiveStream`
replaces by what the channel does.

**WebSockets.** A broadcast serves its snapshot in one step up to the first full
client, whose socket it closes before it goes on (`Serve`, `Resume`). `Cancel` is the
cancellation of tasks that are inside a broadcast: it ends where it waits.

**LiveStream.** The composition: a source's task is the caller of one broadcast, so
that `FetchedLive`, `BroadcastedLive` and `StoppedLive` are joint steps of the two
modules; everything else is a step of one of them. `OtherBroadcasts` are those
of other streams and of webhook deliveries. `BothImplemented` proves that each module is an
abstraction of its part, so that what is proved of either holds of both together.
(The names both parts need are told apart in `WebSockets`: `ChannelSpec`, `outbox`.)

**Webhooks.** A delivery takes a slot of each limiter, posts, records, retries
once. `Stop` is the TaskGroup stopping: what its tasks hold is given back, a
commit in flight may or may not have taken effect. `fetch` stands for the other
users of the HTTP limiter.

**Consistency.** The write-ahead log is the sequence of commit records; an LSN is a
position in it and a version of a document the position of its commit. A write is
`ReceiveWrite`, `Begin` (a pool connection), `Upsert` (the row lock), `Commit`, which
appends the commit record and is over at once or waits for a standby's flush
(`CommitAcknowledged`), and `AnswerWrite`, which asks for the LSN after the commit, on
the primary. While a commit waits its version is `Hidden` on the primary, though
`Receive` and `Replay` may already have put it on a standby. A read is `ReceiveRead`,
for a pinned one the polling loop (`LsnReached`, `WaitTimeout`), `GetDocument` on
whatever node it was sent to, and `AnswerRead`. `CreateTables`, `TablesCreated` and
`InitFails` are start-up with its retries; `PauseReplicas` is the docker pause and
unpause of demo 04. A workload is a sequence of calls for each client, as the demos make
them, and the number of pool connections other requests leave them; a call that gets
none within the pool's 30 s is `refused`. The demos pass on only the LSNs of
their writes, and so do the models of their sessions; `KeptRead` is a client that also
keeps the `node_lsn` of a read, which `ReadResult` offers it, and only such a client is
promised monotonic reads. `AvailableWhenPartitioned` has two exceptions, both for asynchronous
writes alone: a quorum write that waits has the row, or quorum writes have the whole pool.
Primary reads have none: they go through an engine of their own, with a pool of its own
(`replication_base.py:31`), while writes use the application's (`lifespan.py:34`).

**Media.** One response per request. `ReceiveLocal` is the whole synchronous part
of a handler: existence, stat (a file that goes between the two is a 500: both are one step,
of either outcome), header, status, announced length; for a remote
call `ReceiveRemote`, `Connect`, `FullAsset`/`PartialAsset`/`UpstreamRejects`/
`UpstreamFails` and `RejectRemote` are its awaits. The generator is `Start` (the
counter), `OpenFile`, `ReadChunk`, `SendChunk`, `EndOfBody`/`UpstreamBreaks`, `Release`
(the finally blocks). `Leave` is the client's disconnect: chunks go nowhere
(`Discard`) until the response is cancelled (`Cancel`), inside an await of the
generator, or at its `yield`, where it is only dropped and the event loop's
finalizer closes it later (`Finalize`). A byte is its position in the file. The local parser (`Selected`,
`InBounds`) and the mock upstream's own (`AssetSelected`, `Clamped`) are translated
separately, as they accept different headers.

## The runs

| run | instance | distinct states | asks |
|---|---|---|---|
| `pay_races` | 3 calls of `charge`, 2 keys, 1 account of 2 units, amounts 1 and 2, Redis, handlers may outlive the TTL | 713,973 | answers backed by a committed charge; every step an atomic payment, one per key (`ImplementsLedger`) |
| `pay_live` | 3 calls of one key by both routes, a customer without account, either backend: restarts with the in-memory one, lost calls with Redis; handlers within the TTL | 88,634 | one executor per key; every call answered; a key whose owner died, or whose `SET NX` nobody heard of, is freed |
| `inv_all` | 3 buyers of 1 or 2 units of four products: row locks mixed, optimistic with 2 attempts, locked, unknown; 2 units each | 539,639 (symmetric) | answers against bookings, is anybody turned away without cause (`TurnedAwayForCause`), refinement of `Stock` |
| `inv_live` | 2 requests, one product, all five strategies | 6,535 | one lease holder; every call answered although leases are held while waiting for rows |
| `stream_all` | the 3 sources | 374,814 | five properties of one stream under disconnects, faults and slow clients |
| `stream_hang` | `LiveStream`: the 3 sources and 1 client that reads slowly; no faults, nobody leaves | | violates `StreamEnds`: see below |
| `batch_coalesce` | 3 requests for one query, with and without cache | 151,987 | refinement of `SharedFlights`, no redundant fan-out, rows behind answers, every call answered |
| `ws_serve` | 2 clients, 3 broadcasts whose callers may be cancelled, queues of 1 | 195,472 | a broadcast that returned served everybody; registry; evicted handlers |
| `webhook_fanout` | calls with up to 2 and 1 targets, both limits 1, an upstream call | 431,287 | status against attempts, retries, no deadlock over two limiters |
| `queue_claims` | 2 claims of any strategy, 1 completion, 2 jobs | 181,004 | the oldest first, nothing left behind, every call answered, refinement of `WorkQueue` |
| `consistency_sessions` | 3 clients, 2 documents, 2 standbys: the sessions of demos 01 to 03, or one that keeps the LSNs of its reads, beside a quorum write of the same document; demo 04, an asynchronous write and a primary read beside a quorum write of another document, with 2 pool connections and with 1; 2 start-up attempts, pauses, faults | 271,810 | what the demos claim: monotonic sessions, a current primary, quorum writes that survive, calls that end, availability without standbys |
| `media_streams` | one request with any of twelve calls beside a remote one, 1 connection, chunks of 2 bytes, a file of 0 or 3 bytes changed or removed once, upstream faults | 275,588 | right bytes, nothing past the range, counter and connections come back, every stream ends |

**Why the bounds are enough.** The conflicts of this code are between two handlers
over one row, key, lease or task; a third handler is the one that comes after
the record has expired, the build has ended or the version has moved, which is
where the stale-state bugs are. One account, and one product per mix of strategies,
is enough because transactions touch one row; a second key, an unknown customer
or product is there where an error path needs it. Balance and stock are small enough for two of three
requests to exhaust them. `MaxAttempts` is 2 rather than 5, as many attempts as an optimist has
rivals: the last attempt is the one that can still win, and one less gives up too
early. In `pay_live` amount and balance are equal: its questions are who executes and who
gets an answer, and two backends take the room a second amount had; amounts that leave
a rest are those of `pay_races`. Queues of one message and limits of one slot
are the tightest the code admits (0 makes nothing work), and with three
broadcasts each queue fills, empties and fills again. Sessions conflict only over
one document or the pool. Two clients of `consistency_sessions` share a document; the
third, of demo 04, has its own, so that nothing but the pool can stand between it and
the quorum write, and with a connection for each nothing does. A pool of one shows
the exception (15 would need 16 clients for it). The two start-up attempts (30 in the code) are the retry and
the last one. Three bytes in chunks of two give a full chunk, a partial one and
an end; the headers are one of each form and each way past the end of the file,
and the second stream of `media_streams` is there to hold the connection the first
one waits for. The proofs below remove
the bounds from the safety properties where they exist.

`CHECK_DEADLOCK FALSE` everywhere: the requests of an instance are finite and, once
all have ended, nothing is left to do. That nobody waits for ever is what the
liveness properties say.

**Fairness.** Weak fairness of each handler's steps: the event loop resumes every
task whose await has finished; PostgreSQL grants a freed row to a waiter; the HTTP
client, `close()` and the lock's acquisition have time-outs. In `Payment` also of
expiry, as every record is written with a TTL. In `Consistency` of each call's steps
(statements are answered, the pool and the polling loop have deadlines) and of
`Receive` and `Replay`, which a paused standby does not have enabled: nobody is
obliged to unpause it, so that liveness is claimed for replicas that stay up, or
for calls that need none. In `Media` of a stream's own steps: a read ends or times
out, a disconnect is noticed, a dropped generator is finalized; not of
`SendChunk`, as a client may stall. Never of an arrival, a disconnect, a
cancellation, a pause or a fault. Strong fairness is nowhere needed: a waiter for a row,
a lease or a slot competes with finitely many requests.

**Premises** the code or its configuration gives and the modules rest on:

* PostgreSQL at READ COMMITTED (the engine sets no isolation level), with the
  CHECK constraints and the partial unique index of `db/models.py`.
* A command that reached Redis takes effect before its client gives up on it: no
  command arrives after the handler has gone on to the next one.
* The coalescer, limiters and WebSocket registry are per process: those modules
  model one process. Payment, Inventory and JobQueue model any number.
* A handler of a plain route is only cancelled from outside (shutdown); the model
  allows it at any time. The middleware under which a disconnect would cancel it
  too is commented out (`app/main.py:25`).
* Targets of one webhook call are distinct.
* Standbys replay in commit order (streaming replication). A quorum commit waits
  until one of the two, whichever, has flushed it (`docker-compose.dbrpl.yaml:43-44`,
  `synchronous_commit = on`), not replayed it.
* uvicorn announces ASGI 2.3: Starlette runs a streaming body beside the listener
  for the disconnect and cancels it.

## The proofs

| theorem | says | assumes |
|---|---|---|
| `PaymentProofs!Invariance`, `TypeCorrect`, `OneSuccessPerKey`, `RepliesAreBacked` | `IInv`; no negative balance; one success per key; answers backed | nothing: any number of calls, expiring records, faults, both routes |
| `PaymentProofs!OneExecutorPerKey` | one handler executes per key and finds its own record | records outlive their handlers |
| `PaymentProofs!ImplementsTheLedger` | every step is an atomic payment or invisible | the buggy route is not used |
| `InventoryProofs!TypeCorrect` | no negative stock | nothing, any mix, the racy ones included |
| `InventoryProofs!Invariance`, `StockIsConserved`, `ImplementsTheStock` | what a handler read is still true when used; no lost update; refinement | `SafeMix` |
| `InventoryProofs!OneHolderPerLease` | one holder | no holder outlives its lease |
| `InventoryProofs!OptimistsAreOutbought` | an optimist that gives up has lost to as many others as it had attempts | nothing: any mix, any stock, any number of attempts |
| `InventoryProofs!NobodyTurnedAwayEarly` | the same, and "not enough" is said only of a stock that does not cover the quantity | `SafeMix` |
| `InventoryProofs!RepliesMatchBookings` | a request books at most once, and as it was told | nothing, any mix |
| `LiveStreamProofs!Invariance`, `TypeCorrect`, `CompletionsAreComplete`, `CompletionsStay`, `ResultsAreKept`, `QueueIsLargeEnough` | the safety properties of the run, and that `put` never waits | nothing, any finite set of sources |
| `LiveStreamProofs!ChannelTypeCorrect`, `RegistryHoldsTheLive`, `ReturnsHaveServed` | the safety properties of `ws_serve` | nothing: any clients and broadcasts, queues of any size from 1 |
| `LiveStreamProofs!BothImplemented` | the composition implements `AggregateStream` and `WebSockets` | `SourcesBroadcast`: each source's task is among the callers of `broadcast()` |
| `LiveStreamProofs!CallersInvariance`, `CompletionsWereBroadcast` | a task stands where its broadcast stands; a completed request's results were queued for every client there to get them | `SourcesBroadcast` |
| `BatchAggregateProofs!Invariance`, `SingleFlight`, `CachedMeansNoFanOut`, `AnswersMatchRows`, `RegistryEmpties` | the safety properties of the run, and that nothing stays registered | nothing |
| `BatchAggregateProofs!ImplementsTheFlights` | refinement of `SharedFlights` | nothing |
| `WebhooksProofs!Invariance`, `StatusAgreesWithAttempts`, `RetryAfterRecordedFailure` | both safety properties of the run | nothing |
| `WebhooksProofs!EverySlotAccounted`, `NestedLimitersLetGo` | free and held slots add up to each limit; two nested limiters never close on everybody | nothing: the sets of calls may be infinite |
| `JobQueueProofs!Invariance`, `NoDoubleClaim`, `OldestIsClaimed`, `StatusesMoveForward`, `ImplementsTheQueue` | no double claim, order, no step backwards, refinement | nothing |
| `JobQueueProofs!NoCircularWait`, `NoDeadlock` | no cycle of waits for row locks; while a transaction is under way one can go on | nothing |
| `ConsistencyProofs!Invariance`, `TypeCorrect`, `SessionsAreMonotonic`, `PrimaryReadsAreCurrent`, `QuorumWritesSurvive` | the three safety properties of the run | nothing: any clients, workloads, standbys, pauses and faults |
| `MediaProofs!LocalRanges`, `AssetRanges` | for every file size and header the two parsers select exactly the bytes asked for, and refuse what selects none | nothing |
| `MediaProofs!Invariance`, `TypeCorrect`, `AnswersAreRight`, `RangesAreKept`, `CounterIsRight`, `UpstreamsComeBack` | the four safety properties of the run | nothing: any number of streams, sizes, chunk size and connections |

("Nothing" beyond the named ASSUMEs on constants, which TLC evaluates in every run.)

The arguments, in short:

* *Payment.* The unique index alone does not give `RepliesBacked`: an answer comes
  from the handler's own commit or from a cached record, so `AnswersBacked`
  carries the fact through both, and `TransactionsCovered` says that an open
  transaction holds its row and the row still covers the debit, so that the
  commit cannot break the balance. `OneExecutorPerKey` needs the record to stay
  while the handler executes, which is exactly its assumption; the other theorems
  do without it.
* *Inventory.* `ReadsFresh` is the heart: what was read is still true at the
  write, because the row is locked (pessimistic, atomic), because versions only
  grow and tell (optimistic alone), or because the lease excludes the others
  (locked alone, `SectionsLeased`). `SafeMix` lists the mixes for which one of the
  three holds. It is needed: naive requests, or optimistic ones beside a strategy
  that does not bump the version, do lose updates.
  `RepliesMatchBookings` needs none of that: `Booked`, per request, says that only
  its own committed transaction books for it and only an answer given after the
  commit says so.
  `OptimistsAreOutbought` counts versions: the version of a row is one more than the
  optimistic bookings of its product (`VersionsCountBumps`), and each attempt an optimist
  has lost is a version it had not seen before (`MissesAreBumps`), so that one that is
  out of attempts has that many rivals who booked. It may have lost to them while units
  remain: with 5 attempts and a larger stock the code does turn such buyers away.
* *AggregateStream.* `NoDuplicates` says that a source is in one place: its task, the
  queue, the generator's hand, the client; `Kept` that it is in one of them, and saved
  once it was sent; `Stored` that a stream about to be completed has sent and saved
  them all, because the producer is done only when each task is (`ProducerInOrder`)
  and the queue is empty by then. A stream without duplicates over all the
  events is as long as there are events (`Counting`), which gives `CompleteStream`;
  the same count bounds the queue.
* *WebSockets.* `WaitingHasServed`: a broadcast that waits for a close has served each
  client of its snapshot that is not in the rest of it, where *served* is queued,
  or evicted, or departed. `Serve` takes the longest prefix without a full queue, so
  that no induction over the list is needed: what lies before the first full client is served in
  one step. Eviction, the peer's disconnect and the sender's end each remove a
  registration at most once (`RegistryIsLive`).
* *LiveStream.* `BothImplemented` maps each joint step to a step of both modules; with
  `CallersInvariance` (task and broadcast in step) the stream's `CompletedIsComplete`
  and the channel's `ReturnedMeansServed` give `CompletedWasBroadcast`, which neither
  module can state.
* *BatchAggregate.* `PayloadsSettled`: whatever payload is held, cached or
  answered names a row with that status, which no build in progress and no
  scheduled cleanup will write again. `RequestsMatchBuilds` and
  `RegistryMatchesBuilds` tie waiters, tasks and registry together, so that a
  late waiter's clean-up cannot remove a younger task. For the refinement, `FlightOfBuild`
  says that a working build is the flight of its query, and one lemma per action
  which step of `SharedFlights` it is: a build that goes on inside one stage, or a
  row that is written, is invisible.
* *Webhooks.* `AnswerFollowsRecord` (the list of attempts in memory equals the
  rows, unless the task was stopped) and `TasksWithinCall` (tasks are over when
  the outcome is written, and none was stopped unless another raised). `SlotsConserved`
  follows the set of holders of each limiter (`Sending`, `Posting`, `Calling`), finite
  because each holder took a slot, through each action. `NestedLimitersLetGo`: if no
  delivery can move and no upstream call is out, nobody holds a slot of the inner
  limiter, so that one is free and nobody waits for it; then nobody holds a slot of the
  outer limiter either, and whoever waits for that can move.
* *JobQueue.* `ChoicesLocked`: a chosen job is locked by its claim and QUEUED until
  the commit; `TakenInOrder`: what a claim went past is taken, unless it skips.
  `LocksBehind` is the lock order: a looking claim's locks are on rows it has passed,
  which come before those it has yet to try, and whoever has found its row waits for
  nothing. Hence `WaitsGoForward`, and since positions of waited-for rows cannot grow
  for ever, `NoDeadlock`: of the waiters one waits for a row whose holder does not wait.
* *Consistency.* `Covered`: the LSN a client was told is at or past every version it
  knows, because it is asked for after the commit; `CaughtUp`: a read that says
  `up_to_date` found its standby past that LSN, so that the newest version it shows is
  no older. `Claiming` and `CommitsOK` carry acknowledged versions to a read on the
  primary: a commit that was acknowledged is over, hence not `Hidden`. `Recorded` gives
  `QuorumSurvives`: the quorum commit leaves its wait only with an acknowledgement, and
  flush positions only grow.
* *Media.* `AnsweredRight` is settled by the two lemmas on ranges when the answer is
  given and nothing it names changes later; `SentAsAnnounced` and `InOrder` give the
  delivery of what looks complete; `CountIsLive` follows one element of `Live` at
  a time; `UpstreamHeld` says where an open response may be.

Only model-checked: everything temporal beyond safety (the prover does neither
fairness nor ENABLED: `EveryCallAnswered`, `StuckKeyFreed`, `EveryTriggerEnds`,
`NothingLeftBehind`, `CancelledIsRecorded`, `StreamEndsUndisturbed`, `StreamsEnd`,
`AvailableWhenPartitioned`, `EvictedLeaves`); every safety property of a passing run is
proved. That nobody waits for ever has a safety half, which is proved for the two places
where waits nest: `SomebodyGoesOn` for row locks, `LimitersLetGo` for the limiters. A
sum over all accounts is an induction over data the prover cannot do:
`ImplementsTheLedger` instead proves that each step moves exactly one charge's
amount. Stated and proved without a run of their own, which leaves the runs to properties
that nothing else covers: `AtMostOneSuccess` (the unique index, which `ImplementsLedger` needs of
every step), `StockConserved`, `RegistryEmpties`, `NoDoubleClaim`,
`StatusesMoveForward`, `QueueIsLargeEnough`, `OneBuildPerQuery` (which the refinement of
`SharedFlights` contains), `WaitsGoForward`, `SomebodyGoesOn`, `SlotsConserved`,
`LimitersLetGo`, `TasksAreCallers`, `CompletedWasBroadcast`, the range lemmas.

## Disagreements met while modelling

Shown by a run:

* **A stream may never end** (`stream_hang`). The generator waits in `queue.get()`
  (`aggregation_service.py:115`) with no regard to the producer. If a broadcast
  raises, or is still closing a slow WebSocket client when the last result is
  consumed, `completion_event` is set with nobody looking and no event follows.
  In the counterexample the last broadcast meets a client that has not yet been sent
  an earlier result, and returns from its `close()` after the generator has gone back
  to the queue.
  `tests/test_aggregation.py:45` expects the completed event of a stream.

Seen in the code and part of the models, without a run of their own:

* With the in-memory cache the idempotency record is encoded twice and decoded
  once: a retry during processing gets a 500 (`payment_service.py:250`,
  `redis_cache.py:43`).
* A call repeated after its record has expired is refused by the unique index
  only if it can still pay; otherwise it is answered FAILED
  (`payment_service.py:151,158`).
* `reserve_atomic` tests the truth of a result object, so that an unknown product
  is answered "not enough stock" (`inventory_service.py:214`).
* Only the optimistic strategy bumps `version`, so that it is unsafe beside the
  others (`inventory_service.py:218`).
* The lease is neither renewed nor fenced (`inventory_service.py:234-240`).
* A stream is COMPLETED even if sources failed (`aggregation_service.py:130`), where
  the batch says PARTIAL.
* A generator closed at a `yield` gets GeneratorExit, not CancelledError: its row
  stays RUNNING (`aggregation_service.py:142`); so does a batch row cancelled
  while it is created or stored.
* One waiter that is cancelled cancels the shared build of all
  (`request_coalescer.py:33`).
* An eviction's `close()` is awaited inside `broadcast`, and two broadcasts that
  evict the same client make the second raise (`websocket/manager.py:73`).
* `httpx.RequestError` has no `response`: a connection error raises AttributeError
  in its own handler, the attempt goes unrecorded ("Writes every delivery
  attempt", `repositories.py:125`), the siblings are cancelled and the event stays
  RUNNING (`webhook_service.py:91`).
* The webhook service awaits its cleanup in the cancellation handler (111-114),
  which `aggregation_service.py:194-196` says cannot work.
* `complete()` marks any job DONE, a QUEUED one included, whoever asks
  (`db_lock_service.py:66`); a claimed job whose worker died is never requeued.
* "A stale read from that standby is impossible" (`schemas/consistency.py`, of a quorum
  write): the acknowledgement is of the flush, the standby may still be replaying.
  A standby may also show a version before the primary does.
* "Async writes still succeed" (demo 04 of `scripts/consistency/simulate.py`) is not
  true of a document whose row a waiting quorum write holds, nor of any once such
  writes hold the pool; `AvailableWhenPartitioned` states the exception.
* `on_conflict_do_update` leaves `updated_at` alone, whatever `onupdate` says
  (`db/models.py`); a read on a paused replica hangs, and one on a standby that has
  not replayed the DDL raises.
* The mock source refuses the suffix ranges `_parse_range` accepts and accepts
  `bytes=5`, which it refuses (`routes/mock_sources.py`, `media_service.py:332`).
* A 200 for a file that grows or shrinks after its stat is cut or broken off by the
  server; a 206 is only broken off if it shrinks. `aiter_bytes` decodes what the
  copied Content-Length counts encoded.
* `routes/db_lock.py:76` calls a method the service does not have, and
  `DBLockUnavailable` has no handler that turns it into a 409.

## Not modelled, and why

* DBConcurrencyService (transfers): its router is not mounted, and line 118
  interpolates a dictionary so that every transfer raises before it moves anything;
  `attempt > max_retries` is never true. There is no behaviour to model but the
  error.
* `scripts/db_lock`, `scripts/db_concurrency`, `scripts/payment`: load and demonstration
  scripts against the HTTP interface or a scratch database; their calls are among
  the requests the modules allow. (`_report` of the payment script counts a replayed
  success as a second charge; in `db_concurrency/simulate.py` line 202 comments out the await
  of the second task and line 246 does not await a commit.) The sessions of
  `scripts/consistency` are modelled, as the workloads of `Consistency`.
* `list_files`, `replication_status`, the counter's and other read-only endpoints.
* AsyncCache's `ping` and `aclose`: nothing else sees their effect.
* Health, CPU analysis, mock webhooks, logging, framing, start-up wiring, frontend,
  `build/lib`: no shared state, or a copy.
* Within modelled parts: texts, headers, durations (time-outs are choices), the
  contents of upstream answers, malformed input refused before any state change,
  ids (model values), the deferral of detached tasks at shutdown. In
  `BatchAggregate` the fan-out is one step (its interleavings are those of
  `AggregateStream`), the two lookups of the cache before the coalescer are one
  (a hit in either is the answer), and which exception the waiters get is left
  out. In `Consistency` the schema of a start-up attempt that failed while it waited for a
  standby shows to the next attempt at once. PostgreSQL, Redis, asyncio and httpx are modelled as their callers use them.

## Plan

Done: Payment over Ledger, Inventory over Stock with the lock, JobQueue over
WorkQueue, AggregateStream and WebSockets with their composition, BatchAggregate over
SharedFlights, Webhooks, Consistency, Media; proofs of every safety property the runs check.

Next, in this order:

1. The safety half of `EveryCallAnswered` in `Inventory`: row locks and leases are taken
   in one order, so that no cycle of waits can close; the same in `Consistency` for the
   pool and the row lock, where a quorum commit may hold both.
2. `Webhooks` composed with `WebSockets`, as `LiveStream` does for a stream.
3. `Transfers` (lock order, isolation levels), once the service works.
