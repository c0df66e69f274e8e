---------------------------- MODULE BatchAggregate ----------------------------
(***************************************************************************)
(* Batch aggregation: AggregationService.aggregate over                    *)
(* AsyncCache.get_or_set and RequestCoalescer.run.                         *)
(*                                                                         *)
(* A build is one run of _build_response_payload. It is named after the    *)
(* request that started it and uses that request's session. With the cache *)
(* it is the task that every request for the query awaits; without, it is  *)
(* part of the request. Which exception a failed or cancelled build raises *)
(* is left out: its waiters all get the same one. The coalescer holds its  *)
(* lock across no await, so finding, starting and removing a task are      *)
(* atomic. The in-memory cache never suspends its caller: its behaviours   *)
(* are among these.                                                        *)
(***************************************************************************)

CONSTANTS
  Requests,    \* calls of GET /aggregate
  Queries,
  Leaving,     \* may handlers be cancelled?
  Evicting,    \* may a broadcast raise out of a source task?
  Faults,      \* may database and cache calls fail?
  None

ASSUME SwitchAssumption == {Leaving, Evicting, Faults} \subseteq BOOLEAN
ASSUME NoneAssumption == None \notin Requests

VARIABLES
  pc,      \* where each request is
  query,   \* request -> its query
  uses,    \* request -> the build it awaits, or None
  reply,   \* request -> the payload it was told, or None
  tasks,   \* query -> the registered build, or None
  build,   \* request -> state of the build it started
  row,     \* build -> status of its row in aggregate_requests, or "none"
  payload, \* build -> the payload it returns, or None
  cache,   \* query -> the cached payload, or None
  cleanup  \* builds whose detached cancellation task is scheduled

vars == <<pc, query, uses, reply, tasks, build, row, payload, cache, cleanup>>
request == <<pc, query, uses, reply>>
shared == <<tasks, cache>>

\* A payload names the row it reports and says what status the row has.
Statuses == {"COMPLETED", "PARTIAL"}
Payloads == [id : Requests, status : Statuses]
Payload(b, status) == [id |-> b, status |-> status]

Working == {"checking", "creating", "fetching", "stopping", "storing", "caching"}
Fanning == {"creating", "fetching", "stopping", "storing"}
BuildEnded == {"returned", "raised"}
Answered == {"told", "raised"}

Coalesced(b) == uses[b] = b /\ pc[b] = "waiting"

----------------------------------------------------------------------------
(* Requests.                                                               *)

Tell(r, answer) ==
  /\ pc' = [pc EXCEPT ![r] = "told"]
  /\ reply' = [reply EXCEPT ![r] = answer]

Raise(r) ==
  /\ pc' = [pc EXCEPT ![r] = "raised"]
  /\ UNCHANGED reply

Receive(r) ==
  /\ pc[r] = "idle"
  /\ query' \in {[query EXCEPT ![r] = q] : q \in Queries}
  /\ \/ /\ pc' = [pc EXCEPT ![r] = "looking"]
        /\ UNCHANGED <<uses, build>>
     \/ /\ pc' = [pc EXCEPT ![r] = "inline"]      \* use_cache=False
        /\ uses' = [uses EXCEPT ![r] = r]
        /\ build' = [build EXCEPT ![r] = "creating"]
  /\ UNCHANGED <<reply, shared, row, payload, cleanup>>

\* cache.get, in aggregate and again in get_or_set: a hit in either is the answer,
\* so that the two are one lookup, at the time of the hit or of the second miss.
Look(r) ==
  /\ pc[r] = "looking"
  /\ IF cache[query[r]] # None
       THEN Tell(r, cache[query[r]])
       ELSE pc' = [pc EXCEPT ![r] = "missed"] /\ UNCHANGED reply
  /\ UNCHANGED <<query, uses, shared, build, row, payload, cleanup>>

\* Mutant: the task goes straight to the factory.
ToFactory == "creating"

FirstStep == "checking"

\* RequestCoalescer.run, up to the await.
Join(r) ==
  LET registered == tasks[query[r]] IN
  /\ pc[r] = "missed"
  /\ pc' = [pc EXCEPT ![r] = "waiting"]
  /\ IF registered # None
       THEN /\ uses' = [uses EXCEPT ![r] = registered]
            /\ UNCHANGED <<tasks, build>>
       ELSE /\ uses' = [uses EXCEPT ![r] = r]
            /\ tasks' = [tasks EXCEPT ![query[r]] = r]
            /\ build' = [build EXCEPT ![r] = FirstStep]
  /\ UNCHANGED <<query, reply, row, payload, cache, cleanup>>

\* Mutant: whatever task is registered is popped.
PopAny(r) == tasks' = [tasks EXCEPT ![query[r]] = None]

\* The finally of RequestCoalescer.run, once the task is done.
Pop(r) == tasks' = [tasks EXCEPT ![query[r]] = IF @ = uses[r] THEN None ELSE @]

\* Mutant: followers wait for a signal that only a result gives.
Successful(b) == build[b] = "returned"

Ended(b) == build[b] \in BuildEnded

\* The await of the build returns, or raises what the build raised.
Wake(r) ==
  /\ pc[r] \in {"waiting", "inline"}
  /\ Ended(uses[r])
  /\ IF build[uses[r]] = "returned"
       THEN Tell(r, payload[uses[r]])
       ELSE Raise(r)
  /\ IF pc[r] = "waiting" THEN Pop(r) ELSE UNCHANGED tasks
  /\ UNCHANGED <<query, uses, build, row, payload, cache, cleanup>>

\* A cache lookup raises.
LookFails(r) ==
  /\ Faults
  /\ pc[r] = "looking"
  /\ Raise(r)
  /\ UNCHANGED <<query, uses, shared, build, row, payload, cleanup>>

Request(r) == Receive(r) \/ Look(r) \/ Join(r) \/ Wake(r) \/ LookFails(r)

----------------------------------------------------------------------------
(* Builds.                                                                 *)

End(b, how) == build' = [build EXCEPT ![b] = how]

Goto(b, label) == build' = [build EXCEPT ![b] = label]

\* The cache is looked at again, inside the task.
Check(b) ==
  /\ build[b] = "checking"
  /\ IF cache[query[b]] # None
       THEN /\ End(b, "returned")
            /\ payload' = [payload EXCEPT ![b] = cache[query[b]]]
       ELSE Goto(b, "creating") /\ UNCHANGED payload
  /\ UNCHANGED <<request, shared, row, cleanup>>

\* The row is inserted and committed before the fan-out.
Create(b) ==
  /\ build[b] = "creating"
  /\ row' = [row EXCEPT ![b] = "RUNNING"]
  /\ Goto(b, "fetching")
  /\ UNCHANGED <<request, shared, payload, cleanup>>

\* The TaskGroup ends; the status follows from the results.
Fetched(b) ==
  /\ build[b] = "fetching"
  /\ \E status \in Statuses : payload' = [payload EXCEPT ![b] = Payload(b, status)]
  /\ Goto(b, "storing")
  /\ UNCHANGED <<request, shared, row, cleanup>>

\* The results and the status are written and committed.
Store(b) ==
  /\ build[b] = "storing"
  /\ row' = [row EXCEPT ![b] = payload[b].status]
  /\ IF pc[b] = "inline" THEN End(b, "returned") ELSE Goto(b, "caching")
  /\ UNCHANGED <<request, shared, payload, cleanup>>

Put(b) ==
  /\ build[b] = "caching"
  /\ cache' = [cache EXCEPT ![query[b]] = payload[b]]
  /\ End(b, "returned")
  /\ UNCHANGED <<request, tasks, row, payload, cleanup>>

\* What an interrupted call to the database or the cache may have done.
Interrupted(b) ==
  \/ build[b] = "creating" /\ row' = [row EXCEPT ![b] = "RUNNING"] /\ UNCHANGED cache
  \/ build[b] = "storing" /\ row' = [row EXCEPT ![b] = payload[b].status] /\ UNCHANGED cache
  \/ build[b] = "caching" /\ cache' = [cache EXCEPT ![query[b]] = payload[b]] /\ UNCHANGED row
  \/ UNCHANGED <<row, cache>>

\* A call to the database or the cache raises.
CallFails(b) ==
  /\ Faults
  /\ build[b] \in {"checking", "creating", "storing", "caching"}
  /\ End(b, "raised")
  /\ Interrupted(b)
  /\ UNCHANGED <<request, tasks, payload, cleanup>>

\* A source task raises, before or after the group was cancelled.
GroupFails(b) ==
  /\ Evicting
  /\ build[b] \in {"fetching", "stopping"}
  /\ End(b, "raised")
  /\ UNCHANGED <<request, shared, row, payload, cleanup>>

\* The sources are cancelled: the row is left to a detached task.
Stopped(b) ==
  /\ build[b] = "stopping"
  /\ End(b, "raised")
  /\ cleanup' = cleanup \cup {b}
  /\ UNCHANGED <<request, shared, row, payload>>

\* _mark_cancelled_in_fresh_session, which swallows its errors.
Cleanup(b) ==
  /\ b \in cleanup
  /\ cleanup' = cleanup \ {b}
  /\ \/ row' = [row EXCEPT ![b] = "CANCELLED"]
     \/ Faults /\ UNCHANGED row
  /\ UNCHANGED <<request, shared, build, payload>>

Build(b) ==
  \/ Check(b) \/ Create(b) \/ Fetched(b) \/ Store(b) \/ Put(b) \/ CallFails(b)
  \/ GroupFails(b) \/ Stopped(b)

----------------------------------------------------------------------------
(* Cancellation of a handler.                                              *)

\* Mutant: whatever a cancelled build was at, its row is to be marked.
StopAndMark(b) ==
  /\ End(b, IF build[b] = "fetching" THEN "stopping" ELSE "raised")
  /\ cleanup' = IF build[b] \in {"storing", "caching"} THEN cleanup \cup {b} ELSE cleanup
  /\ IF build[b] = "fetching" THEN UNCHANGED <<row, cache>> ELSE Interrupted(b)

\* The build gets CancelledError where it is. Only the fan-out handles it.
StopBuild(b) ==
  /\ End(b, IF build[b] \in {"fetching", "stopping"} THEN "stopping" ELSE "raised")
  /\ IF build[b] \in {"fetching", "stopping"} THEN UNCHANGED <<row, cache>> ELSE Interrupted(b)
  /\ UNCHANGED cleanup

\* A request that awaits a build passes its own cancellation on to the build.
Cancel(r) ==
  /\ Leaving
  /\ \/ /\ pc[r] \in {"looking", "missed"}
        /\ Raise(r)
        /\ UNCHANGED <<tasks, build, row, cache, cleanup>>
     \/ /\ pc[r] \in {"waiting", "inline"}
        /\ ~Ended(uses[r])
        /\ StopBuild(uses[r])
        /\ UNCHANGED <<pc, reply, tasks>>
     \/ /\ pc[r] = "waiting"
        /\ Ended(uses[r])
        /\ Raise(r)
        /\ Pop(r)
        /\ UNCHANGED <<build, row, cache, cleanup>>
  /\ UNCHANGED <<query, uses, payload>>

\* A cached payload outlives its time.
Expire(q) ==
  /\ cache[q] # None
  /\ cache' = [cache EXCEPT ![q] = None]
  /\ UNCHANGED <<request, tasks, build, row, payload, cleanup>>

----------------------------------------------------------------------------
Init ==
  /\ pc = [r \in Requests |-> "idle"]
  /\ query \in [Requests -> {None}]
  /\ uses = [r \in Requests |-> None]
  /\ reply = [r \in Requests |-> None]
  /\ tasks = [q \in Queries |-> None]
  /\ build = [r \in Requests |-> "none"]
  /\ row = [r \in Requests |-> "none"]
  /\ payload = [r \in Requests |-> None]
  /\ cache = [q \in Queries |-> None]
  /\ cleanup = {}

Next ==
  \/ \E r \in Requests : Request(r) \/ Build(r) \/ Cleanup(r) \/ Cancel(r)
  \/ \E q \in Queries : Expire(q)

Spec == Init /\ [][Next]_vars

\* The event loop runs what is ready, and calls to the database, the cache and
\* the sources end or time out. Clients need not leave, nor anything expire.
FairSpec ==
  Spec /\ \A r \in Requests : WF_vars(Look(r) \/ Join(r) \/ Wake(r)) /\ WF_vars(Build(r))

----------------------------------------------------------------------------
\* RequestCoalescer's docstring: matching requests do not trigger redundant
\* fan-out. A task that works stays registered, so that whoever asks next joins
\* it (and a query has at most one), although waiters of an earlier task may wake
\* and tidy up long after that task has ended.
OneBuildPerQuery ==
  \A b \in Requests : Coalesced(b) /\ build[b] \in Working => tasks[query[b]] = b

\* The task looks at the cache again, so it never fans out for a query whose
\* payload is cached, however old the misses of the requests that wait for it.
NoRedundantFanOut ==
  \A b \in Requests :
    Coalesced(b) /\ build[b] \in Fanning => cache[query[b]] = None

\* Whoever was told of an aggregate (from its own build, another's or the cache)
\* finds the row it names with the status it was told, then and ever after: no
\* rollback and no detached cancellation reaches a row that was reported.
RepliesRecorded ==
  \A r \in Requests : pc[r] = "told" => row[reply[r].id] = reply[r].status

\* A task that has ended is registered only while one of its own waiters is about
\* to wake and remove it: no failure, cancellation or old payload stays behind.
EndedTaskLeaves ==
  \A q \in Queries :
    tasks[q] # None /\ build[tasks[q]] \in BuildEnded
    => \E r \in Requests : pc[r] = "waiting" /\ query[r] = q /\ uses[r] = tasks[q]

\* Types.
TypeOK ==
  /\ pc \in [Requests -> {"idle", "looking", "missed", "waiting", "inline"} \cup Answered]
  /\ query \in [Requests -> Queries \cup {None}]
  /\ uses \in [Requests -> Requests \cup {None}]
  /\ reply \in [Requests -> Payloads \cup {None}]
  /\ tasks \in [Queries -> Requests \cup {None}]
  /\ build \in [Requests -> {"none"} \cup Working \cup BuildEnded]
  /\ row \in [Requests -> {"none", "RUNNING", "CANCELLED"} \cup Statuses]
  /\ payload \in [Requests -> Payloads \cup {None}]
  /\ cache \in [Queries -> Payloads \cup {None}]
  /\ cleanup \subseteq Requests

\* A request waits for a build of its own query; a build works for its request.
RequestsMatchBuilds ==
  \A r \in Requests :
    /\ pc[r] # "idle" => query[r] \in Queries
    /\ pc[r] \in {"idle", "looking", "missed"} => build[r] = "none"
    /\ pc[r] \in {"waiting", "inline"} =>
         uses[r] \in Requests /\ build[uses[r]] # "none" /\ query[uses[r]] = query[r]
    /\ pc[r] = "waiting" => pc[uses[r]] # "inline"
    /\ pc[r] = "inline" => uses[r] = r /\ build[r] \notin {"checking", "caching"}
    /\ build[r] \in Working => uses[r] = r /\ pc[r] \in {"waiting", "inline"}

\* A registered build was registered by its request, for the request's query.
RegistryMatchesBuilds ==
  \A q \in Queries : tasks[q] # None =>
    /\ uses[tasks[q]] = tasks[q]
    /\ query[tasks[q]] = q
    /\ build[tasks[q]] # "none"
    /\ pc[tasks[q]] # "inline"

\* What a payload says of its row is so, and nothing will write that row again.
Settled(p) ==
  /\ row[p.id] = p.status
  /\ build[p.id] \in {"caching", "returned", "raised"}
  /\ p.id \notin cleanup

PayloadsSettled ==
  /\ \A r \in Requests :
       /\ pc[r] = "told" => reply[r] \in Payloads /\ Settled(reply[r])
       /\ build[r] \in {"storing", "caching"} => payload[r] \in Payloads /\ payload[r].id = r
       /\ build[r] \in {"caching", "returned"} => payload[r] \in Payloads /\ Settled(payload[r])
       /\ r \in cleanup => build[r] = "raised"
  /\ \A q \in Queries : cache[q] # None => Settled(cache[q])

\* The inductive invariant behind the safety properties.
IInv ==
  /\ TypeOK /\ RequestsMatchBuilds /\ RegistryMatchesBuilds /\ PayloadsSettled
  /\ OneBuildPerQuery /\ NoRedundantFanOut /\ EndedTaskLeaves

\* Every request is answered, whoever ends the build it awaits, and however.
EveryCallAnswered == \A r \in Requests : pc[r] # "idle" ~> pc[r] \in Answered

\* Coalescing implements its promise: a build with the cache is a flight, from its
\* registration to its end; one without is nobody's but its request's.
Stage(b) ==
  IF pc[b] = "inline" THEN "none"
  ELSE IF build[b] = "returned" THEN "done"
  ELSE IF build[b] = "raised" THEN "failed"
  ELSE IF build[b] \in {"none", "checking"} THEN build[b]
  ELSE "fetching"

Place(r) ==
  IF pc[r] = "idle" THEN "new"
  ELSE IF pc[r] \in {"looking", "missed"} THEN "out"
  ELSE IF pc[r] = "waiting" THEN "aboard"
  ELSE IF pc[r] = "inline" THEN "alone"
  ELSE "gone"

Places == [r \in Requests |-> Place(r)]
Boarded == [r \in Requests |-> IF pc[r] = "waiting" THEN uses[r] ELSE None]
Flights ==
  [q \in Queries |-> IF tasks[q] # None /\ build[tasks[q]] \in Working THEN tasks[q] ELSE None]
Stages == [b \in Requests |-> Stage(b)]
Brought == [b \in Requests |-> IF Stage(b) = "done" THEN payload[b] ELSE None]

TheFlights ==
  INSTANCE SharedFlights WITH
    Callers <- Requests, Keys <- Queries, Values <- Payloads,
    place <- Places, key <- query, boarded <- Boarded, told <- reply,
    flight <- Flights, stage <- Stages, value <- Brought, kept <- cache
ImplementsFlights == TheFlights!Spec
=============================================================================
