------------------------------- MODULE Webhooks -------------------------------
(***************************************************************************)
(* Webhook fan-out: WebhookService.trigger_event under the two limiters of *)
(* the process.                                                            *)
(*                                                                         *)
(* An event is one call of POST /trigger-event; a delivery, one target of  *)
(* it, is a task of the call's TaskGroup with a session of its own. When a *)
(* task raises or the call is cancelled, the group cancels the other tasks *)
(* before any of them gets further: one step. Targets of a call are        *)
(* distinct. The limiter of HTTP calls is shared with the aggregation's    *)
(* fetches (SharedHttpClient.get_json).                                    *)
(***************************************************************************)
EXTENDS Integers, FiniteSets

CONSTANTS
  Events, Targets,
  MayTarget,      \* event -> the targets its call chooses from
  Fetches,        \* upstream calls of aggregations
  WebhookLimit,   \* webhook_concurrency_limit
  HttpLimit,      \* http_concurrency_limit
  Leaving,        \* may calls be cancelled?
  Evicting,       \* may a broadcast raise?
  Unreachable,    \* may a target fail to answer?
  Faults          \* may database calls fail?

ASSUME TargetAssumption == MayTarget \in [Events -> SUBSET Targets]
ASSUME LimitAssumption == {WebhookLimit, HttpLimit} \subseteq Nat \ {0}
ASSUME SwitchAssumption == {Leaving, Evicting, Unreachable, Faults} \subseteq BOOLEAN

VARIABLES
  pc,        \* where each call is
  targets,   \* event -> its targets
  row,       \* event -> status in webhook_events, or "none"
  at,        \* delivery -> where its task is
  try,       \* delivery -> attempt_number
  result,    \* delivery -> what the attempt being recorded came to, or "none"
  attempts,  \* committed rows of webhook_delivery_attempts
  told,      \* event -> its list of attempts, for the answer
  fetch,     \* upstream call -> where it is
  free       \* free slots of each limiter

vars == <<pc, targets, row, at, try, result, attempts, told, fetch, free>>
deliveries == <<at, try, result, attempts, told, free>>

Deliveries == Events \X Targets
Event(d) == d[1]
Target(d) == d[2]
Of(e) == {d \in Deliveries : Event(d) = e /\ Target(d) \in targets[e]}

Holding == {"nested", "posting"}
Over == {"ended", "raised", "stopped"}
Answered == {"answered", "raised", "cancelled"}

AttemptRows == [delivery : Deliveries, number : {1, 2}, status : {"success", "failed"}]
Attempt(d) == [delivery |-> d, number |-> try[d], status |-> result[d]]

At(d, label) == at' = [at EXCEPT ![d] = label]

----------------------------------------------------------------------------
(* The group stops: live tasks get CancelledError where they are, give     *)
(* their slots back and leave an unfinished commit either way.             *)

Live(e) == {d \in Of(e) : at[d] \notin Over}
Unfinished(e) == {d \in Of(e) : at[d] = "recording"}

\* Mutant: a cancelled task keeps the webhook slot it holds.
KeepSlot(e) ==
  [free EXCEPT !.http = @ + Cardinality({d \in Of(e) : at[d] = "posting"})]

Returned(e) ==
  [webhook |-> free.webhook + Cardinality({d \in Of(e) : at[d] \in Holding}),
   http    |-> free.http + Cardinality({d \in Of(e) : at[d] = "posting"})]

Stop(e, raising) ==
  /\ at' = [d \in Deliveries |->
              CASE d \in raising -> "raised"
                [] d \in Live(e) \ raising -> "stopped"
                [] OTHER -> at[d]]
  /\ free' = Returned(e)
  /\ \E committed \in SUBSET Unfinished(e) :
       attempts' = attempts \cup {Attempt(d) : d \in committed}
  /\ result' = [d \in Deliveries |-> IF d \in Of(e) THEN "none" ELSE result[d]]
  /\ UNCHANGED <<try, told>>

Raise(d) == Stop(Event(d), {d})

----------------------------------------------------------------------------
(* Deliveries.                                                             *)

TakeWebhookSlot(d) ==
  /\ at[d] = "queued"
  /\ free.webhook > 0
  /\ free' = [free EXCEPT !.webhook = @ - 1]
  /\ At(d, "nested")
  /\ UNCHANGED <<try, result, attempts, told>>

TakeHttpSlot(d) ==
  /\ at[d] = "nested"
  /\ free.http > 0
  /\ free' = [free EXCEPT !.http = @ - 1]
  /\ At(d, "posting")
  /\ UNCHANGED <<try, result, attempts, told>>

\* The target answers, with success or with an error status.
Post(d) ==
  /\ at[d] = "posting"
  /\ \E status \in {"success", "failed"} : result' = [result EXCEPT ![d] = status]
  /\ free' = [webhook |-> free.webhook + 1, http |-> free.http + 1]
  /\ At(d, "recording")
  /\ UNCHANGED <<try, attempts, told>>

\* Mutant: the return after a successful attempt is missing.
AfterAttemptNoReturn(d) == IF try[d] = 1 THEN "sleeping" ELSE "ended"

AfterAttempt(d) ==
  CASE result[d] = "success" -> "broadcasting"
    [] result[d] = "failed" /\ try[d] = 1 -> "sleeping"
    [] OTHER -> "ended"

\* The attempt is committed and noted for the answer.
Record(d) ==
  /\ at[d] = "recording"
  /\ attempts' = attempts \cup {Attempt(d)}
  /\ told' = [told EXCEPT ![Event(d)] = @ \cup {Attempt(d)}]
  /\ At(d, AfterAttempt(d))
  /\ result' = [result EXCEPT ![d] = "none"]
  /\ UNCHANGED <<try, free>>

Broadcasted(d) ==
  /\ at[d] = "broadcasting"
  /\ At(d, "ended")
  /\ UNCHANGED <<try, result, attempts, told, free>>

Retry(d) ==
  /\ at[d] = "sleeping"
  /\ try' = [try EXCEPT ![d] = 2]
  /\ At(d, "queued")
  /\ UNCHANGED <<result, attempts, told, free>>

\* A connection error has no response to take a status code from, so that its
\* handler raises AttributeError; so do failing commits and broadcasts raise.
Throw(d) ==
  /\ \/ Unreachable /\ at[d] = "posting"
     \/ Faults /\ at[d] = "recording"
     \/ Evicting /\ at[d] = "broadcasting"
  /\ Raise(d)

Deliver(d) ==
  /\ \/ TakeWebhookSlot(d) \/ TakeHttpSlot(d) \/ Post(d) \/ Record(d)
     \/ Broadcasted(d) \/ Retry(d) \/ Throw(d)
  /\ UNCHANGED <<pc, targets, row, fetch>>

----------------------------------------------------------------------------
(* Calls.                                                                  *)

Receive(e) ==
  /\ pc[e] = "idle"
  /\ pc' = [pc EXCEPT ![e] = "creating"]
  /\ \E T \in SUBSET MayTarget[e] : targets' = [targets EXCEPT ![e] = T]
  /\ UNCHANGED <<row, deliveries, fetch>>

\* The event's row is committed, then its deliveries start.
Create(e) ==
  /\ pc[e] = "creating"
  /\ row' = [row EXCEPT ![e] = "RUNNING"]
  /\ pc' = [pc EXCEPT ![e] = "delivering"]
  /\ at' = [d \in Deliveries |-> IF d \in Of(e) THEN "queued" ELSE at[d]]
  /\ UNCHANGED <<targets, try, result, attempts, told, free, fetch>>

\* The TaskGroup ends; the group of what its tasks raised leaves the handler.
Gather(e) ==
  /\ pc[e] = "delivering"
  /\ Live(e) = {}
  /\ pc' = [pc EXCEPT ![e] =
              IF \E d \in Of(e) : at[d] = "raised" THEN "raised" ELSE "finishing"]
  /\ UNCHANGED <<targets, row, deliveries, fetch>>

Successful(e) == {d \in Of(e) : \E a \in told[e] : a.delivery = d /\ a.status = "success"}
SomeFailed(e) == \E a \in told[e] : a.status = "failed"

\* Mutant: any failed attempt makes the outcome partial.
FinalIgnoresRetries(e) == IF SomeFailed(e) THEN "PARTIAL" ELSE "COMPLETED"

FinalStatus(e) ==
  IF SomeFailed(e) /\ Successful(e) # Of(e) THEN "PARTIAL" ELSE "COMPLETED"

Finish(e) ==
  /\ pc[e] = "finishing"
  /\ row' = [row EXCEPT ![e] = FinalStatus(e)]
  /\ pc' = [pc EXCEPT ![e] = "answered"]
  /\ UNCHANGED <<targets, deliveries, fetch>>

MarkCancelled(e) ==
  /\ pc[e] = "cancelling"
  /\ row' = [row EXCEPT ![e] = "CANCELLED"]
  /\ pc' = [pc EXCEPT ![e] = "cancelled"]
  /\ UNCHANGED <<targets, deliveries, fetch>>

\* Cancelled during the fan-out: the group stops, then the row is to be marked.
Leave(e) ==
  /\ Leaving
  /\ pc[e] = "delivering"
  /\ \A d \in Of(e) : at[d] # "raised"
  /\ Stop(e, {})
  /\ pc' = [pc EXCEPT ![e] = "cancelling"]
  /\ UNCHANGED <<targets, row, fetch>>

\* The call's own commit raises or is cancelled, having taken effect or not.
CommitFails(e) ==
  /\ Faults \/ Leaving
  /\ \/ pc[e] = "creating" /\ row' \in {row, [row EXCEPT ![e] = "RUNNING"]}
     \/ pc[e] = "finishing" /\ row' \in {row, [row EXCEPT ![e] = FinalStatus(e)]}
     \/ pc[e] = "cancelling" /\ row' \in {row, [row EXCEPT ![e] = "CANCELLED"]}
  /\ pc' = [pc EXCEPT ![e] = "raised"]
  /\ UNCHANGED <<targets, deliveries, fetch>>

Trigger(e) == Create(e) \/ Gather(e) \/ Finish(e) \/ MarkCancelled(e) \/ CommitFails(e)

----------------------------------------------------------------------------
(* Upstream calls, which take a slot of the HTTP limiter only.             *)

StartFetch(f) ==
  /\ fetch[f] = "idle"
  /\ free.http > 0
  /\ fetch' = [fetch EXCEPT ![f] = "calling"]
  /\ free' = [free EXCEPT !.http = @ - 1]

EndFetch(f) ==
  /\ fetch[f] = "calling"
  /\ fetch' = [fetch EXCEPT ![f] = "over"]
  /\ free' = [free EXCEPT !.http = @ + 1]

Fetch(f) ==
  /\ StartFetch(f) \/ EndFetch(f)
  /\ UNCHANGED <<pc, targets, row, at, try, result, attempts, told>>

----------------------------------------------------------------------------
Init ==
  /\ pc = [e \in Events |-> "idle"]
  /\ targets = [e \in Events |-> {}]
  /\ row = [e \in Events |-> "none"]
  /\ at = [d \in Deliveries |-> "none"]
  /\ try = [d \in Deliveries |-> 1]
  /\ result = [d \in Deliveries |-> "none"]
  /\ attempts = {}
  /\ told = [e \in Events |-> {}]
  /\ fetch = [f \in Fetches |-> "idle"]
  /\ free = [webhook |-> WebhookLimit, http |-> HttpLimit]

Next ==
  \/ \E e \in Events : Receive(e) \/ Trigger(e) \/ Leave(e)
  \/ \E d \in Deliveries : Deliver(d)
  \/ \E f \in Fetches : Fetch(f)

Spec == Init /\ [][Next]_vars

\* The event loop runs what is ready, semaphores serve their waiters, and calls
\* end: HTTP calls have a timeout. No call need arrive or be cancelled.
FairSpec ==
  /\ Spec
  /\ \A e \in Events : WF_vars(Trigger(e))
  /\ \A d \in Deliveries : WF_vars(Deliver(d))
  /\ \A f \in Fetches : WF_vars(Fetch(f))

----------------------------------------------------------------------------
Recorded(d, status) == \E a \in attempts : a.delivery = d /\ a.status = status

\* The status of an event agrees with the attempts on record: COMPLETED only when
\* each target accepted, be it at the second attempt, PARTIAL only when one did not.
StatusIsTrue ==
  \A e \in Events :
    /\ row[e] = "COMPLETED" => \A d \in Of(e) : Recorded(d, "success")
    /\ row[e] = "PARTIAL" => \E d \in Of(e) : ~Recorded(d, "success")

\* "Writes every delivery attempt so retries become visible": a target is called
\* again only with the failure of its first call on record and no success.
RetriesVisible ==
  \A d \in Deliveries :
    try[d] = 2 =>
      /\ [delivery |-> d, number |-> 1, status |-> "failed"] \in attempts
      /\ at[d] \in {"queued", "nested", "posting"} => ~Recorded(d, "success")

\* Types, but for the free slots.
TypeOK ==
  /\ pc \in [Events -> {"idle", "creating", "delivering", "finishing", "cancelling"} \cup Answered]
  /\ targets \in [Events -> SUBSET Targets]
  /\ row \in [Events -> {"none", "RUNNING", "COMPLETED", "PARTIAL", "CANCELLED"}]
  /\ at \in [Deliveries ->
       {"none", "queued", "recording", "broadcasting", "sleeping"} \cup Holding \cup Over]
  /\ try \in [Deliveries -> {1, 2}]
  /\ result \in [Deliveries -> {"none", "success", "failed"}]
  /\ attempts \subseteq AttemptRows
  /\ told \in [Events -> SUBSET AttemptRows]

\* A call's tasks exist from its fan-out on, and all are over once it left it. One
\* is only stopped where another raised or the call was cancelled.
TasksWithinCall ==
  /\ \A d \in Deliveries : d \notin Of(Event(d)) => at[d] = "none"
  /\ \A e \in Events : \A d \in Of(e) :
       /\ pc[e] \in {"idle", "creating"} => at[d] = "none"
       /\ pc[e] = "delivering" => at[d] # "none"
       /\ pc[e] \in {"cancelling", "cancelled", "raised"} => at[d] \in {"none"} \cup Over
       /\ pc[e] \in {"finishing", "answered"} => at[d] = "ended"
       /\ pc[e] = "delivering" /\ at[d] = "stopped" => \E x \in Of(e) : at[x] = "raised"

\* Where a delivery is says what is on record.
RecordFollowsTask ==
  \A d \in Deliveries :
    /\ at[d] = "none" => try[d] = 1
    /\ at[d] = "recording" => result[d] \in {"success", "failed"}
    /\ at[d] = "sleeping" => [delivery |-> d, number |-> 1, status |-> "failed"] \in attempts
    /\ Recorded(d, "success") => at[d] \in {"broadcasting"} \cup Over

\* Unless a task was stopped, what is on record of it is noted for the answer.
AnswerFollowsRecord ==
  \A d \in Deliveries :
    /\ at[d] = "broadcasting" =>
         \E a \in told[Event(d)] : a.delivery = d /\ a.status = "success"
    /\ at[d] = "ended" => \E a \in told[Event(d)] : a.delivery = d
    /\ at[d] \notin {"raised", "stopped"} =>
         \A a \in attempts : a.delivery = d => a \in told[Event(d)]

AttemptsNotedByCall ==
  \A e \in Events : \A a \in told[e] : a \in attempts /\ Event(a.delivery) = e

\* An outcome is only written after the fan-out.
OutcomeIsLast ==
  \A e \in Events : row[e] \in {"COMPLETED", "PARTIAL"} => pc[e] \in {"answered", "raised"}

\* The inductive invariant behind the safety properties.
IInv ==
  /\ TypeOK /\ TasksWithinCall /\ RecordFollowsTask /\ AnswerFollowsRecord
  /\ AttemptsNotedByCall /\ OutcomeIsLast /\ RetriesVisible /\ StatusIsTrue

\* Who has a slot of the webhook limiter, and who has one of the HTTP limiter.
Sending == {d \in Deliveries : at[d] \in Holding}
Posting == {d \in Deliveries : at[d] = "posting"}
Calling == {f \in Fetches : fetch[f] = "calling"}

HoldersAreFew ==
  /\ fetch \in [Fetches -> {"idle", "calling", "over"}]
  /\ IsFiniteSet(Sending) /\ IsFiniteSet(Posting) /\ IsFiniteSet(Calling)

\* No slot is lost or given back twice, whoever raises, leaves or is stopped.
SlotsConserved ==
  /\ free \in [webhook : Nat, http : Nat]
  /\ free.webhook + Cardinality(Sending) = WebhookLimit
  /\ free.http + Cardinality(Posting) + Cardinality(Calling) = HttpLimit

\* A delivery under way has its next step open: a slot it waits for is free.
MayDeliver(d) ==
  \/ at[d] = "queued" /\ free.webhook > 0
  \/ at[d] = "nested" /\ free.http > 0
  \/ at[d] \in {"posting", "recording", "broadcasting", "sleeping"}

\* The two limiters, one inside the other, never close on everybody: while anybody
\* waits or works, somebody goes on.
LimitersLetGo ==
  (\E d \in Deliveries : at[d] \notin {"none"} \cup Over) =>
    (\E d \in Deliveries : MayDeliver(d)) \/ Calling # {}

\* Every call ends, although deliveries hold a slot of one limiter while they wait
\* for the other, and groups stop with slots in any hand.
EveryTriggerEnds == \A e \in Events : pc[e] # "idle" ~> pc[e] \in Answered
=============================================================================
